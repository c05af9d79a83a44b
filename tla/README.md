# A TLA+ verification of pqc-edr

pqc-edr collects security events on a host with eBPF, sends them over a mutually
authenticated post-quantum channel to an analyzer, and classifies them there with rules, a
correlator and two language models. This directory holds TLA+ modules translated from the
source, the TLC configurations that check them on small instances, and TLAPS proofs for
every value of the constants. `PROJECT.json` lists runs, mutants, findings, hazards and
theorems, and maps every definition to the lines it models. Source paths below are relative
to the repository.

    tlc -workers 2 -config MCChannelSink.cfg MCChannelSink    # one run
    tlapm AgentProofs.tla                                     # one module of proofs

## 1. The system

| Component | State | Operations | Correct when |
|---|---|---|---|
| Kernel collector, `agent/bpf/collector.bpf.c` | ring buffer, inode set | reserve, fill, submit on any CPU | a lost event is at least not taken for another |
| Agent main, `agent/src/main.cpp` | `g_exiting`, the poll loop | load, poll, `on_event`, drain, replay, exit | ready records reach the sink before exit; a signal or failure ends it |
| `ChannelSink`, same file | bounded queue, drop counters, flags, sender's locals | `handle`, `run`, `send_one`, destructor | never blocks the producer, keeps order, tells the analyzer about every loss, stops |
| Handshake, `crypto/src/handshake.cpp`, `wire.cpp`, `session.cpp` | transcript, keys | four messages, derivation | both ends agree on peer, frames and keys |
| Record layer, `crypto/src/record.cpp`, `socket.cpp` | sequence number per direction | `seal`, `open`, `send_record`, `recv_record` | no nonce twice; what is accepted is a prefix of what was sealed |
| Analyzer daemon, `analyzer/src/main.cpp` | the connection in hand | accept, serve, close, signal | no leak, no loss, one bad client does not end it |
| Correlator, `analyzer/src/correlator.cpp` | downloads, staged paths, connections | `observe` for three event types | answers as if it remembered everything in the window |
| Prefilter, pipeline, LLM clients, `analyzer/src/` | none beyond the correlator | `classify_event` | an outage silences nothing; models cannot overturn sequence evidence |
| Event files and `--record`, `common/events_file.h`, `agent/src/main.cpp` | the file, the stream's buffer, `n_`, `last_ts_` | encode, parse, `RecordSink::handle` | what is written reads back as what happened, with its gaps; a crash costs a tail |
| Evaluation, `analyzer/src/eval.cpp` | memo of answers, virtual clock, scenarios | read a file, classify, report | the gate judges each file by its own events |
| Alerts, identity files, tools | files | print, load | pure I/O, see section 8 |

How they interact: BPF programs on all CPUs share the ring; libbpf calls `on_event` on the
main thread, which calls `handle`; the sender thread shares the queue under one mutex and
tells the main loop of a failure through `g_exiting`; the agent and the analyzer share a TCP
connection; the daemon is a single thread that runs handshake, receive loop and
classification in turn, and its correlator outlives connections. `--record` writes events to a
file that `--replay` feeds to the sink and `analyzer_eval` to the pipeline.

What is hard here: the condition variable and the destructor; the drop report, taken under
the lock and sent outside it; a connection that breaks with events and reports in hand; CPUs
that submit out of order while the agent exits; time stamps out of order; tables at their
limits; records and frames lost, repeated, redirected or changed; calls that block without a
timeout. `PROJECT.json` lists each as a hazard at its line, with the properties that cover
it or the reason why none does.

## 2. Modules

    LossyFifo  <--implements--  ChannelSink  <--extends, implements--  AgentMain
    Correlator <--extends--     Pipeline     <--extends--              Eval
    EventsFile <--extends--     Recording
    RecordLayer      Handshake      AnalyzerDaemon
    *Proofs          theorems about the module named first; AgentProofs also about ChannelSink
    MC*              instances for TLC

**LossyFifo** is the abstract promise of the sink: events leave in order, refused events are
owed as a number, notices announce them with the right totals, and a good end owes nothing.

**ChannelSink**: variables carry the names of the members (`q`, `stop`, `broken`, `dropped`,
`dropped_pending`, `sent`) and of `run()`'s locals (`ev`, `report`, `report_total`). One
critical section is one action; the two sends after it are actions of their own, so
everything the other thread can do in between is explored. `pc = "parked"` is
`cv_.wait`: only a notification or a spurious wakeup leaves it. `handle()` is `Handle` with
its three outcomes, the destructor is `SetStop`, `NotifyAll`, `JoinAndClose`. The socket is
`stream` with `rd` records read; `send()` blocks while `SockBuf` records are unread
(`CanWrite`) and fails, possibly late, once the peer is gone; a `seal()` that throws is, for the
agent, a peer that went away just before.

**AgentMain** adds the ring (`Reserve`, `Submit` per CPU; a slot holds its CPU until it is
submitted), the states of `main()` (`apc`: the hooks are attached, and produce events, before
`ring_buffer__new`, which may fail), the final consume, and the replay and synthetic
sources, which call `handle()` without looking at `g_exiting`. Events that the in-kernel
filter discards are not events here.

**Correlator**: the three tables with their limits as constants. Beside them stand complete
histories (`seen...`) that the code does not have; the properties compare the answer to any
next event with what the histories say. Paths are records of directory class, class of base
name and a number; an address is its first two octets. An event's time may lie `Skew` before
one already seen, because the stamp is taken after the slot is reserved. `Reboot` sets the
agent's monotonic clock back to zero while the tables stay; the histories start again, so the
properties ask whether left-over entries can hide what happens after the reboot.

**Pipeline** adds the prefilter and `classify_event`. The answers of both models are
arbitrary values of what `parse_verdict` and `parse_severity` can return, or the fail-safe.

**Eval** is the same pipeline inside `analyzer_eval`: a fresh correlator and virtual clock per
file (`StartFile`), directives, delays, one millisecond per event, the memo with its limit on
calls (`MemoGet`), the mock models (`MockAnswer`) or arbitrary ones, the tally of an attack
file and the gate (`Report`). A context is the event and the reason the correlator wrote, with
its elapsed time rounded as in the code, so that two events share an answer when their texts are
equal; a lineage of pids stands for the tree of names the prompt shows, and of C3's reason the
writer's name is left out. `evident` is a history: the file's own events show an attack by a rule or by
the complete records of the correlator.

**EventsFile** is the text format as operators: `encode_field` and `decode_field`, ancestry,
access letters, `format_line`, `parse_line`, `parse`. A field is a sequence of symbols; blanks,
`#` and `%` are symbols of their own, keywords and numbers are one symbol each. The symbols of
names (`Characters`) and the decimal form of a number (`Text`) are constants. An event is its type,
its process and a part of its own per type. `parse` keeps an entry of kind "none" for a line that
calls nobody, so that entries and lines have the same numbers. `Writable` says which events the format
is able to hold and `Normal` what it keeps of one: an empty name becomes a mark, an empty generation
is left out.

**Recording** runs `agent --record` end to end: `populate_sensitive` takes inodes before the
hooks are attached, names are linked and replaced at any time (`Bind`), the filter of
`handle_file_open` decides by inode, access and directory, with `bpf_d_path` failing or not,
`RecordSink::handle` writes delay and event lines into a buffer that it flushes now and then, and the
process ends or is killed with the buffer in any state (`LossyEnd`). The disk may be full whenever the
buffer is put out, in `handle` or in the destructor; the stream takes nothing from then on, but it
keeps the buffer that it could put out only in part, and a later flush or the closing of the
file may put all of it out again, behind the part (`Rewritten`). `wrote` is a history: the events
handled before the error. Time is bounded by the largest number a file may hold (`MaxNumber`).

**RecordLayer**: per key (one direction of one session) the two sequence numbers, and a
network holding every record ever sealed, any of which may be delivered to any receiver at
any time. AES-GCM is ideal, the nonce is one to one in the sequence number, which has a width
(`Increment`). A receiver keeps nothing but its number: `open()` leaves it alone when it throws
(`Rejected`), and its caller may go on with other records; that the daemon does not is in
AnalyzerDaemon.

**Handshake**: any number of sessions of both roles; the network hands any frame to any
session and may replace fields by those of other sessions or by foreign ones. Signatures,
hashes, X25519 and ML-KEM are ideal, ML-KEM with implicit rejection. Everything that throws
is `ClientThrows`, `ServerThrows` or, for the key agreement that comes after the ServerHello,
`ServerHelloThenThrows`.

**AnalyzerDaemon**: `main()`'s loop and `serve_connection`. Clients are genuine or not, may
stay silent, send good, short, forged or cut records and go away at any point. `accept()` may fail
with a client waiting or without (`AcceptThrows`).

Definitions whose names end in `_Something` and whose comment begins with "Variant" are
mutations used to see that the properties can fail; no specification uses them.

## 3. Runs

| Run | Bounds | Shows |
|---|---|---|
| `channel_sink` | capacities 1 to 4, 7 events, 1 record of socket buffer | the inductive invariant; no lost wakeup; pending drops imply a backlog; a clean end owes nothing; the stream alone accounts for all events; notices carry true totals; refinement of LossyFifo; the destructor returns; accepted events are written |
| `agent` | 2 CPUs, ring of 2, 4 events, capacities 1 and 2 | only kernel losses are silent; what was ready at exit is handed over; the agent refines ChannelSink; a signal or failure ends a collecting agent |
| `correlator` | deque of 2 with 3 downloader runs, limit of 1 with 3 staged paths, history of 2 and sweep above 1 key with 3 connections per key, window 2, times to 5, skew 1, one reboot | C1, for the latest `kMaxDownloads` runs, C2 and C3 are exact up to the skew, sweeps and rewrites included; after a reboot they may report too much and still hide nothing |
| `pipeline` | daemon: all rules and correlations, severities Info and Critical, one downloader run and one connection per key in the history, one reboot. Evaluation: files of 2 entries, two attack files with the mock models, a benign and an attack file with real ones, 2 calls to the models | chains are critical whatever the models say; silence has a reason, also in an outage; the gate judges each attack file by its own events |
| `recording` | contents: an event of each of 2 programs, with awkward names, 1 change of the file system; times: 4 events, gaps on both sides of the ten milliseconds and backwards; errors: 4 events, with and without a gap, an error at any of them or at the end; flush every 2 | a closed capture reads back as what happened; a crash costs a tail, a write error nothing that was flushed before it; virtual and recorded time drift apart by a bounded amount per event |
| `record` | two directions, 3 sequence numbers | nonces unique, delivery is a prefix; after any refusals a receiver accepts its peer's next record and no other |
| `handshake` | 2 + 2 sessions, 1 changed frame | agreement on both sides, one to one; keys match exactly when the hellos do |
| `daemon` | an agent's connection and a stranger's, 3 records each, backlog of 1 | no descriptor leaks; exactly the events before the first bad record are processed; a connection that ends gives the daemon back; a signal then ends it |

Why the bounds are enough: capacities 1 to 4 contain both parities and both sides of
`capacity / 2`, and 7 events fill the queue of 4, overflow it, and after the drain past half
overflow it again. Two CPUs are needed for a busy slot in front of a ready one, and a ring of
two for a full one. Every table of the correlator is run past its limit, and times exceed
twice the window; a behaviour of that run fills the tables of one rule (`focus` in
`MCRules`), which is enough because the rules share no table. In `pipeline` a beacon needs no
second connection in the history, since the property asks about the next one, and `VIEW`
leaves out the latest outcome, which no property reads. For the gate, one file before another
is enough to leave something behind in a memo or a correlator, two entries make a chain, and
two calls are fewer than the contexts of two files. In `recording` two events are enough for a
line to disturb the next, and four for two flushes with a line behind each; one change lets a
sensitive file get a second name or its name a new file. Two sessions of
a role are what a replay or a mix-up needs, and one changed frame already reaches every
throwing path; two changed frames also pass, in a longer run. The daemon serves one connection
at a time, so two show a good one after a bad one and the reverse, with the other waiting in
the backlog. Symmetry is used for handshake sessions, in a run that checks invariants only.
`CHECK_DEADLOCK FALSE` stands where everybody may rightly wait: a daemon without clients, a
finished handshake.

Four runs expect a violation; each states what the repository says of itself:

- `replay_failure`: "a send failure ends at once" (`agent/src/main.cpp:133`), but
  `run_replay` never looks at `g_exiting` and hands over and sleeps to the end of the file.
- `staged_bound`: "has a memory bound" (`analyzer/src/correlator.h:9`), but only expired
  entries leave `staged_`.
- `staged_downloader`: C3 covers any staged path (`correlator.h:6`), but one named curl or
  wget returns before the check.
- `ctrl_c`: "Ctrl-C ends" (`analyzer/src/main.cpp:123`), but `signal()` restarts `accept()`.

## 4. Fairness

`ChannelSink`: weak fairness of the sender thread, of the destructor's remaining steps (a
thread that runs is scheduled) and of the analyzer's reads while it is up, since
`serve_connection` is a receive loop. Without the last, `send()` has no timeout and the
destructor may wait for ever; this is listed as a hazard. Nothing forces the producer.
`AgentMain` adds weak fairness of the main thread and of a CPU that is inside a BPF program,
which the verifier guarantees to end. `AnalyzerDaemon`: weak fairness of the daemon's
thread and none of the clients, nor of a failing `accept()`.

## 5. What is proved

All theorems hold for every value of the constants under the named assumptions:

- `ChannelAssumption`: capacities are positive, as `parse_args` enforces, and so is the
  socket buffer;
- `AgentAssumption`: the ring holds at least one record and no CPU is called "ready";
- `RecordAssumption`: the limit is a natural number and oversized payloads are payloads;
- `HandshakeAssumption`: client, server and foreign sessions are different things;
- `CorrelatorAssumption`: times and limits are natural numbers, a history holds at least
  `Threshold` entries and the deque at least one, as the constants of correlator.h do, and a
  lineage is a set of process numbers;
- `PipelineAssumption`: the models answer with severities between Info and Critical;
- `EvalAssumption`: modes are mock and real, limits and delays natural numbers, a tenth of a
  second a positive one;
- `DaemonAssumption`: genuine clients are clients, and the backlog holds at least one;
- `EventsFileAssumption`: numbers have distinct decimal forms; these and the dotted addresses hold
  no character that means something in the format; the marks of empty fields are characters;
- `RecordingAssumption`: the names in events have no vertical tab (nor form feed), ancestors' names
  also no `|`, and no file is called by the mark `-`, because the format cannot hold those
  (section 8); a millisecond and the flush interval are positive, a millisecond is no longer than
  the pause below which no delay is written, and gaps between time stamps are finitely many
  integers.

Each proof rests on an invariant that is inductive. `IInv`, `AgentInv` and `RecordInv` are
invariants of runs; `StreamInv`, `CorrInv`, `EvalInv`, `DaemonInv` and `RecInv`, which live in the proof
modules, were checked by TLC on the instance of their component before they were proved.

**AgentProofs, the sink.** `Invariance` proves `IInv`, checked by `channel_sink`. The
properties are not inductive alone: `PendingImpliesBacklog` survives a drop because the queue
is then full and `capacity \div 2 < capacity` (lemma `HalfIsLess`, where capacity 0 would
fail), and survives `Take` because the report is taken exactly when the rest is at most half
full. `Lifecycle` says what a finished sender leaves, `ReportInHand` ties the report to the
counters while it travels, and `Accounts` says where each event is. From `IInv` follow
`TypeCorrect`, `NoLostWakeup`, `PendingHasBacklog` and `CleanEnd`. `Refinement` shows each
step to be a step of LossyFifo or a stutter: an event popped and not yet written still
belongs to the backlog and a report taken and not yet written is still owed, which makes
`Take` a stutter and `SendEvent` and `SendNotice` the steps.

`StreamInvariance` adds what the written records say, as a reader would count them: the
events among them are `handed`, and the notices add up to the drops that are neither pending
nor in hand. That is inductive because a step writes at most one record, and lemmas
`EventsAppend` and `AnnouncedAppend` say what one record adds. The sum over the notices is a
recursive function; lemmas `SumsExist` and `SumsAgree` show that it exists and depends only
on the records it covers, by induction stated over a set of numbers (`SetInduction`, from
the well-foundedness of `<`). `NoticesTrue` and, with `CleanEnd`, `StreamIsComplete` follow.

**AgentProofs, the agent.** `AgentInvariance` proves `AgentInv`: events produced are those handed over,
those in the ring and those lost, and during the final drain the records that were ready when
the loop ended are still a ready prefix of the ring, since other CPUs only append or submit.
`AgentRefinesSink` shows that every step of the agent is a step of the sink or leaves it
alone, so that the sink's theorems hold inside the agent. `AgentAccounts` and `AgentDrains`
follow, and `AgentIsRecounted`: what the analyzer read and what the kernel lost are all the
events there were, without a look at the agent's counters.

**RecordLayerProofs.** `RecordInvariance` proves `RecordInv`: the record with number n
carries the payload sealed as number n + 1, each payload sealed has its record, and the numbers
count what was sealed and opened, because the limit comes before the wrap (lemma `NoWrap`).
`Integrity`, `NonceUnique` and `InStep` follow: the record that opens is the one whose number is
that of the payloads opened so far, there is one as soon as the peer has sealed it, and no other.

**HandshakeProofs.** The argument is that of signatures: `FrameInv` says that a ServerAuth or
ClientAuth signed under the key of a peer is on the network only if a session of that peer put
it there over the very frames it keeps (`sacc`, `cacc`) from then on. `ClientInv` and
`ServerInv` say what a session in each state has accepted and where its keys come from. The
invariant is kept because no step takes back what a session has sent or finished (lemma
`Stable`, over `Monotone`), and whatever the network composes is either a frame that was
there or signed under a key of nobody. From `HandshakeInvariance` follow `ClientAgrees` and
`ServerAgrees`, and, since a transcript holds the fresh values of both sessions,
`PairedOneToOne`. `KeysTellChanges` is about keys before anything is authenticated, and uses
that decapsulation of a changed ciphertext gives a secret of its own (implicit rejection).

**CorrelatorProofs.** The tables forget: entries are popped at the front only, pushed out by
a limit, or swept with their key, and time stamps may lie behind the clock. The properties
compare them with a record that forgets nothing, so the invariant `CorrInv` must say of
every recorded entry that a table no longer holds why it may be missing: it is older than the
window by the clock, or a full table of younger entries stands in its place. Time stamps in a
table are in order up to the disorder; that popping at the front is enough follows from it.
The disorder is a parameter `sk` of the invariant: `Skew` for the live stream. From
`CorrInvariance` follow the types and limits (`CorrTypes`), and the exactness of the three
rules: `WriteExecIsExact` (C3: a staged path is there with the time of its latest write, or
expired), `DownloadExecIsExact` (C1) and `BeaconIsExact` (C2, where the run of the
`Threshold` latest connections is compared with the record's). A reboot of the agent's host
puts the clock back; the invariant then claims nothing about what was there before, as the
properties do not.

**EvalProofs.** First the pipeline. `PipeImplementsCorr`: each step of it is a step of the
correlator or leaves its tables alone, so `CorrInvariance` holds here too. The rest is a case
analysis of `classify_event`: `ChainsAreCritical` and `SilenceIsReasoned`.

Then the evaluation. Within a file the events come from one virtual clock that only advances, so
the correlator runs with disorder 0: `CorrInv(0)` is kept by every event, and holds at the
start of a file because the tables are then empty. With it the correlator's hits are
exactly the file's own evidence. `MemoInv` says that the mock models put no severe answer
into the memo, and a lemma that the memo forgets none; `TallyInv` that every file with evidence
was detected, and that a detected file without evidence has a severe answer of a real model
to blame, which is still in the memo; and `GateInv` that the gate fails for a miss which is
not a known one. `GateExact` follows.

**DaemonProofs.** `DaemonInv` says where each client stands: a waiting client waits once and
has sent nothing yet that counts, the one in hand has sent its first frame or not, or has had
its first n records received and the events among them processed (`Received`), or is over
with nothing more to become due (`Settled`); and its descriptor is open exactly while it is in
hand. `NoLeaks` follows from `InHand`, and
`AllDueProcessed` from counting the events before the first spoilt record (`Due`), whose
number changes by one with each good event received (lemmas on `Due` and cardinalities).

**EventsFileProofs.** That a line reads back is a statement about loops over sequences of any
length. The loops are recursive functions over the positions of a sequence, and facts about them are
proved by induction stated over a set of numbers: `SetInduction`, from the well-foundedness of
`<`. `FieldReadsBack` follows `decode_field` through the output of `encode_field` piece by piece:
after the pieces of the first k characters exactly those characters are out and nothing is to be
skipped. A `%` of the output is therefore always the beginning of a code, which fails as soon as
`encode_field` leaves one alone. Tokens: the parts of a `Join` lie in the line one after the other
(`LaidOut`), parts without separators are the maximal stretches between them (`Stretches`), and
`Runs` finds exactly these (`Separable`). So a line splits into the tokens it was made of, an ancestry
into its generations, and `EventReadsBack` follows type by type: numbers through `Text` being one to
one, access masks through the order of the letters, and the generations through the selection of
those that are not empty.

**RecordingProofs.** `RecInv` is first about the lines, before any of them is read again.
`Written` says that there are places `at[1], ..., at[m]` in the output, one for each of the
first m events the hooks are for, where the line of that event stands, with its delay in front
exactly when it came more than `MinGap` after the one before; that m is all of them until the
stream goes bad; and that every `FlushEvery`-th place of the events before a write error lies
before the latest flush. `FileInv` says that however the process ended the file begins with what
was flushed (lemmas `CutBegins`, `RewrittenBegins`), and without an error is a beginning of the
lines. `TimesInv` ties `last_ts` to the latest event, without which nothing could be said of the
delays, `SeenInv` says that every event the hooks produce is `Writable` and its time within the
numbers of a file, and `FilterIsExact` shows that the filter of `handle_file_open` lets through
what the hook is for. From `RecordingInvariance` follow `CaptureIsComplete`, and
`OnlyATailIsLost` for a crash or a full disk.

Then the reader. Every line is the header, a pause or an event's, and by `EventReadsBack` and its
companions for comments and delays it is read as what it is (`ReadAt`); a line that was cut may be
read as anything, but it is the last. Hence the entries of kind "event" are those at `at[1]`,
`at[2]`, ... up to where the file ends, and possibly one more (`Shows`). `ClosedCapturesReadBack` is the
case in which the file ends with the lines, `CutCapturesLoseOnlyATail` the other. Its second half, for
any text behind the flushed lines: reading stops at the first bad line, which is none of these
(`StartRead`), and the events among them are the first of all that are read, since they are the
smallest places of events, in order (`FirstListed`, `FirstEventsRead`); so `FlushedIsRead`.

The drift: one event contributes at most what `StepDrift` says (a written delay loses less than a
millisecond, an unwritten pause at most `MinGap`, disorder is finite by `MaxOfFinite`), and the sum
over k events is by induction on k; this is `DriftIsBounded`, for any clock that advances by a
millisecond per event and by the written delays (`Advances`). `EvaluationDriftsLittle` shows that
`VirtualTimes` of what was parsed is such a clock: between two places `at[i]` and `at[i + 1]` there is
at most one entry, and it is that delay.

## 6. What is only model-checked

Every invariant and every refinement that a passing run checks is also proved. Liveness
(`DestructorReturns`, `AcceptedIsSent`, `ExitingEndsAgent`, `ReturnsToAccept`,
`SignalEndsAfterConnection`) is outside the reach of this prover and rests on TLC, and so do the
counterexamples of the runs that expect a violation.

## 7. Where to go on

An end-to-end module: handshake, records, sink and daemon over one connection, with agent
restarts. Question: what the agent believes sent and the analyzer never processed when
ClientAuth is refused or the connection is cut at a record boundary. The parts are modelled
(the sink with a peer that goes away at any time, the daemon with clients cut anywhere); the
composition would name the loss, which the code does not promise to avoid.

## 8. What is not modelled

Identity files, key generation and alert output are pure I/O. The inside of the primitives
is replaced by their ideal behaviour. Byte loops of `read_all` and `write_all` appear as
whole records, blocked or failed. Start-up errors end a process before the loops that are
modelled. Self tests, demos, benchmarks, scripts and the vendored JSON library keep no state of
interest. The stdout sink and the command line only print and parse.

Of the evaluation, statistics, prices, the printed tables and the `expect:` labels, which feed
only those, are left out. Of event files: `%XX` codes that `encode_field` never writes, fields
longer than the fixed arrays (the reader truncates them) or, once encoded, than the line buffer
of `format_line`, and the characters VT, FF and, in an ancestor's name, `|`, which the writer
does not encode, so that such a name does not read back; neither does a path that is `-`, the
mark of an empty one. `Writable` leaves these out and `ReadsBackAll` says nothing about them.
`Recording` leaves out the loss of ring records (`AgentMain`'s subject) and the limit of 64
entries of the inode map. What the hooks are for (`Wanted`) takes two decisions of the code as
given, so `ReadsBackAll` does not question them: a file opened for writing whose path
`bpf_d_path` cannot tell is not reported, and the inodes are those found at start-up. A line is
cut between symbols, never inside a number or a keyword, which is enough because a cut line may
be read as anything; a buffer put out again begins with a line and is put out again once, which
is enough for the properties, since they say nothing of what is behind the flushed lines. The
comment at `agent/src/main.cpp:108` speaks of gaps of ten milliseconds or more; the code, and
the model, write a delay only above ten.
