------------------------------ MODULE Recording ------------------------------
(***************************************************************************)
(* agent --record: the hooks of agent/bpf/collector.bpf.c decide what is an *)
(* event, RecordSink (agent/src/main.cpp) writes it to a file in the format *)
(* of EventsFile, and the file is read back later.  Sensitive files are     *)
(* known by inode, taken by populate_sensitive before the hooks are         *)
(* attached; names are linked and replaced at any time.  The ring buffer,   *)
(* its losses and its final drain are AgentMain's subject: here an event    *)
(* that passes the filter reaches the sink.                                 *)
(*                                                                         *)
(* Beside the file stands the history of what happened, judged by what the  *)
(* hooks are for and not by how they test it.                               *)
(***************************************************************************)
EXTENDS EventsFile

CONSTANTS
    Names,        \* absolute paths, as fields: a directory prefix and a name
    Sensitive,    \* the list of --sensitive, or the default
    Inodes,       \* inode numbers
    Programs,     \* what execs, connects or opens: [pid, ppid, comm, anc]
    ExecFiles,    \* the file names given to execve
    Ports,        \* ports connected to
    Gaps,         \* time from the latest event to the next; negative: disorder
    Ms,           \* clock units in a millisecond
    MinGap,       \* the 10 ms of RecordSink::handle
    FlushEvery,   \* the 100 of RecordSink::handle
    MaxRecorded,  \* bound: events
    MaxChanges    \* bound: links and replacements

ASSUME RecordingAssumption ==
    /\ Sensitive \subseteq Names
    /\ ExecFiles \cup Names \subseteq Name({"VT"}) /\ {<<>>, <<"-">>} \cap Names = {}
    /\ Programs \subseteq Program
    /\ Inodes \cup Ports \cup {1} \subseteq Numbers
    /\ Gaps \subseteq Int /\ IsFiniteSet(Gaps)
    /\ {Ms, FlushEvery} \subseteq Nat \ {0}
    /\ {MinGap, MaxRecorded, MaxChanges} \subseteq Nat
    /\ Ms <= MinGap

VARIABLES
    fs,          \* names to inodes; a name without file is not in it
    changes,     \* how often fs changed
    apc,         \* main(): "load", "populated", "on", then "closed" or "crashed"
    sensitive_inodes,
    lines,       \* what was written to out_, buffered or not
    flushed,     \* how many of the lines are surely in the file
    failed,      \* out_ has met an error: nothing more is put into it
    n, last_ts,  \* n_, last_ts_
    file,        \* the lines in the file at the end; the last may be cut
    clock,       \* the latest time stamp
    happened,    \* history: [ev, ts] of everything the hooks are for
    wrote        \* history: the events handled before out_ met an error

sinkVars == <<lines, flushed, failed, n, last_ts, wrote>>
recVars == <<fs, changes, apc, sensitive_inodes, sinkVars, file, clock, happened>>

RecInit ==
    /\ fs \in [Sensitive -> Inodes] \cup {<<>>}
    /\ \A a, b \in DOMAIN fs : fs[a] = fs[b] => a = b
    /\ changes = 0
    /\ apc = "load"
    /\ sensitive_inodes = {}
    /\ lines = <<<<"#", "SP", "recorded">>>>
    /\ flushed = 0
    /\ failed = FALSE
    /\ n = 0
    /\ last_ts = 0
    /\ file = <<>>
    /\ clock = 1
    /\ happened = <<>>
    /\ wrote = 0

-----------------------------------------------------------------------------
(* The file system.                                                         *)

(* A name comes to mean another inode: a new file, a hard link, a rename.   *)
Bind(name, ino) ==
    /\ changes < MaxChanges
    /\ apc \in {"load", "populated", "on"}
    /\ fs' = [f \in DOMAIN fs \cup {name} |-> IF f = name THEN ino ELSE fs[f]]
    /\ changes' = changes + 1
    /\ UNCHANGED <<apc, sensitive_inodes, sinkVars, file, clock, happened>>

(* Start-up of main(): stat every listed name, skip those that fail, then    *)
(* attach the hooks.                                                        *)
populate_sensitive ==
    /\ apc = "load"
    /\ apc' = "populated"
    /\ sensitive_inodes' = {fs[f] : f \in Sensitive \cap DOMAIN fs}
    /\ UNCHANGED <<fs, changes, sinkVars, file, clock, happened>>

Attach ==
    /\ apc = "populated"
    /\ apc' = "on"
    /\ UNCHANGED <<fs, changes, sensitive_inodes, sinkVars, file, clock, happened>>

-----------------------------------------------------------------------------
(* RecordSink::handle.  Its early return is for events without a line, and   *)
(* the hooks produce none.                                                  *)

(* Variant: writes clock units where milliseconds belong.                   *)
DelayLine_Units(ts) ==
    IF last_ts # 0 /\ ts > last_ts + MinGap
      THEN <<<<"delay", "SP", Text(ts - last_ts)>>>>
      ELSE <<>>

DelayLine(ts) ==
    IF last_ts # 0 /\ ts > last_ts + MinGap
      THEN <<<<"delay", "SP", Text((ts - last_ts) \div Ms)>>>>
      ELSE <<>>

(* Variant: flushes before the line is written.                             *)
Flushed_Before(m, all) ==
    IF m % FlushEvery = 0 THEN Len(lines) ELSE flushed

(* Every FlushEvery-th event forces out what is buffered.                   *)
Flushed(m, all) ==
    IF m % FlushEvery = 0 THEN Len(all) ELSE flushed

(* err: the disk is full when out_ puts out its buffer, because the buffer   *)
(* overflows or is flushed.  Nobody looks, and from then on out_ takes      *)
(* nothing.                                                                 *)
handle(ev, ts) ==
    \E err \in BOOLEAN :
        LET line == format_line(ev)
            all == lines \o DelayLine(ts) \o <<line>>
            bad == failed \/ err
        IN  /\ lines' = IF failed THEN lines ELSE all
            /\ last_ts' = ts
            /\ n' = n + 1
            /\ failed' = bad
            /\ flushed' = IF bad THEN flushed ELSE Flushed(n + 1, all)
            /\ wrote' = IF bad THEN wrote ELSE n + 1

(* An event with the time stamp that fill_common gives it, and the history  *)
(* beside it: wanted says whether the hooks are for it, seen whether the    *)
(* filter let it through.                                                   *)
Event(ev, wanted, seen) ==
    /\ apc = "on"
    /\ n < MaxRecorded /\ Len(happened) < MaxRecorded
    /\ \E gap \in Gaps :
          LET ts == clock + gap
          IN  /\ ts > 0 /\ ts \div Ms <= MaxNumber
              /\ clock' = IF ts > clock THEN ts ELSE clock
              /\ happened' = IF wanted THEN Append(happened, [ev |-> ev, ts |-> ts])
                             ELSE happened
              /\ IF seen THEN handle(ev, ts) ELSE UNCHANGED sinkVars
    /\ UNCHANGED <<fs, changes, apc, sensitive_inodes, file>>

-----------------------------------------------------------------------------
(* The hooks.                                                               *)

handle_execve(p, f) ==
    Event([type |-> "execve", proc |-> p, u |-> [filename |-> f]], TRUE, TRUE)

handle_tcp_connect(p, addr, port) ==
    Event([type |-> "connect", proc |-> p, u |-> [daddr |-> addr, dport |-> port]], TRUE, TRUE)

is_staging(path) == path[1] \in {"/tmp/", "/var/tmp/", "/dev/shm/"}

(* What handle_file_open is for (collector.bpf.c:6): any access to a file   *)
(* on the list, under any name, and writes in staging directories; not      *)
(* where the kernel cannot tell the path of a file opened for writing.      *)
Wanted(name, mode, dpath) ==
    /\ fs[name] \in sensitive_inodes
         \/ ("WRITE" \in mode /\ \E d \in {"/tmp/", "/var/tmp/", "/dev/shm/"} : name[1] = d)
    /\ "WRITE" \in mode => dpath

(* The filter of handle_file_open; dpath: bpf_d_path succeeds.               *)
Filter(name, mode, dpath) ==
    LET sens == fs[name] \in sensitive_inodes
    IN  IF "WRITE" \notin mode THEN sens
        ELSE dpath /\ (sens \/ is_staging(name))

handle_file_open(p, name, mode, dpath) ==
    LET sens == fs[name] \in sensitive_inodes
        u == [access |-> mode \cup (IF sens THEN {"SENSITIVE"} ELSE {}),
              ino |-> fs[name], dev |-> 1,
              path |-> IF "WRITE" \in mode THEN name ELSE <<>>]
        ev == [type |-> "fileopen", proc |-> p, u |-> u]
    IN  Event(ev, Wanted(name, mode, dpath), Filter(name, mode, dpath))

-----------------------------------------------------------------------------
(* The end.                                                                 *)

(* What the file may hold when the buffer is lost: all that was flushed,    *)
(* and any part of the rest, the last line possibly cut.                    *)
LossyEnd ==
    \E k \in flushed..Len(lines) :
        IF k = Len(lines) THEN file' = lines
        ELSE \E m \in 0..(Len(lines[k + 1]) - 1) :
                file' = SubSeq(lines, 1, k) \o <<SubSeq(lines[k + 1], 1, m)>>

(* A buffer that was put out in part stays what it is, and when there is    *)
(* room again a flush or the closing of the file puts all of it out, behind *)
(* the part: lines b + 1 to e once more, where line k + 1 had been cut.     *)
Rewritten ==
    \E k \in flushed..(Len(lines) - 1) :
    \E b \in flushed..k, e \in (k + 1)..Len(lines), m \in 0..Len(lines[k + 1]) :
        file' = SubSeq(lines, 1, k) \o <<SubSeq(lines[k + 1], 1, m) \o lines[b + 1]>>
                    \o SubSeq(lines, b + 2, e)

(* main() returns: the destructor flushes, if the disk has room.            *)
Close ==
    /\ apc = "on"
    /\ apc' = "closed"
    /\ \E err \in BOOLEAN :
          /\ failed' = (failed \/ err)
          /\ IF failed' THEN LossyEnd \/ Rewritten ELSE file' = lines
    /\ UNCHANGED <<fs, changes, sensitive_inodes, lines, flushed, n, last_ts, wrote,
                   clock, happened>>

Crash ==
    /\ apc = "on"
    /\ apc' = "crashed"
    /\ LossyEnd \/ (failed /\ Rewritten)
    /\ UNCHANGED <<fs, changes, sensitive_inodes, sinkVars, clock, happened>>

RecEnded == apc \in {"closed", "crashed"} /\ UNCHANGED recVars

RecNext ==
    \/ \E name \in Names, ino \in Inodes : Bind(name, ino)
    \/ populate_sensitive
    \/ Attach
    \/ \E p \in Programs :
          \/ \E f \in ExecFiles : handle_execve(p, f)
          \/ \E a \in Addresses, port \in Ports : handle_tcp_connect(p, a, port)
          \/ \E name \in DOMAIN fs, mode \in SUBSET {"WRITE", "EXEC"}, dpath \in BOOLEAN :
                handle_file_open(p, name, mode, dpath)
    \/ Close
    \/ Crash
    \/ RecEnded

RecSpec == RecInit /\ [][RecNext]_recVars

-----------------------------------------------------------------------------
(* Reading the file: the events, and for each the time of eval's virtual    *)
(* clock, which adds a millisecond per event and the delays in between.     *)

EventsIn(entries) == {i \in 1..Len(entries) : entries[i].kind = "event"}
Events(entries) == Select(entries, EventsIn(entries))

Passed(e) == CASE e.kind = "delay" -> e.ms * Ms
               [] e.kind = "event" -> Ms
               [] OTHER -> 0

VirtualTimes(entries) ==
    LET at[i \in 0..Len(entries)] == IF i = 0 THEN 0 ELSE at[i - 1] + Passed(entries[i])
    IN  Select(at, EventsIn(entries))

(* Properties.                                                              *)

Matches(read, i) == read[i].ev = Normal(happened[i].ev)

ReadsBack(read) == Len(read) = Len(happened) /\ \A i \in 1..Len(read) : Matches(read, i)

LostATail(read, cut) ==
    /\ Len(read) <= Len(happened)
    /\ \A i \in 1..Len(read) : i < Len(read) \/ ~cut => Matches(read, i)

KeepsFlushed(read) ==
    LET kept == wrote - (wrote % FlushEvery)
    IN  Len(read) >= kept /\ \A i \in 1..kept : Matches(read, i)

DriftIn(virtual) ==
    LET skew == Max({-g : g \in Gaps} \cup {0})
    IN  \A i, j \in 1..Len(happened) :
            i < j =>
                LET drift == (virtual[j] - virtual[i]) - (happened[j].ts - happened[i].ts)
                IN  /\ drift >= (j - i) * (Ms - MinGap)
                    /\ drift <= (j - i) * (Ms + skew)

(* A capture that was closed reads back (events_file.h:12, main.cpp:100) as *)
(* exactly what the hooks are for, in order: every access to a file whose   *)
(* inode was on the list at start-up, under whatever name it is reached     *)
(* since, every staging write, program and connection, with blanks, '#' and *)
(* '%' in names, empty names and missing generations of ancestors.          *)
ReadsBackAll ==
    apc = "closed" /\ ~failed => ReadsBack(Events(parse(file)))

(* After a crash (main.cpp:114) the file holds a prefix of what happened,   *)
(* and everything up to the latest flush; only the last event read, whose   *)
(* line may be cut, can differ.  After a write error everything up to the   *)
(* latest flush before it is read first, and exactly; what is read behind   *)
(* it may be cut, run together or repeated.                                 *)
LosesOnlyATail ==
    apc = "crashed" \/ (apc = "closed" /\ failed) =>
        LET read == Events(parse(file))
            cut == file # SubSeq(lines, 1, Len(file))
        IN  KeepsFlushed(read) /\ (~failed => LostATail(read, cut))

(* The window keeps its meaning when a capture is evaluated (main.cpp:108)  *)
(* up to this: between two events of a capture the virtual clock runs       *)
(* behind the recorded one by less than MinGap per event and ahead of it by *)
(* at most a millisecond and the disorder per event.                        *)
DriftBounded ==
    apc = "closed" /\ ~failed => DriftIn(VirtualTimes(parse(file)))
=============================================================================
