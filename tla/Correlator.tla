----------------------------- MODULE Correlator ------------------------------
(***************************************************************************)
(* class Correlator of analyzer/src/correlator.cpp: the state that turns    *)
(* single events into sequences.  C1, a temporary file run after a          *)
(* downloader with a common ancestor; C3, a path run after it was written   *)
(* in a staging directory; C2, repeated connections to one destination.     *)
(*                                                                         *)
(* Time stamps come from several CPUs and are taken after the ring slot is  *)
(* reserved (agent/bpf/collector.bpf.c:70), so an event may carry a time up *)
(* to Skew before one already seen.  The correlator outlives the agent's    *)
(* connections: when the agent's host reboots, its monotonic clock starts   *)
(* again from zero and the tables stay.  Next to the bounded tables stand   *)
(* complete records of what was observed since the latest reboot, the       *)
(* reference that the properties compare the answers with.                  *)
(*                                                                         *)
(* A path is [dir, bin, n]: where it lies, the class of its base name, and  *)
(* a number to tell paths apart.  An address is its first two octets.       *)
(***************************************************************************)
EXTENDS Integers, Sequences, FiniteSets

CONSTANTS
    Window,          \* window_ns_
    Threshold,       \* beacon_threshold_
    kMaxDownloads, kMaxStaged, kMaxHistPerKey, kSweepKeys,
    Execs,           \* execve events:   [path, lineage]
    FileOpens,       \* file events:     [path, access]
    Connects,        \* connect events:  [comm, daddr, dport]
    Skew,            \* how far a time stamp may lie behind an earlier event's
    MaxTime,         \* bound: time stamps
    MaxBoots,        \* bound: reboots of the agent's host
    MaxSeen          \* bound: downloader runs, and connections to one key

(* The limits of correlator.cpp:32-35 and the defaults of correlator.h      *)
(* satisfy these; kMaxHistPerKey below the threshold would silence C2.      *)
(* Process identifiers are numbers.                                         *)
ASSUME CorrelatorAssumption ==
    /\ {Window, Skew, MaxTime, MaxBoots, MaxSeen, kMaxStaged, kSweepKeys} \subseteq Nat
    /\ {Threshold, kMaxDownloads} \subseteq Nat \ {0}
    /\ kMaxHistPerKey \in Nat /\ kMaxHistPerKey >= Threshold
    /\ \A e \in Execs : e.lineage \subseteq Nat

VARIABLES
    downloads,    \* downloads_: [ts, anc], oldest first
    staged,       \* staged_: path -> time of the latest write
    conns,        \* conns_: key -> times, oldest first
    boots,        \* how often the agent's host was rebooted
    clock,        \* the latest time stamp since then
    seenDownloads,  \* history: every downloader run
    seenStaged,     \* history: path -> latest write, never swept
    seenConns       \* history: key -> every connection

tables == <<downloads, staged, conns>>
seen == <<seenDownloads, seenStaged, seenConns>>
history == <<boots, clock, seen>>
corrVars == <<tables, history>>

CorrInit ==
    /\ downloads = <<>>
    /\ staged = <<>>
    /\ conns = <<>>
    /\ boots = 0
    /\ clock = 0
    /\ seenDownloads = <<>>
    /\ seenStaged = <<>>
    /\ seenConns = <<>>

-----------------------------------------------------------------------------
(* Helpers of correlator.cpp and prefilter.cpp.                             *)

is_temp_path(p) == p.dir \in {"tmp", "shm", "vartmp"}
IsDownloader(p) == p.bin = "downloader"
Expired(now, ts) == now > ts + Window

(* ppid and anc[] without init and the kernel                               *)
ancestor_set(e) == {p \in e.lineage : p > 1}
common_ancestor(a, b) == a \cap b # {}

is_private_ipv4(ip) ==
    \/ ip[1] \in {10, 127}
    \/ ip[1] = 192 /\ ip[2] = 168
    \/ ip[1] = 172 /\ ip[2] \in 16..31

Key(e) == <<e.comm, e.daddr, e.dport>>

(* Pop from the front of s, whose time stamps are ts, while it is expired.  *)
PopExpired(s, ts, now) ==
    LET live == {i \in 1..Len(s) : ~Expired(now, ts[i])}
    IN  IF live = {} THEN <<>>
        ELSE SubSeq(s, CHOOSE i \in live : \A j \in live : i <= j, Len(s))

(* Variant: one entry too many.                                             *)
PushBounded_OffByOne(s, x, limit) ==
    IF Len(s) > limit THEN Tail(Append(s, x)) ELSE Append(s, x)

(* push_back, then one pop_front when the limit is passed.                  *)
PushBounded(s, x, limit) ==
    IF Len(s) + 1 > limit THEN Tail(Append(s, x)) ELSE Append(s, x)

Set(f, k, v) == [x \in DOMAIN f \cup {k} |-> IF x = k THEN v ELSE f[x]]
Get(f, k) == IF k \in DOMAIN f THEN f[k] ELSE <<>>

-----------------------------------------------------------------------------
(* observe_file                                                             *)

IsStagingWrite(e) == "WRITE" \in e.access /\ e.path.dir # "none" /\ is_temp_path(e.path)

(* Variant: empties the table.                                              *)
SweepStaged_Clears(f, now) ==
    IF Cardinality(DOMAIN f) > kMaxStaged THEN <<>> ELSE f

SweepStaged(f, now) ==
    IF Cardinality(DOMAIN f) > kMaxStaged
      THEN [p \in {x \in DOMAIN f : ~Expired(now, f[x])} |-> f[p]]
      ELSE f

observe_file(e, now) ==
    /\ IF IsStagingWrite(e)
         THEN /\ staged' = SweepStaged(Set(staged, e.path, now), now)
              /\ seenStaged' = Set(seenStaged, e.path, now)
         ELSE UNCHANGED <<staged, seenStaged>>
    /\ UNCHANGED <<downloads, conns, seenDownloads, seenConns>>

-----------------------------------------------------------------------------
(* observe_execve: C3 first, then C1, neither for a downloader.             *)

(* Variant: nothing expires.                                                *)
KeptDownloads_All(now) == downloads

KeptDownloads(now) ==
    PopExpired(downloads, [i \in 1..Len(downloads) |-> downloads[i].ts], now)

WriteExec(e, now) == e.path \in DOMAIN staged /\ ~Expired(now, staged[e.path])

DownloadExec(e, now) ==
    \E i \in 1..Len(KeptDownloads(now)) :
        common_ancestor(KeptDownloads(now)[i].anc, ancestor_set(e))

ExecHit(e, now) ==
    IF IsDownloader(e.path) \/ ~is_temp_path(e.path) THEN "none"
    ELSE IF WriteExec(e, now) THEN "write-exec-chain"
    ELSE IF DownloadExec(e, now) THEN "download-exec-chain"
    ELSE "none"

observe_execve(e, now) ==
    /\ IF IsDownloader(e.path)
         THEN LET d == [ts |-> now, anc |-> ancestor_set(e)]
              IN  /\ downloads' = PushBounded(KeptDownloads(now), d, kMaxDownloads)
                  /\ seenDownloads' = Append(seenDownloads, d)
         ELSE /\ downloads' = KeptDownloads(now)
              /\ UNCHANGED seenDownloads
    /\ UNCHANGED <<staged, conns, seenStaged, seenConns>>

-----------------------------------------------------------------------------
(* observe_connect                                                          *)

NewHist(e, now) ==
    LET hist == Get(conns, Key(e))
    IN  PushBounded(PopExpired(hist, hist, now), now, kMaxHistPerKey)

ConnectHit(e, now) ==
    IF ~is_private_ipv4(e.daddr) /\ Len(NewHist(e, now)) >= Threshold
      THEN "beacon" ELSE "none"

(* Variant: looks at the oldest entry of a key.                             *)
SweepConns_Oldest(f, now) ==
    IF Cardinality(DOMAIN f) > kSweepKeys
      THEN [k \in {x \in DOMAIN f : f[x] # <<>> /\ ~Expired(now, f[x][1])} |-> f[k]]
      ELSE f

(* More keys than the limit: keys whose newest entry is expired go.         *)
SweepConns(f, now) ==
    IF Cardinality(DOMAIN f) > kSweepKeys
      THEN [k \in {x \in DOMAIN f : f[x] # <<>> /\ ~Expired(now, f[x][Len(f[x])])} |-> f[k]]
      ELSE f

observe_connect(e, now) ==
    /\ IF is_private_ipv4(e.daddr)
         THEN UNCHANGED <<conns, seenConns>>
         ELSE /\ conns' = SweepConns(Set(conns, Key(e), NewHist(e, now)), now)
              /\ seenConns' = Set(seenConns, Key(e), Append(Get(seenConns, Key(e)), now))
    /\ UNCHANGED <<downloads, staged, seenDownloads, seenStaged>>

-----------------------------------------------------------------------------
(* Time stamps an event may carry now.                                      *)
Times == {t \in 0..MaxTime : t + Skew >= clock}
Tick(now) ==
    /\ clock' = IF now > clock THEN now ELSE clock
    /\ UNCHANGED boots

(* The agent's host starts again: CLOCK_MONOTONIC is back at zero, and the  *)
(* daemon's correlator (analyzer/src/main.cpp:114) keeps what it has.       *)
Reboot ==
    /\ boots < MaxBoots
    /\ boots' = boots + 1
    /\ clock' = 0
    /\ seenDownloads' = <<>> /\ seenStaged' = <<>> /\ seenConns' = <<>>
    /\ UNCHANGED tables

(* observe(): the switch over the event type; drop notices leave no trace.  *)
Observe ==
    \E now \in Times :
        /\ Tick(now)
        /\ \/ \E e \in FileOpens : observe_file(e, now)
           \/ \E e \in Execs :
                /\ IsDownloader(e.path) => Len(seenDownloads) < MaxSeen
                /\ observe_execve(e, now)
           \/ \E e \in Connects :
                /\ Len(Get(seenConns, Key(e))) < MaxSeen
                /\ observe_connect(e, now)

CorrNext == Observe \/ Reboot

CorrSpec == CorrInit /\ [][CorrNext]_corrVars

-----------------------------------------------------------------------------
(* Properties.  Each compares, in every reachable state, the answer to any  *)
(* event that may come next with the complete record.                       *)

Downloads == [ts : Nat, anc : SUBSET Nat]

(* Types and limits of the tables.                                          *)
CorrTypeOK ==
    /\ downloads \in Seq(Downloads) /\ Len(downloads) <= kMaxDownloads
    /\ \A p \in DOMAIN staged : staged[p] \in Nat
    /\ \A k \in DOMAIN conns : conns[k] \in Seq(Nat) /\ Len(conns[k]) \in 1..kMaxHistPerKey
    /\ boots \in 0..MaxBoots /\ clock \in Nat

Candidates == {e \in Execs : is_temp_path(e.path) /\ ~IsDownloader(e.path)}

(* What the complete record says of an event at time now, when time stamps  *)
(* may err by margin: its path was written in the window;                   *)
WroteIn(e, now, margin) ==
    e.path \in DOMAIN seenStaged /\ now + margin <= seenStaged[e.path] + Window

(* one of the downloader runs that a table of kMaxDownloads entries can     *)
(* still know shares an ancestor and lies in the window;                    *)
DownloadIn(e, now, margin) ==
    \E i \in 1..Len(seenDownloads) :
        /\ i > Len(seenDownloads) - kMaxDownloads
        /\ common_ancestor(seenDownloads[i].anc, ancestor_set(e))
        /\ now + margin <= seenDownloads[i].ts + Window

(* the connections to its destination in the window, this one included.     *)
ConnectsIn(e, now, margin) ==
    LET times == Get(seenConns, Key(e))
    IN  1 + Cardinality({i \in 1..Len(times) : now + margin <= times[i] + Window})

(* C3 (correlator.h:6): a staged path run within the window of its latest   *)
(* write is reported; before the first reboot, one run later is not.        *)
(* Sweeping the table, rewriting a path, up to Skew of disorder and a clock *)
(* that starts again never hide a write that is fresh by that margin.       *)
WriteExecExact ==
    \A e \in Candidates, now \in Times :
        /\ ExecHit(e, now) = "write-exec-chain" /\ boots = 0 => WroteIn(e, now, 0)
        /\ WroteIn(e, now, Skew) => ExecHit(e, now) = "write-exec-chain"

(* C1 (correlator.h:4): a temporary file run is reported exactly when one   *)
(* of the latest kMaxDownloads downloader runs shares an ancestor and lies  *)
(* in the window, give or take Skew: popping only from the front of the     *)
(* deque is enough.  After a reboot entries of the old clock may report too *)
(* much, and still hide nothing.                                            *)
DownloadExecExact ==
    \A e \in Candidates, now \in Times :
        /\ ExecHit(e, now) = "download-exec-chain" /\ boots = 0
             => DownloadIn(e, now, -Skew)
        /\ DownloadIn(e, now, Skew) => ExecHit(e, now) # "none"

(* C2 (correlator.h:8): a connection is reported exactly when it is at      *)
(* least the Threshold-th to its destination within the window, give or     *)
(* take the disorder; neither the per-key limit nor the sweep of idle keys  *)
(* loses a beacon, nor do entries of the clock before a reboot.             *)
BeaconExact ==
    \A e \in Connects, now \in Times :
        LET hit == ConnectHit(e, now) = "beacon"
        IN  ~is_private_ipv4(e.daddr) =>
                /\ hit /\ boots = 0 => ConnectsIn(e, now, -Skew) >= Threshold
                /\ ConnectsIn(e, now, 2 * Skew) >= Threshold => hit

(* "The state ... has a memory bound" (correlator.h:9): no more paths than  *)
(* kMaxStaged are remembered.                                               *)
StagedIsBounded == Cardinality(DOMAIN staged) <= kMaxStaged

(* "A path written in staging that is run within W seconds"                 *)
(* (correlator.h:6), whatever the file is called.                           *)
EveryStagedExecIsReported ==
    \A e \in Execs, now \in Times :
        is_temp_path(e.path) /\ WroteIn(e, now, Skew)
        => ExecHit(e, now) = "write-exec-chain"
=============================================================================
