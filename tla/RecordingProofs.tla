--------------------------- MODULE RecordingProofs ---------------------------
(***************************************************************************)
(* Proofs about what a recording holds, line by line, and about what a      *)
(* reader of it sees, for any events, time stamps, flush interval and end   *)
(* of the process.                                                          *)
(***************************************************************************)
EXTENDS Recording, EventsFileProofs

LEMMA JoinSeq ==
  ASSUME NEW s, NEW t, IsSeq(s), IsSeq(t)
  PROVE  /\ IsSeq(s \o t)
         /\ Len(s) \in Nat /\ Len(t) \in Nat /\ Len(s \o t) = Len(s) + Len(t)
         /\ \A i \in 1..Len(s) : (s \o t)[i] = s[i]
         /\ \A i \in 1..Len(t) : (s \o t)[Len(s) + i] = t[i]
<1>1. PICK S : s \in Seq(S)
  BY DEF IsSeq
<1>2. PICK T : t \in Seq(T)
  BY DEF IsSeq
<1>3. s \in Seq(S \cup T) /\ t \in Seq(S \cup T)
  BY <1>1, <1>2
<1>4. s \o t \in Seq(S \cup T)
  BY <1>3
<1>5. IsSeq(s \o t)
  BY <1>4 DEF IsSeq
<1> HIDE DEF IsSeq
<1> QED BY <1>3, <1>5

LEMMA AppendSeq ==
  ASSUME NEW s, NEW e, IsSeq(s)
  PROVE  /\ IsSeq(Append(s, e))
         /\ Len(s) \in Nat /\ Len(Append(s, e)) = Len(s) + 1
         /\ \A i \in 1..Len(s) : Append(s, e)[i] = s[i]
         /\ Append(s, e)[Len(s) + 1] = e
<1>1. PICK S : s \in Seq(S)
  BY DEF IsSeq
<1>2. s \in Seq(S \cup {e}) /\ e \in S \cup {e}
  BY <1>1
<1>3. Append(s, e) \in Seq(S \cup {e})
  BY <1>2
<1>4. IsSeq(Append(s, e))
  BY <1>3 DEF IsSeq
<1> HIDE DEF IsSeq
<1> QED BY <1>2, <1>4

LEMMA ShortSeq == \A a, b : IsSeq(<<a>>) /\ IsSeq(<<a, b>>) /\ IsSeq(<<>>)
<1> SUFFICES ASSUME NEW a, NEW b
             PROVE  IsSeq(<<a>>) /\ IsSeq(<<a, b>>) /\ IsSeq(<<>>)
  OBVIOUS
<1>1. <<a>> \in Seq({a, b}) /\ <<a, b>> \in Seq({a, b}) /\ <<>> \in Seq({a, b})
  OBVIOUS
<1> QED BY <1>1 DEF IsSeq

LEMMA OneLong == \A a : Len(<<a>>) = 1 /\ <<a>>[1] = a
  OBVIOUS

(* The filter of handle_file_open lets through exactly what the hook is for. *)
LEMMA FilterIsExact ==
  ASSUME NEW name, NEW mode, NEW dpath \in BOOLEAN
  PROVE  Wanted(name, mode, dpath) <=> Filter(name, mode, dpath)
BY DEF Wanted, Filter, is_staging

-----------------------------------------------------------------------------
(* The lines of the events h[1], ..., h[m] in the lines ls: at[i] is where   *)
(* the line of h[i] is, with its delay, if it has one, in front.             *)
Header == <<"#", "SP", "recorded">>

Paused(h, i) == i > 1 /\ h[i].ts > h[i - 1].ts + MinGap
Pause(h, i) == <<"delay", "SP", Text((h[i].ts - h[i - 1].ts) \div Ms)>>

Placed(at, ls, h, i) ==
    /\ ls[at[i]] = format_line(h[i].ev)
    /\ IF Paused(h, i)
         THEN at[i] = at[i - 1] + 2 /\ ls[at[i] - 1] = Pause(h, i)
         ELSE at[i] = at[i - 1] + 1

Places(at, ls, h, m) ==
    /\ at \in [0..m -> 1..Len(ls)]
    /\ at[0] = 1 /\ at[m] = Len(ls)
    /\ ls[1] = Header
    /\ \A i \in 1..m : Placed(at, ls, h, i)

(* Every FlushEvery-th event is in the first k lines, with all before it.    *)
Kept(at, m, k) == \A j \in 1..m : j % FlushEvery = 0 => at[j] <= k

(* The first k of the lines ls, and perhaps a part of the next.              *)
CutAt(f, ls, k) ==
    /\ k \in 0..Len(ls)
    /\ \A i \in 1..k : f[i] = ls[i]
    /\ \/ Len(f) = k
       \/ /\ k < Len(ls) /\ Len(f) = k + 1
          /\ \E c \in 0..(Len(ls[k + 1]) - 1) : f[k + 1] = SubSeq(ls[k + 1], 1, c)

(* The file f begins with the first k of the lines ls.                       *)
Begins(f, ls, k) ==
    /\ Len(f) \in Nat /\ k <= Len(f)
    /\ \A i \in 1..k : f[i] = ls[i]

RecTypeOK ==
    /\ apc \in {"load", "populated", "on", "closed", "crashed"}
    /\ failed \in BOOLEAN
    /\ IsSeq(lines) /\ IsSeq(happened)
    /\ n = Len(happened)
    /\ clock \in Nat
    /\ flushed \in 0..Len(lines)
    /\ wrote \in 0..n /\ (~failed => wrote = n)

(* last_ts_ is the time of the latest event, and no event is later than the  *)
(* clock.                                                                    *)
TimesInv ==
    /\ last_ts = IF n = 0 THEN 0 ELSE happened[n].ts
    /\ \A i \in 1..n : happened[i].ts \in Nat \ {0} /\ happened[i].ts <= clock
    /\ \A i \in 2..n : \E gap \in Gaps : happened[i].ts >= happened[i - 1].ts + gap

(* What is written are the lines of the first m events; until the stream     *)
(* goes bad these are all events, and after it at least those before.        *)
Written == \E m \in 0..n : \E at :
              /\ Places(at, lines, happened, m)
              /\ ~failed => m = n
              /\ wrote <= m /\ Kept(at, wrote, flushed)

(* Whatever the end, the file begins with what was flushed; without an error *)
(* the rest of it is a beginning of the other lines.                         *)
FileInv ==
    /\ apc = "closed" /\ ~failed => file = lines
    /\ apc \in {"closed", "crashed"} =>
          /\ Begins(file, lines, flushed)
          /\ ~failed => \E k \in flushed..Len(lines) : CutAt(file, lines, k)

(* What the hooks see and pass on can be written down.                       *)
SeenInv ==
    /\ DOMAIN fs \subseteq Names /\ \A f \in DOMAIN fs : fs[f] \in Inodes
    /\ \A i \in 1..n : happened[i].ev \in Writable /\ happened[i].ts \div Ms <= MaxNumber

RecInv == RecTypeOK /\ TimesInv /\ Written /\ FileInv /\ SeenInv

LEMMA InitRecInv == RecInit => RecInv
<1> SUFFICES ASSUME RecInit PROVE RecInv
  OBVIOUS
<1>1. /\ apc = "load" /\ lines = <<Header>> /\ flushed = 0 /\ failed = FALSE
      /\ n = 0 /\ last_ts = 0 /\ clock = 1 /\ happened = <<>> /\ wrote = 0
  BY DEF RecInit, Header
<1>2. Len(lines) = 1 /\ lines[1] = Header /\ Len(happened) = 0
  BY <1>1
<1>3. RecTypeOK
  <2>1. IsSeq(lines) /\ IsSeq(happened)
    BY <1>1, ShortSeq
  <2>2. flushed \in 0..Len(lines) /\ clock \in Nat /\ n = Len(happened)
    BY <1>1, <1>2
  <2>3. apc = "load" /\ failed \in BOOLEAN
    BY <1>1
  <2>4. wrote \in 0..n /\ wrote = n
    BY <1>1
  <2> QED BY <2>1, <2>2, <2>3, <2>4 DEF RecTypeOK
<1>4. TimesInv /\ FileInv
  BY <1>1 DEF TimesInv, FileInv
<1>5. Written
  <2> DEFINE at == [i \in 0..0 |-> 1]
  <2>1. Places(at, lines, happened, 0)
    BY <1>2 DEF Places
  <2>2. Kept(at, 0, flushed) /\ 0 \in 0..0
    BY DEF Kept
  <2> HIDE DEF at
  <2> QED BY <1>1, <2>1, <2>2 DEF Written
<1>6. SeenInv
  <2>1. DOMAIN fs \subseteq Names /\ \A f \in DOMAIN fs : fs[f] \in Inodes
    BY RecordingAssumption DEF RecInit
  <2> QED BY <1>1, <2>1 DEF SeenInv
<1> QED BY <1>3, <1>4, <1>5, <1>6 DEF RecInv

(* Events that come later change nothing about the places of the earlier.    *)
LEMMA PlacesStay ==
  ASSUME NEW at, NEW ls, NEW h, NEW g, NEW m \in Nat, Places(at, ls, h, m),
         \A i \in 1..m : g[i] = h[i]
  PROVE  Places(at, ls, g, m)
<1>1. ASSUME NEW i \in 1..m
      PROVE  Placed(at, ls, g, i)
  <2>1. Placed(at, ls, h, i) /\ g[i] = h[i]
    BY DEF Places
  <2>2. CASE i = 1
    BY <2>1, <2>2 DEF Placed, Paused, Pause
  <2>3. CASE i # 1
    <3>1. g[i - 1] = h[i - 1]
      BY <2>3
    <3> QED BY <2>1, <3>1 DEF Placed, Paused, Pause
  <2> QED BY <2>2, <2>3
<1> QED BY <1>1 DEF Places

(* RecordSink::handle puts an event behind the others.                       *)
LEMMA PlacesGrow ==
  ASSUME NEW at, NEW ls, NEW h, NEW m \in Nat, IsSeq(ls), Places(at, ls, h, m),
         NEW delay, IsSeq(delay),
         delay = IF Paused(h, m + 1) THEN <<Pause(h, m + 1)>> ELSE <<>>,
         NEW all, all = (ls \o delay) \o <<format_line(h[m + 1].ev)>>,
         NEW to, to = [i \in 0..(m + 1) |-> IF i = m + 1 THEN Len(all) ELSE at[i]]
  PROVE  /\ IsSeq(all) /\ Len(ls) \in Nat /\ Len(all) \in Nat /\ Len(ls) < Len(all)
         /\ Places(to, all, h, m + 1)
<1> DEFINE line == format_line(h[m + 1].ev)
           ds == ls \o delay
<1> HIDE DEF line
<1>1. /\ IsSeq(ds) /\ Len(ls) \in Nat /\ Len(delay) \in Nat
      /\ Len(ds) = Len(ls) + Len(delay)
      /\ \A i \in 1..Len(ls) : ds[i] = ls[i]
      /\ \A i \in 1..Len(delay) : ds[Len(ls) + i] = delay[i]
  BY JoinSeq
<1>2. /\ all = ds \o <<line>>
      /\ IsSeq(<<line>>) /\ Len(<<line>>) = 1 /\ <<line>>[1] = line
  BY ShortSeq DEF line
<1> HIDE DEF ds
<1>3. /\ IsSeq(all) /\ Len(all) = Len(ds) + 1
      /\ \A i \in 1..Len(ds) : all[i] = ds[i]
      /\ all[Len(ds) + 1] = line
  BY <1>1, <1>2, JoinSeq, SMTT(30)
<1>4. /\ Len(all) = Len(ls) + Len(delay) + 1
      /\ \A i \in 1..Len(ls) : all[i] = ls[i]
  BY <1>1, <1>3
<1>5. to[m + 1] = Len(all) /\ \A i \in 0..m : to[i] = at[i]
  OBVIOUS
<1>6. to \in [0..(m + 1) -> 1..Len(all)]
  BY <1>1, <1>4 DEF Places
<1>7. ASSUME NEW i \in 1..m
      PROVE  Placed(to, all, h, i)
  <2>1. /\ Placed(at, ls, h, i) /\ i \in 0..m /\ i - 1 \in 0..m
        /\ at[i] \in 1..Len(ls) /\ at[i - 1] \in 1..Len(ls)
    BY DEF Places
  <2>2. all[at[i]] = ls[at[i]] /\ to[i] = at[i] /\ to[i - 1] = at[i - 1]
    BY <1>4, <1>5, <2>1
  <2>3. CASE Paused(h, i)
    <3>1. at[i] - 1 \in 1..Len(ls)
      <4>1. at[i] = at[i - 1] + 2
        BY <2>1, <2>3 DEF Placed
      <4> DEFINE a == at[i]
                 b == at[i - 1]
      <4>2. a = b + 2 /\ a \in 1..Len(ls) /\ b \in 1..Len(ls) /\ Len(ls) \in Nat
        BY <1>1, <2>1, <4>1
      <4> HIDE DEF a, b
      <4>3. a - 1 \in 1..Len(ls)
        BY <4>2
      <4> QED BY <4>3 DEF a
    <3> QED BY <1>4, <2>1, <2>2, <2>3, <3>1 DEF Placed
  <2> QED BY <2>1, <2>2, <2>3 DEF Placed
<1>8. Placed(to, all, h, m + 1)
  <2>1. to[m + 1] = Len(all) /\ to[m] = Len(ls) /\ (m + 1) - 1 = m
    BY <1>5 DEF Places
  <2>2. all[Len(all)] = line
    BY <1>1, <1>3
  <2>3. CASE Paused(h, m + 1)
    <3>1. delay = <<Pause(h, m + 1)>>
      BY <2>3
    <3>2. Len(delay) = 1 /\ delay[1] = Pause(h, m + 1)
      BY <3>1, OneLong
    <3>3. all[Len(ls) + 1] = Pause(h, m + 1)
      <4>1. ds[Len(ls) + 1] = delay[1] /\ Len(ls) + 1 \in 1..Len(ds)
        BY <1>1, <3>2
      <4> QED BY <1>3, <3>2, <4>1
    <3>4. to[m + 1] = to[m] + 2 /\ to[m + 1] - 1 = Len(ls) + 1
      BY <1>1, <1>4, <2>1, <3>2
    <3> QED BY <2>1, <2>2, <2>3, <3>3, <3>4 DEF Placed, line
  <2>4. CASE ~Paused(h, m + 1)
    <3>1. Len(delay) = 0
      BY <2>4
    <3>2. to[m + 1] = to[m] + 1
      BY <1>1, <1>4, <2>1, <3>1
    <3> QED BY <2>1, <2>2, <2>4, <3>2 DEF Placed, line
  <2> QED BY <2>3, <2>4
<1>9. Places(to, all, h, m + 1)
  <2>1. to[0] = 1 /\ all[1] = Header
    BY <1>1, <1>4, <1>5 DEF Places
  <2>2. \A i \in 1..(m + 1) : Placed(to, all, h, i)
    <3> SUFFICES ASSUME NEW i \in 1..(m + 1)
                 PROVE  Placed(to, all, h, i)
      OBVIOUS
    <3>1. i \in 1..m \/ i = m + 1
      OBVIOUS
    <3> QED BY <1>7, <1>8, <3>1
  <2> QED BY <1>5, <1>6, <2>1, <2>2 DEF Places
<1> QED BY <1>1, <1>3, <1>4, <1>9

-----------------------------------------------------------------------------
(* The steps.                                                                *)

(* What handle writes is a place further on.                                 *)
LEMMA HandleWrites ==
  ASSUME RecInv, apc = "on",
         NEW ev, NEW ts \in Nat \ {0},
         handle(ev, ts), happened' = Append(happened, [ev |-> ev, ts |-> ts])
  PROVE  /\ IsSeq(lines') /\ flushed' \in 0..Len(lines') /\ Written'
         /\ failed' \in BOOLEAN /\ wrote' \in 0..n' /\ (~failed' => wrote' = n')
<1> DEFINE line == format_line(ev)
           all == lines \o DelayLine(ts) \o <<line>>
<1>1. /\ n' = n + 1 /\ failed' \in BOOLEAN /\ (failed => failed') /\ last_ts' = ts
      /\ lines' = IF failed THEN lines ELSE all
      /\ flushed' = IF failed' THEN flushed ELSE Flushed(n + 1, all)
      /\ wrote' = IF failed' THEN wrote ELSE n + 1
  BY DEF handle, RecInv, RecTypeOK
<1> HIDE DEF line, all
<1>2. /\ n \in Nat /\ n = Len(happened) /\ IsSeq(happened) /\ IsSeq(lines)
      /\ flushed \in 0..Len(lines) /\ failed \in BOOLEAN
      /\ Len(lines) \in Nat
      /\ wrote \in 0..n /\ (~failed => wrote = n)
  BY JoinSeq DEF RecInv, RecTypeOK
<1>3. /\ Len(happened') = n + 1
      /\ \A i \in 1..n : happened'[i] = happened[i]
      /\ happened'[n + 1].ev = ev /\ happened'[n + 1].ts = ts
  BY <1>2, AppendSeq
<1>4. PICK m \in 0..n : \E at : /\ Places(at, lines, happened, m)
                                /\ ~failed => m = n
                                /\ wrote <= m /\ Kept(at, wrote, flushed)
  BY DEF RecInv, Written
<1>5. PICK at : /\ Places(at, lines, happened, m)
                /\ ~failed => m = n
                /\ wrote <= m /\ Kept(at, wrote, flushed)
  BY <1>4
<1>6. Places(at, lines, happened', m)
  <2>1. m \in Nat /\ \A i \in 1..m : happened'[i] = happened[i]
    BY <1>2, <1>3
  <2> QED BY <1>5, <2>1, PlacesStay
<1>7. CASE failed
  <2>1. lines' = lines /\ flushed' = flushed /\ failed' /\ wrote' = wrote
    BY <1>1, <1>7
  <2>2. m \in 0..n'
    BY <1>1, <1>2
  <2>3. Written'
    BY <1>1, <1>5, <1>6, <1>7, <2>1, <2>2 DEF Written
  <2> QED BY <1>1, <1>2, <2>1, <2>3
<1>8. CASE ~failed
  <2>1. m = n /\ wrote = n /\ lines' = all
    BY <1>1, <1>2, <1>5, <1>8
  <2>2. DelayLine(ts) = IF Paused(happened', n + 1)
                          THEN <<Pause(happened', n + 1)>> ELSE <<>>
    <3>1. CASE n = 0
      <4>1. last_ts = 0 /\ ~Paused(happened', n + 1)
        BY <3>1 DEF RecInv, TimesInv, Paused
      <4> QED BY <4>1 DEF DelayLine
    <3>2. CASE n # 0
      <4>1. last_ts = happened[n].ts /\ last_ts # 0
        BY <1>2, <3>2 DEF RecInv, TimesInv
      <4>2. happened'[(n + 1) - 1].ts = last_ts /\ n + 1 > 1
        BY <1>2, <1>3, <3>2, <4>1
      <4> QED BY <1>3, <4>1, <4>2 DEF DelayLine, Paused, Pause
    <3> QED BY <3>1, <3>2
  <2>3. IsSeq(DelayLine(ts))
    BY ShortSeq DEF DelayLine
  <2> DEFINE to == [i \in 0..(n + 1) |-> IF i = n + 1 THEN Len(all) ELSE at[i]]
  <2>4. /\ IsSeq(all) /\ Len(all) \in Nat /\ Len(lines) < Len(all)
        /\ Places(to, all, happened', n + 1)
    <3>1. all = (lines \o DelayLine(ts)) \o <<format_line(happened'[n + 1].ev)>>
      BY <1>3 DEF all, line
    <3>2. to = [i \in 0..(n + 1) |-> IF i = n + 1 THEN Len(all) ELSE at[i]]
      OBVIOUS
    <3> HIDE DEF to
    <3>3. Places(at, lines, happened', n)
      BY <1>6, <2>1
    <3> QED BY <1>2, <2>2, <2>3, <3>1, <3>2, <3>3, PlacesGrow
  <2>5. to[n + 1] = Len(all) /\ \A i \in 0..n : to[i] = at[i]
    BY <1>2
  <2> HIDE DEF to
  <2>6. ASSUME NEW j \in 1..n, j % FlushEvery = 0
        PROVE  to[j] <= flushed /\ to[j] \in Nat
    <3>1. at[j] <= flushed /\ to[j] = at[j]
      BY <1>5, <2>1, <2>5, <2>6 DEF Kept
    <3>2. at[j] \in Nat
      BY <1>5, <2>1 DEF Places
    <3> QED BY <3>1, <3>2
  <2>7. CASE failed'
    <3>1. flushed' = flushed /\ wrote' = n /\ flushed' \in 0..Len(all)
      BY <1>1, <1>2, <2>1, <2>4, <2>7
    <3>2. Kept(to, n, flushed)
      BY <2>6 DEF Kept
    <3>3. n + 1 \in 0..n' /\ wrote' <= n + 1 /\ wrote' \in 0..n'
      BY <1>1, <1>2, <3>1
    <3>4. Written'
      BY <2>1, <2>4, <2>7, <3>1, <3>2, <3>3 DEF Written
    <3> QED BY <2>1, <2>4, <2>7, <3>1, <3>3, <3>4
  <2>8. CASE ~failed'
    <3>1. /\ flushed' \in 0..Len(all) /\ flushed <= flushed' /\ wrote' = n + 1
          /\ (n + 1) % FlushEvery = 0 => flushed' = Len(all)
      BY <1>1, <1>2, <2>4, <2>8 DEF Flushed
    <3>2. Kept(to, n + 1, flushed')
      <4> SUFFICES ASSUME NEW j \in 1..(n + 1), j % FlushEvery = 0
                   PROVE  to[j] <= flushed'
        BY DEF Kept
      <4>1. CASE j = n + 1
        BY <2>4, <2>5, <3>1, <4>1
      <4>2. CASE j \in 1..n
        <5>1. to[j] <= flushed /\ to[j] \in Nat
          BY <2>6, <4>2
        <5> QED BY <1>2, <2>4, <3>1, <5>1
      <4> QED BY <1>2, <4>1, <4>2
    <3>3. n' \in 0..n' /\ wrote' = n' /\ wrote' <= n'
      BY <1>1, <1>2, <3>1
    <3>4. Places(to, lines', happened', n') /\ Kept(to, wrote', flushed')
      BY <1>1, <2>1, <2>4, <3>1, <3>2
    <3>5. Written'
      BY <3>3, <3>4 DEF Written
    <3> QED BY <1>1, <2>1, <2>4, <3>1, <3>3, <3>5
  <2> QED BY <1>1, <2>7, <2>8
<1> QED BY <1>2, <1>7, <1>8

(* An event at a hook that wants it just when its filter lets it through.    *)
LEMMA EventInv ==
  ASSUME RecInv, NEW ev \in Writable, NEW w \in BOOLEAN, Event(ev, w, w)
  PROVE  RecInv'
<1>1. /\ apc = "on" /\ apc' = "on"
      /\ n \in Nat /\ n = Len(happened) /\ IsSeq(happened) /\ clock \in Nat
      /\ failed \in BOOLEAN
  BY AppendSeq DEF Event, RecInv, RecTypeOK
<1>2. PICK gap \in Gaps :
        /\ clock + gap > 0 /\ (clock + gap) \div Ms <= MaxNumber
        /\ clock' = IF clock + gap > clock THEN clock + gap ELSE clock
        /\ happened' = IF w THEN Append(happened, [ev |-> ev, ts |-> clock + gap])
                       ELSE happened
        /\ IF w THEN handle(ev, clock + gap) ELSE UNCHANGED sinkVars
  BY DEF Event
<1>3. gap \in Int /\ clock + gap \in Nat \ {0} /\ clock' \in Nat
      /\ clock <= clock' /\ clock + gap <= clock'
  BY <1>1, <1>2, RecordingAssumption
<1>4. FileInv' /\ fs' = fs
  BY <1>1 DEF FileInv, Event
<1>5. CASE ~w
  <2>1. UNCHANGED <<lines, flushed, failed, n, last_ts, wrote, happened>>
    BY <1>2, <1>5 DEF sinkVars
  <2>2. RecTypeOK'
    BY <1>1, <1>3, <2>1 DEF RecInv, RecTypeOK
  <2>3. TimesInv'
    <3>1. \A i \in 1..n : happened[i].ts \in Nat \ {0} /\ happened[i].ts <= clock'
      BY <1>1, <1>3 DEF RecInv, TimesInv
    <3> QED BY <2>1, <3>1 DEF RecInv, TimesInv
  <2>4. Written'
    BY <2>1 DEF RecInv, Written
  <2>5. SeenInv'
    BY <1>4, <2>1 DEF RecInv, SeenInv
  <2> QED BY <1>4, <2>2, <2>3, <2>4, <2>5 DEF RecInv
<1>6. CASE w
  <2> DEFINE ts == clock + gap
  <2>0. ts \in Nat \ {0} /\ ts <= clock' /\ ts \div Ms <= MaxNumber
    BY <1>2, <1>3
  <2>1. happened' = Append(happened, [ev |-> ev, ts |-> ts]) /\ handle(ev, ts)
    BY <1>2, <1>6
  <2> HIDE DEF ts
  <2>2. /\ IsSeq(lines') /\ flushed' \in 0..Len(lines') /\ Written'
        /\ failed' \in BOOLEAN /\ wrote' \in 0..n' /\ (~failed' => wrote' = n')
    BY <1>1, <2>0, <2>1, HandleWrites
  <2>3. n' = n + 1 /\ last_ts' = ts
    BY <2>1 DEF handle
  <2>4. /\ IsSeq(happened') /\ Len(happened') = n + 1
        /\ \A i \in 1..n : happened'[i] = happened[i]
        /\ happened'[n + 1].ts = ts /\ happened'[n + 1].ev = ev
    BY <1>1, <2>1, AppendSeq
  <2>5. RecTypeOK'
    BY <1>1, <1>3, <2>2, <2>3, <2>4 DEF RecTypeOK
  <2>6. TimesInv'
    <3>1. ASSUME NEW i \in 1..(n + 1)
          PROVE  happened'[i].ts \in Nat \ {0} /\ happened'[i].ts <= clock'
      <4>1. CASE i = n + 1
        BY <2>0, <2>4, <4>1
      <4>2. CASE i \in 1..n
        <5>1. happened[i].ts \in Nat \ {0} /\ happened[i].ts <= clock
          BY <4>2 DEF RecInv, TimesInv
        <5> QED BY <1>1, <1>3, <2>4, <4>2, <5>1
      <4> QED BY <1>1, <4>1, <4>2
    <3>2. n' # 0
      BY <1>1, <2>3
    <3>3. ASSUME NEW i \in 2..(n + 1)
          PROVE  \E g \in Gaps : happened'[i].ts >= happened'[i - 1].ts + g
      <4>1. CASE i = n + 1
        <5>1. i - 1 \in 1..n /\ happened'[i - 1] = happened[i - 1] /\ happened'[i].ts = ts
          BY <1>1, <2>4, <4>1
        <5>2. happened[i - 1].ts \in Nat /\ happened[i - 1].ts <= clock
          BY <5>1 DEF RecInv, TimesInv
        <5>3. ts = clock + gap
          BY DEF ts
        <5>4. happened'[i].ts >= happened'[i - 1].ts + gap
          BY <1>1, <1>3, <5>1, <5>2, <5>3
        <5> QED BY <5>4
      <4>2. CASE i \in 2..n
        <5>1. i \in 1..n /\ i - 1 \in 1..n
          BY <1>1, <4>2
        <5>2. \E g \in Gaps : happened[i].ts >= happened[i - 1].ts + g
          BY <4>2 DEF RecInv, TimesInv
        <5> QED BY <2>4, <5>1, <5>2
      <4> QED BY <1>1, <4>1, <4>2
    <3> QED BY <2>3, <2>4, <3>1, <3>2, <3>3 DEF TimesInv
  <2>7. SeenInv'
    <3>1. ASSUME NEW i \in 1..(n + 1)
          PROVE  happened'[i].ev \in Writable /\ happened'[i].ts \div Ms <= MaxNumber
      <4>1. CASE i = n + 1
        BY <2>0, <2>4, <4>1
      <4>2. CASE i \in 1..n
        BY <2>4, <4>2 DEF RecInv, SeenInv
      <4> QED BY <1>1, <4>1, <4>2
    <3> QED BY <1>4, <2>3, <3>1 DEF RecInv, SeenInv
  <2> QED BY <1>4, <2>2, <2>5, <2>6, <2>7 DEF RecInv
<1> QED BY <1>5, <1>6

(* The process ends: what is in the file is what was written, or a part of   *)
(* it that holds all that was flushed.                                       *)
LEMMA LossyEndCuts ==
  ASSUME IsSeq(lines), flushed \in 0..Len(lines), LossyEnd
  PROVE  \E k \in flushed..Len(lines) : CutAt(file', lines, k)
<1>0. Len(lines) \in Nat
  BY JoinSeq
<1>1. PICK k \in flushed..Len(lines) :
        IF k = Len(lines) THEN file' = lines
        ELSE \E m \in 0..(Len(lines[k + 1]) - 1) :
                file' = SubSeq(lines, 1, k) \o <<SubSeq(lines[k + 1], 1, m)>>
  BY DEF LossyEnd
<1>2. k \in 0..Len(lines)
  BY <1>0
<1>3. CASE k = Len(lines)
  BY <1>0, <1>1, <1>2, <1>3 DEF CutAt
<1>4. CASE k # Len(lines)
  <2>1. PICK m \in 0..(Len(lines[k + 1]) - 1) :
          file' = SubSeq(lines, 1, k) \o <<SubSeq(lines[k + 1], 1, m)>>
    BY <1>1, <1>4
  <2> DEFINE last == SubSeq(lines[k + 1], 1, m)
             p == SubSeq(lines, 1, k)
  <2>3. file' = p \o <<last>>
    BY <2>1
  <2>4. IsSeq(p) /\ Len(p) = k /\ \A i \in 1..k : p[i] = lines[i]
    <3>1. PICK S : lines \in Seq(S)
      BY DEF IsSeq
    <3>2. p \in Seq(S) /\ Len(p) = k /\ \A i \in 1..k : p[i] = lines[i]
      BY <1>0, <1>2, <3>1, SubSeqProperties
    <3> QED BY <3>2 DEF IsSeq
  <2> HIDE DEF p
  <2>5. /\ Len(file') = k + 1 /\ file'[k + 1] = last
        /\ \A i \in 1..k : file'[i] = lines[i]
    <3> HIDE DEF last
    <3>1. IsSeq(<<last>>) /\ Len(<<last>>) = 1 /\ <<last>>[1] = last
      BY ShortSeq, OneLong
    <3> QED BY <2>3, <2>4, <3>1, JoinSeq
  <2>6. k < Len(lines)
    BY <1>0, <1>2, <1>4
  <2>7. \E c \in 0..(Len(lines[k + 1]) - 1) : file'[k + 1] = SubSeq(lines[k + 1], 1, c)
    BY <2>5
  <2> QED BY <1>2, <2>5, <2>6, <2>7 DEF CutAt
<1> QED BY <1>3, <1>4

(* A cut file begins with what was flushed.                                  *)
LEMMA CutBegins ==
  ASSUME NEW f, NEW ls, IsSeq(ls), NEW h \in 0..Len(ls), NEW k \in h..Len(ls), CutAt(f, ls, k)
  PROVE  Begins(f, ls, h)
<1>1. Len(ls) \in Nat
  BY JoinSeq
<1>2. k \in Nat /\ h <= k /\ h \in Nat
  BY <1>1
<1>3. Len(f) = k \/ Len(f) = k + 1
  BY DEF CutAt
<1>4. \A i \in 1..h : i \in 1..k
  BY <1>2
<1> QED BY <1>2, <1>3, <1>4 DEF CutAt, Begins

(* So does one to which the buffer was put out again.                        *)
LEMMA RewrittenBegins ==
  ASSUME IsSeq(lines), flushed \in 0..Len(lines), Rewritten
  PROVE  Begins(file', lines, flushed)
<1>0. Len(lines) \in Nat
  BY JoinSeq
<1>1. \E k, b \in flushed..(Len(lines) - 1), e \in 0..Len(lines) : \E x :
        file' = (SubSeq(lines, 1, k) \o <<x>>) \o SubSeq(lines, b + 2, e)
  <2>1. PICK k \in flushed..(Len(lines) - 1) :
          \E b \in flushed..k, e \in (k + 1)..Len(lines), m \in 0..Len(lines[k + 1]) :
             file' = SubSeq(lines, 1, k) \o <<SubSeq(lines[k + 1], 1, m) \o lines[b + 1]>>
                         \o SubSeq(lines, b + 2, e)
    BY DEF Rewritten
  <2>2. PICK b \in flushed..k, e \in (k + 1)..Len(lines), m \in 0..Len(lines[k + 1]) :
             file' = SubSeq(lines, 1, k) \o <<SubSeq(lines[k + 1], 1, m) \o lines[b + 1]>>
                         \o SubSeq(lines, b + 2, e)
    BY <2>1
  <2>3. b \in flushed..(Len(lines) - 1) /\ e \in 0..Len(lines)
    BY <1>0
  <2> DEFINE x == SubSeq(lines[k + 1], 1, m) \o lines[b + 1]
  <2>4. file' = (SubSeq(lines, 1, k) \o <<x>>) \o SubSeq(lines, b + 2, e)
    BY <2>2
  <2> HIDE DEF x
  <2> QED BY <2>3, <2>4
<1>1a. PICK k, b \in flushed..(Len(lines) - 1), e \in 0..Len(lines) : \E x :
        file' = (SubSeq(lines, 1, k) \o <<x>>) \o SubSeq(lines, b + 2, e)
  BY <1>1
<1>1b. PICK x : file' = (SubSeq(lines, 1, k) \o <<x>>) \o SubSeq(lines, b + 2, e)
  BY <1>1a
<1>2. k \in Nat /\ b \in Nat /\ flushed \in Nat /\ flushed <= k /\ k <= Len(lines)
  BY <1>0
<1> DEFINE p == SubSeq(lines, 1, k)
           t == SubSeq(lines, b + 2, e)
           q == p \o <<x>>
<1>3. PICK S : lines \in Seq(S)
  BY DEF IsSeq
<1>4. IsSeq(p) /\ Len(p) = k /\ \A i \in 1..k : p[i] = lines[i]
  <2>1. p \in Seq(S) /\ Len(p) = k /\ \A i \in 1..k : p[i] = lines[i]
    BY <1>0, <1>2, <1>3, SubSeqProperties
  <2> QED BY <2>1 DEF IsSeq
<1>5. IsSeq(t)
  <2>1. \A i \in (b + 2)..e : lines[i] \in S
    BY <1>0, <1>2, <1>3
  <2>2. t \in Seq(S)
    BY <1>0, <1>2, <2>1, SubSeqProperties
  <2> QED BY <2>2 DEF IsSeq
<1> HIDE DEF p, t
<1>6. IsSeq(q) /\ Len(q) = k + 1 /\ \A i \in 1..k : q[i] = lines[i]
  <2>1. IsSeq(<<x>>) /\ Len(<<x>>) = 1
    BY ShortSeq, OneLong
  <2>2. /\ IsSeq(q) /\ Len(q) = Len(p) + 1
        /\ \A i \in 1..Len(p) : q[i] = p[i]
    BY <1>4, <2>1, JoinSeq
  <2> HIDE DEF q
  <2> QED BY <1>4, <2>2
<1>7. file' = q \o t
  BY <1>1b DEF p, t
<1> HIDE DEF q
<1>8. /\ Len(file') \in Nat /\ Len(file') >= k + 1
      /\ \A i \in 1..(k + 1) : file'[i] = q[i]
  <2>1. /\ Len(q \o t) = Len(q) + Len(t) /\ Len(t) \in Nat
        /\ \A i \in 1..Len(q) : (q \o t)[i] = q[i]
    BY <1>5, <1>6, JoinSeq
  <2> QED BY <1>2, <1>6, <1>7, <2>1
<1>9. ASSUME NEW i \in 1..flushed PROVE file'[i] = lines[i]
  <2>1. i \in 1..k /\ i \in 1..(k + 1)
    BY <1>2
  <2> QED BY <1>6, <1>8, <2>1
<1>10. flushed <= Len(file')
  BY <1>2, <1>8
<1> QED BY <1>8, <1>9, <1>10 DEF Begins

(* The events of the hooks can be written down.                              *)
LEMMA IsWritable ==
  ASSUME NEW p \in Program, NEW type \in DOMAIN Own, NEW u \in Own[type]
  PROVE  [type |-> type, proc |-> p, u |-> u] \in Writable
<1>1. [type |-> type, proc |-> p, u |-> u] \in [type : {type}, proc : Program, u : Own[type]]
  OBVIOUS
<1> QED BY <1>1, Zenon DEF Writable

LEMMA EventsAreWritable ==
  ASSUME NEW p \in Programs
  PROVE  /\ \A f \in ExecFiles :
               [type |-> "execve", proc |-> p, u |-> [filename |-> f]] \in Writable
         /\ \A a \in Addresses, port \in Ports :
               [type |-> "connect", proc |-> p, u |-> [daddr |-> a, dport |-> port]] \in Writable
<1>1. p \in Program
  BY RecordingAssumption
<1>2. "execve" \in DOMAIN Own /\ "connect" \in DOMAIN Own
  BY DEF Own
<1>3. ASSUME NEW f \in ExecFiles
      PROVE  [filename |-> f] \in Own["execve"]
  BY RecordingAssumption DEF Own
<1>4. ASSUME NEW a \in Addresses, NEW port \in Ports
      PROVE  [daddr |-> a, dport |-> port] \in Own["connect"]
  BY RecordingAssumption DEF Own
<1> QED BY <1>1, <1>2, <1>3, <1>4, IsWritable

LEMMA OpensAreWritable ==
  ASSUME NEW p \in Programs, NEW name \in Names, NEW ino \in Inodes,
         NEW mode \in SUBSET {"WRITE", "EXEC"}, NEW more \in SUBSET {"SENSITIVE"},
         NEW path \in {name, <<>>}
  PROVE  [type |-> "fileopen", proc |-> p,
          u |-> [access |-> mode \cup more, ino |-> ino, dev |-> 1, path |-> path]] \in Writable
<1> DEFINE acc == mode \cup more
<1>1. p \in Program
  BY RecordingAssumption
<1>2. "fileopen" \in DOMAIN Own
  BY DEF Own
<1>3. acc \in SUBSET ToSet(Flags)
  <2>1. DOMAIN Flags = 1..4
    BY DEF Flags
  <2>2. ToSet(Flags) = {"WRITE", "CREATE", "SENSITIVE", "EXEC"}
    BY <2>1, FlagsAre DEF ToSet
  <2> QED BY <2>2
<1>4. ino \in Numbers /\ 1 \in Numbers
  BY RecordingAssumption
<1>5. path \in Name({"VT"}) \ {<<"-">>}
  <2>1. <<>> \in Name({"VT"}) /\ <<>> # <<"-">>
    BY DEF Name, Without, ToSet
  <2>2. name \in Name({"VT"}) /\ name # <<"-">>
    BY RecordingAssumption
  <2> QED BY <2>1, <2>2
<1> HIDE DEF acc
<1>6. [access |-> acc, ino |-> ino, dev |-> 1, path |-> path] \in Own["fileopen"]
  BY <1>3, <1>4, <1>5 DEF Own
<1> QED BY <1>1, <1>2, <1>6, IsWritable DEF acc

(* Every step keeps the invariant.                                           *)
LEMMA StepRecInv ==
  ASSUME RecInv, [RecNext]_recVars
  PROVE  RecInv'
<1>1. CASE \/ UNCHANGED recVars
           \/ \E name \in Names, ino \in Inodes : Bind(name, ino)
           \/ populate_sensitive
           \/ Attach
  <2>1. /\ UNCHANGED <<lines, flushed, failed, n, last_ts, wrote, file, clock, happened>>
        /\ apc' \in {"load", "populated", "on", "closed", "crashed"}
        /\ apc' = apc \/ apc' \in {"populated", "on"}
    BY <1>1 DEF Bind, populate_sensitive, Attach, recVars, sinkVars, RecInv, RecTypeOK
  <2>2. RecTypeOK' /\ TimesInv' /\ Written'
    BY <2>1 DEF RecInv, RecTypeOK, TimesInv, Written
  <2>3. FileInv'
    BY <2>1 DEF RecInv, FileInv
  <2>4. DOMAIN fs' \subseteq Names /\ \A f \in DOMAIN fs' : fs'[f] \in Inodes
    <3>1. DOMAIN fs \subseteq Names /\ \A f \in DOMAIN fs : fs[f] \in Inodes
      BY DEF RecInv, SeenInv
    <3>2. CASE fs' = fs
      BY <3>1, <3>2
    <3>3. CASE \E name \in Names, ino \in Inodes : Bind(name, ino)
      BY <3>1, <3>3 DEF Bind
    <3> QED BY <1>1, <3>2, <3>3 DEF populate_sensitive, Attach, recVars
  <2>5. SeenInv'
    BY <2>1, <2>4 DEF RecInv, SeenInv
  <2> QED BY <2>2, <2>3, <2>5 DEF RecInv
<1>2. CASE \E p \in Programs :
              \/ \E f \in ExecFiles : handle_execve(p, f)
              \/ \E a \in Addresses, port \in Ports : handle_tcp_connect(p, a, port)
              \/ \E name \in DOMAIN fs, mode \in SUBSET {"WRITE", "EXEC"}, dpath \in BOOLEAN :
                    handle_file_open(p, name, mode, dpath)
  <2>1. \E ev \in Writable : \E w \in BOOLEAN : Event(ev, w, w)
    <3>1. PICK p \in Programs :
              \/ \E f \in ExecFiles : handle_execve(p, f)
              \/ \E a \in Addresses, port \in Ports : handle_tcp_connect(p, a, port)
              \/ \E name \in DOMAIN fs, mode \in SUBSET {"WRITE", "EXEC"}, dpath \in BOOLEAN :
                    handle_file_open(p, name, mode, dpath)
      BY <1>2
    <3>2. CASE \E f \in ExecFiles : handle_execve(p, f)
      BY <3>2, EventsAreWritable DEF handle_execve
    <3>3. CASE \E a \in Addresses, port \in Ports : handle_tcp_connect(p, a, port)
      BY <3>3, EventsAreWritable DEF handle_tcp_connect
    <3>4. CASE \E name \in DOMAIN fs, mode \in SUBSET {"WRITE", "EXEC"}, dpath \in BOOLEAN :
                    handle_file_open(p, name, mode, dpath)
      <4>1. PICK name \in DOMAIN fs, mode \in SUBSET {"WRITE", "EXEC"}, dpath \in BOOLEAN :
                    handle_file_open(p, name, mode, dpath)
        BY <3>4
      <4>2. PICK ev \in Writable :
              Event(ev, Wanted(name, mode, dpath), Filter(name, mode, dpath))
        <5>1. fs[name] \in Inodes /\ name \in Names
          BY DEF RecInv, SeenInv
        <5> QED BY <4>1, <5>1, OpensAreWritable DEF handle_file_open
      <4>3. CASE Wanted(name, mode, dpath)
        <5>1. Filter(name, mode, dpath)
          BY <4>3, FilterIsExact
        <5>2. Event(ev, TRUE, TRUE)
          BY <4>2, <4>3, <5>1 DEF Event
        <5> QED BY <5>2
      <4>4. CASE ~Wanted(name, mode, dpath)
        <5>1. ~Filter(name, mode, dpath)
          BY <4>4, FilterIsExact
        <5>2. Event(ev, FALSE, FALSE)
          BY <4>2, <4>4, <5>1 DEF Event
        <5> QED BY <5>2
      <4> QED BY <4>3, <4>4
    <3> QED BY <3>1, <3>2, <3>3, <3>4
  <2> QED BY <2>1, EventInv
<1>3. CASE Close \/ Crash
  <2>1. /\ UNCHANGED <<fs, lines, flushed, n, last_ts, wrote, clock, happened>>
        /\ failed' \in BOOLEAN /\ (failed => failed')
        /\ apc' \in {"closed", "crashed"}
        /\ apc' = "closed" /\ ~failed' => file' = lines
        /\ LossyEnd \/ file' = lines \/ (failed' /\ Rewritten)
    BY <1>3 DEF Close, Crash, sinkVars, RecInv, RecTypeOK
  <2>2. RecTypeOK' /\ TimesInv' /\ SeenInv'
    BY <2>1 DEF RecInv, RecTypeOK, TimesInv, SeenInv
  <2>3. Written'
    BY <2>1 DEF RecInv, Written
  <2>4. IsSeq(lines) /\ flushed \in 0..Len(lines) /\ Len(lines) \in Nat
    BY JoinSeq DEF RecInv, RecTypeOK
  <2>5. \/ failed' /\ Rewritten
        \/ \E k \in flushed..Len(lines) : CutAt(file', lines, k)
    <3>1. CASE LossyEnd
      BY <2>4, <3>1, LossyEndCuts
    <3>2. CASE file' = lines
      <4>1. Len(lines) \in flushed..Len(lines) /\ CutAt(file', lines, Len(lines))
        BY <2>4, <3>2 DEF CutAt
      <4> QED BY <4>1
    <3> QED BY <2>1, <3>1, <3>2
  <2>6. Begins(file', lines, flushed)
    <3>1. CASE Rewritten
      BY <2>4, <3>1, RewrittenBegins
    <3>2. CASE \E k \in flushed..Len(lines) : CutAt(file', lines, k)
      BY <2>4, <3>2, CutBegins
    <3> QED BY <2>5, <3>1, <3>2
  <2>7. FileInv'
    BY <2>1, <2>5, <2>6 DEF FileInv
  <2> QED BY <2>2, <2>3, <2>7 DEF RecInv
<1> QED BY <1>1, <1>2, <1>3 DEF RecNext, RecEnded

(* The inductive invariant: the lines RecordSink wrote are those of the     *)
(* first events, each with its delay; nothing before the latest flush is    *)
(* lost; and every event the hooks are for can be written down.             *)
THEOREM RecordingInvariance == RecSpec => []RecInv
  BY InitRecInv, StepRecInv, PTL DEF RecSpec

-----------------------------------------------------------------------------
(* What the file holds.                                                      *)

(* A capture that was closed holds a line for each event the hooks are for,  *)
(* in order, and nothing else but its header and the delays (main.cpp:100).  *)
CaptureComplete ==
    apc = "closed" /\ ~failed =>
        \E at : Places(at, file, happened, Len(happened))

(* RecordSink writes every event the hooks are for, once and in order.       *)
THEOREM CaptureIsComplete == RecSpec => []CaptureComplete
<1>1. RecInv => CaptureComplete
  <2> SUFFICES ASSUME RecInv, apc = "closed", ~failed
               PROVE  \E at : Places(at, file, happened, Len(happened))
    BY DEF CaptureComplete
  <2>1. file = lines /\ n = Len(happened)
    BY DEF RecInv, RecTypeOK, FileInv
  <2>2. \E m \in 0..n : \E at : Places(at, lines, happened, m) /\ m = n
    BY DEF RecInv, Written
  <2> QED BY <2>1, <2>2
<1> QED BY <1>1, RecordingInvariance, PTL

(* However the process ends, the file begins with the lines of all events    *)
(* up to the latest flush that succeeded; and when no write failed it is a   *)
(* beginning, cut somewhere, of the lines of all that happened: what is      *)
(* missing are fewer than FlushEvery events (main.cpp:114).                  *)
TailLost ==
    apc \in {"closed", "crashed"} =>
        \E m \in 0..Len(happened), k \in Nat : \E at, all :
            /\ Places(at, all, happened, m)
            /\ Begins(file, all, k) /\ wrote <= m /\ Kept(at, wrote, k)
            /\ ~failed => m = Len(happened) /\ wrote = m /\ CutAt(file, all, k)

(* A crash or a full disk costs RecordSink nothing it had flushed.           *)
THEOREM OnlyATailIsLost == RecSpec => []TailLost
<1>1. RecInv => TailLost
  <2> SUFFICES ASSUME RecInv, apc \in {"closed", "crashed"}
               PROVE  \E m \in 0..Len(happened), k \in Nat : \E at, all :
                        /\ Places(at, all, happened, m)
                        /\ Begins(file, all, k) /\ wrote <= m /\ Kept(at, wrote, k)
                        /\ ~failed => m = Len(happened) /\ wrote = m /\ CutAt(file, all, k)
    BY DEF TailLost
  <2>1. /\ IsSeq(lines) /\ flushed \in 0..Len(lines) /\ Len(lines) \in Nat
        /\ n = Len(happened) /\ n \in Nat /\ wrote \in 0..n /\ (~failed => wrote = n)
    BY JoinSeq DEF RecInv, RecTypeOK
  <2>2. PICK m \in 0..n : \E at : /\ Places(at, lines, happened, m)
                                  /\ ~failed => m = n
                                  /\ wrote <= m /\ Kept(at, wrote, flushed)
    BY DEF RecInv, Written
  <2>3. PICK at : /\ Places(at, lines, happened, m)
                  /\ ~failed => m = n
                  /\ wrote <= m /\ Kept(at, wrote, flushed)
    BY <2>2
  <2>4. Begins(file, lines, flushed) /\ flushed \in Nat
    BY <2>1 DEF RecInv, FileInv
  <2>5. CASE failed
    BY <2>1, <2>3, <2>4, <2>5
  <2>6. CASE ~failed
    <3>1. PICK k \in flushed..Len(lines) : CutAt(file, lines, k)
      BY <2>6 DEF RecInv, FileInv
    <3>2. k \in Nat /\ flushed \in Nat /\ flushed <= k /\ k \in 0..Len(lines) /\ k \in k..Len(lines)
      BY <2>1
    <3>3. Begins(file, lines, k)
      BY <2>1, <3>1, <3>2, CutBegins
    <3>4. Kept(at, wrote, k)
      <4> SUFFICES ASSUME NEW j \in 1..wrote, j % FlushEvery = 0
                   PROVE  at[j] <= k
        BY DEF Kept
      <4>1. at[j] <= flushed /\ j \in 0..m
        BY <2>1, <2>3 DEF Kept
      <4>2. at[j] \in Nat
        BY <2>1, <2>3, <4>1 DEF Places
      <4> QED BY <3>2, <4>1, <4>2
    <3>5. m = n /\ wrote = n
      BY <2>1, <2>3, <2>6
    <3> QED BY <2>1, <2>3, <3>1, <3>2, <3>3, <3>4, <3>5
  <2> QED BY <2>5, <2>6
<1> QED BY <1>1, RecordingInvariance, PTL

-----------------------------------------------------------------------------
(* The clock of the evaluation.                                              *)

(* A finite set of numbers that is not empty has a largest element.          *)
LEMMA MaxOfFinite ==
  ASSUME NEW S, S \subseteq Int, IsFiniteSet(S), S # {}
  PROVE  Max(S) \in S /\ \A x \in S : x <= Max(S)
<1> DEFINE Has(A) == \E x \in A : \A y \in A : x >= y
           T == {c \in Nat : \A A \in SUBSET Int :
                    IsFiniteSet(A) /\ A # {} /\ Cardinality(A) <= c => Has(A)}
<1>1. 0 \in T
  <2> SUFFICES ASSUME NEW A \in SUBSET Int, IsFiniteSet(A), A # {}, Cardinality(A) <= 0
               PROVE  FALSE
    OBVIOUS
  <2>1. Cardinality(A) \in Nat /\ Cardinality(A) # 0
    BY FS_CardinalityType, FS_EmptySet
  <2>2. Cardinality(A) <= 0
    OBVIOUS
  <2> DEFINE c == Cardinality(A)
  <2>3. c \in Nat /\ c # 0 /\ c <= 0
    BY <2>1, <2>2
  <2> HIDE DEF c
  <2> QED BY <2>3
<1>2. ASSUME NEW c \in T
      PROVE  c + 1 \in T
  <2> SUFFICES ASSUME NEW A \in SUBSET Int, IsFiniteSet(A), A # {}, Cardinality(A) <= c + 1
               PROVE  Has(A)
    OBVIOUS
  <2>1. PICK a \in A : TRUE
    OBVIOUS
  <2>2. /\ IsFiniteSet(A \ {a}) /\ Cardinality(A \ {a}) = Cardinality(A) - 1
        /\ Cardinality(A) \in Nat
    BY FS_RemoveElement, FS_CardinalityType
  <2>3. CASE A \ {a} = {}
    <3>1. \A y \in A : y = a
      BY <2>3
    <3> QED BY <2>1, <3>1
  <2>4. CASE A \ {a} # {}
    <3>1. Cardinality(A \ {a}) <= c
      BY <2>2
    <3>2. PICK b \in A \ {a} : \A y \in A \ {a} : b >= y
      BY <2>2, <2>4, <3>1
    <3>3. CASE b >= a
      BY <3>2, <3>3
    <3>4. CASE ~(b >= a)
      <4>1. \A y \in A : a >= y
        BY <3>2, <3>4
      <4> QED BY <4>1
    <3> QED BY <3>3, <3>4
  <2> QED BY <2>3, <2>4
<1>3. T = Nat
  <2>1. T \subseteq Nat
    OBVIOUS
  <2> HIDE DEF T
  <2> QED BY <1>1, <1>2, <2>1, SetInduction
<1>4. Has(S)
  <2>1. Cardinality(S) \in Nat
    BY FS_CardinalityType
  <2>2. Cardinality(S) \in T
    BY <1>3, <2>1
  <2> QED BY <2>1, <2>2
<1>5. PICK x \in S : \A y \in S : x >= y
  BY <1>4
<1>6. Max(S) \in S /\ \A y \in S : Max(S) >= y
  BY <1>5 DEF Max
<1> QED BY <1>6

(* The virtual clock of eval along a capture: a millisecond for an event,    *)
(* and for the delay in front of it what is left of the pause in whole       *)
(* milliseconds.                                                             *)
Advance(h, i) ==
    Ms + (IF Paused(h, i) THEN ((h[i].ts - h[i - 1].ts) \div Ms) * Ms ELSE 0)

Advances(v, h) == \A i \in 2..Len(h) : v[i] = v[i - 1] + Advance(h, i)

Skew == Max({-g : g \in Gaps} \cup {0})

LEMMA SkewBounds == Skew \in Nat /\ \A g \in Gaps : g >= -Skew
<1> DEFINE S == {-g : g \in Gaps} \cup {0}
<1>1. IsFiniteSet({-g : g \in Gaps})
  <2> DEFINE T == {-g : g \in Gaps}
             neg == [g \in Gaps |-> -g]
  <2>1. neg \in Surjection(Gaps, T)
    BY DEF Surjection
  <2> HIDE DEF T, neg
  <2>2. IsFiniteSet(T)
    BY <2>1, RecordingAssumption, FS_Surjection
  <2> QED BY <2>2 DEF T
<1>2. IsFiniteSet(S)
  BY <1>1, FS_AddElement
<1>3. S \subseteq Int /\ S # {} /\ 0 \in S
  BY RecordingAssumption
<1>4. Max(S) \in S /\ \A x \in S : x <= Max(S)
  <2> HIDE DEF S
  <2> QED BY <1>2, <1>3, MaxOfFinite
<1>5. Skew = Max(S)
  BY DEF Skew
<1>6. \A g \in Gaps : -g \in S
  OBVIOUS
<1> HIDE DEF S
<1>7. Skew \in Int /\ 0 <= Skew /\ \A g \in Gaps : -g <= Skew
  BY <1>3, <1>4, <1>5, <1>6
<1> QED BY <1>7, RecordingAssumption

LEMMA DivBounds ==
  ASSUME NEW d \in Nat, NEW m \in Nat \ {0}
  PROVE  /\ d \div m \in Int
         /\ (d \div m) * m <= d /\ d < (d \div m) * m + m
OBVIOUS

LEMMA OneMore ==
  ASSUME NEW k \in Nat, NEW a \in Int
  PROVE  k * a \in Int /\ (k + 1) * a = k * a + a
OBVIOUS

(* One event: a pause too short to be written counts for nothing, a pause   *)
(* that is written loses less than a millisecond, and disorder turns the    *)
(* recorded clock back but not the virtual one.                             *)
LEMMA StepDrift ==
  ASSUME RecTypeOK, TimesInv, NEW i \in 2..n
  PROVE  LET d == happened[i].ts - happened[i - 1].ts
         IN  /\ d \in Int /\ Advance(happened, i) \in Int
             /\ Advance(happened, i) - d >= Ms - MinGap
             /\ Advance(happened, i) - d <= Ms + Skew
<1> DEFINE a == happened[i].ts
           b == happened[i - 1].ts
           d == a - b
           w == (d \div Ms) * Ms
<1>1. n \in Nat
  BY JoinSeq DEF RecTypeOK
<1>2. i \in 1..n /\ i - 1 \in 1..n /\ i > 1
  BY <1>1
<1>3. a \in Nat /\ b \in Nat
  BY <1>2 DEF TimesInv
<1>4. PICK gap \in Gaps : a >= b + gap
  BY DEF TimesInv
<1>5. gap \in Int /\ gap >= -Skew /\ Skew \in Nat
  BY RecordingAssumption, SkewBounds
<1>6. Ms \in Nat \ {0} /\ MinGap \in Nat /\ Ms <= MinGap
  BY RecordingAssumption
<1>7. Paused(happened, i) <=> a > b + MinGap
  BY <1>2 DEF Paused
<1>8. Advance(happened, i) = Ms + (IF Paused(happened, i) THEN w ELSE 0)
  BY DEF Advance
<1> HIDE DEF a, b
<1>9. d \in Int /\ d >= -Skew
  BY <1>3, <1>4, <1>5
<1>10. CASE Paused(happened, i)
  <2>1. d \in Nat /\ d > MinGap
    BY <1>3, <1>6, <1>7, <1>10
  <2> HIDE DEF d
  <2>2. d \div Ms \in Int /\ w <= d /\ d < w + Ms
    BY <2>1, <1>6, DivBounds
  <2>3. w \in Int
    BY <2>2, <1>6
  <2> HIDE DEF w
  <2>4. Advance(happened, i) = Ms + w
    BY <1>8, <1>10
  <2>5. /\ Advance(happened, i) \in Int
        /\ Advance(happened, i) - d >= Ms - MinGap
        /\ Advance(happened, i) - d <= Ms + Skew
    BY <2>1, <2>2, <2>3, <2>4, <1>5, <1>6
  <2> QED BY <2>5, <1>9 DEF a, b, d
<1>11. CASE ~Paused(happened, i)
  <2>1. d <= MinGap
    BY <1>3, <1>6, <1>7, <1>11
  <2>2. Advance(happened, i) = Ms
    BY <1>6, <1>8, <1>11
  <2> HIDE DEF d
  <2>3. /\ Advance(happened, i) \in Int
        /\ Advance(happened, i) - d >= Ms - MinGap
        /\ Advance(happened, i) - d <= Ms + Skew
    BY <2>1, <2>2, <1>5, <1>6, <1>9
  <2> QED BY <2>3, <1>9 DEF a, b, d
<1> QED BY <1>10, <1>11

(* Over k events the drifts add up.                                         *)
Within(v, i, k) ==
    LET drift == (v[i + k] - v[i]) - (happened[i + k].ts - happened[i].ts)
    IN  drift >= k * (Ms - MinGap) /\ drift <= k * (Ms + Skew)

LEMMA DriftAdds ==
  ASSUME RecTypeOK, TimesInv, NEW v \in [1..n -> Int], Advances(v, happened)
  PROVE  \A k \in Nat, i \in 1..n : i + k <= n => Within(v, i, k)
<1> DEFINE lo == Ms - MinGap
           hi == Ms + Skew
           T == {k \in Nat : \A i \in 1..n : i + k <= n => Within(v, i, k)}
<1>1. n \in Nat /\ n = Len(happened)
  BY JoinSeq DEF RecTypeOK
<1>2. lo \in Int /\ hi \in Int
  BY RecordingAssumption, SkewBounds
<1>3. \A i \in 1..n : happened[i].ts \in Int
  BY DEF TimesInv
<1>4. 0 \in T
  <2> SUFFICES ASSUME NEW i \in 1..n
               PROVE  Within(v, i, 0)
    OBVIOUS
  <2>1. i + 0 = i /\ v[i] \in Int /\ happened[i].ts \in Int
    BY <1>1, <1>3
  <2>2. (v[i + 0] - v[i]) - (happened[i + 0].ts - happened[i].ts) = 0
    BY <2>1
  <2>3. 0 * lo = 0 /\ 0 * hi = 0
    BY <1>2
  <2> QED BY <2>2, <2>3 DEF Within
<1>5. ASSUME NEW k \in T
      PROVE  k + 1 \in T
  <2> SUFFICES ASSUME NEW i \in 1..n, i + (k + 1) <= n
               PROVE  Within(v, i, k + 1)
    OBVIOUS
  <2> DEFINE j == i + k
             x == v[i]
             y == v[j]
             z == v[j + 1]
             p == happened[i].ts
             q == happened[j].ts
             r == happened[j + 1].ts
             lk == k * lo
             hk == k * hi
  <2>1. k \in Nat /\ j \in 1..n /\ j + 1 \in 2..n /\ i + (k + 1) = j + 1 /\ j + 1 \in 1..n
        /\ (j + 1) - 1 = j
    BY <1>1
  <2>2. x \in Int /\ y \in Int /\ z \in Int /\ p \in Int /\ q \in Int /\ r \in Int
    BY <1>3, <2>1
  <2>3. /\ (y - x) - (q - p) >= lk
        /\ (y - x) - (q - p) <= hk
    BY <2>1 DEF Within
  <2>4. z = y + Advance(happened, j + 1)
    BY <1>1, <2>1 DEF Advances
  <2>5. /\ Advance(happened, j + 1) \in Int
        /\ Advance(happened, j + 1) - (r - q) >= lo
        /\ Advance(happened, j + 1) - (r - q) <= hi
    BY <2>1, StepDrift
  <2>6. lk \in Int /\ hk \in Int /\ (k + 1) * lo = lk + lo /\ (k + 1) * hi = hk + hi
    BY <1>2, <2>1, OneMore
  <2>7. /\ (z - x) - (r - p) >= (k + 1) * lo
        /\ (z - x) - (r - p) <= (k + 1) * hi
    <3> HIDE DEF x, y, z, p, q, r, lk, hk, lo, hi
    <3> DEFINE A == Advance(happened, j + 1)
    <3>1. A \in Int /\ z = y + A /\ A - (r - q) >= lo /\ A - (r - q) <= hi
      BY <2>4, <2>5
    <3> HIDE DEF A
    <3>2. (z - x) - (r - p) >= lk + lo /\ (z - x) - (r - p) <= hk + hi
      BY <1>2, <2>2, <2>3, <2>6, <3>1
    <3> QED BY <2>6, <3>2
  <2> QED BY <2>1, <2>7 DEF Within
<1>6. T = Nat
  <2>1. T \subseteq Nat
    OBVIOUS
  <2> HIDE DEF T
  <2> QED BY <1>4, <1>5, <2>1, SetInduction
<1> QED BY <1>6

(* Between any two events of a recording a clock that advances as eval's     *)
(* does falls behind the recorded one by less than MinGap per event and gets *)
(* ahead of it by at most a millisecond and the disorder (main.cpp:108).     *)
DriftFollows ==
    \A v \in [1..Len(happened) -> Int] : Advances(v, happened) => DriftIn(v)

LEMMA DriftHolds == RecInv => DriftFollows
<1> SUFFICES ASSUME RecInv, NEW v \in [1..Len(happened) -> Int], Advances(v, happened)
             PROVE  DriftIn(v)
  BY DEF DriftFollows
<1>1. n = Len(happened) /\ n \in Nat /\ RecTypeOK /\ TimesInv
  BY JoinSeq DEF RecInv, RecTypeOK
<1>2. SUFFICES ASSUME NEW i \in 1..n, NEW j \in 1..n, i < j
               PROVE  LET drift == (v[j] - v[i]) - (happened[j].ts - happened[i].ts)
                      IN  /\ drift >= (j - i) * (Ms - MinGap)
                          /\ drift <= (j - i) * (Ms + Skew)
  BY <1>1 DEF DriftIn, Skew
<1>3. j - i \in Nat /\ i + (j - i) = j /\ j <= n
  BY <1>1, <1>2
<1>4. Within(v, i, j - i)
  <2> DEFINE k == j - i
  <2>1. k \in Nat /\ i + k <= n
    BY <1>3
  <2> HIDE DEF k
  <2>2. Within(v, i, k)
    BY <1>1, <2>1, DriftAdds
  <2> QED BY <2>2 DEF k
<1> QED BY <1>3, <1>4 DEF Within

(* A clock that follows the delays RecordSink::handle writes, and adds a     *)
(* millisecond per event, stays near the recorded one (main.cpp:108).        *)
THEOREM DriftIsBounded == RecSpec => []DriftFollows
  BY DriftHolds, RecordingInvariance, PTL

-----------------------------------------------------------------------------
(* What a reader of the file sees.                                           *)

LEMMA DivMonotone ==
  ASSUME NEW a \in Nat, NEW d \in Nat, d <= a, NEW m \in Nat \ {0}
  PROVE  d \div m \in Nat /\ d \div m <= a \div m
<1> DEFINE x == d \div m
           y == a \div m
<1>1. x \in Int /\ x * m <= d /\ d < x * m + m
  BY DivBounds
<1>2. y \in Int /\ y * m <= a /\ a < y * m + m
  BY DivBounds
<1> HIDE DEF x, y
<1>3. (y + 1) * m = y * m + m /\ (x + 1) * m = x * m + m
  BY <1>1, <1>2
<1>4. x >= 0
  <2> SUFFICES ASSUME x + 1 <= 0 PROVE FALSE
    BY <1>1
  <2>1. (x + 1) * m <= 0
    BY <1>1
  <2> QED BY <1>1, <1>3, <2>1
<1>5. x <= y
  <2> SUFFICES ASSUME y + 1 <= x PROVE FALSE
    BY <1>1, <1>2
  <2>1. (y + 1) * m <= x * m
    BY <1>1, <1>2
  <2> QED BY <1>1, <1>2, <1>3, <2>1
<1> QED BY <1>1, <1>4, <1>5 DEF x, y

(* A pause that was written is a number of the file.                         *)
LEMMA PausesAreNumbers ==
  ASSUME RecInv, NEW i \in 1..n, Paused(happened, i)
  PROVE  (happened[i].ts - happened[i - 1].ts) \div Ms \in Numbers
<1> DEFINE a == happened[i].ts
           b == happened[i - 1].ts
<1>1. n \in Nat /\ MinGap \in Nat /\ Ms \in Nat \ {0} /\ MaxNumber \in Nat
  BY JoinSeq, RecordingAssumption, EventsFileAssumption DEF RecInv, RecTypeOK
<1>2. i > 1 /\ a > b + MinGap
  BY DEF Paused
<1>3. i - 1 \in 1..n
  BY <1>1, <1>2
<1>4. a \in Nat /\ b \in Nat /\ a \div Ms <= MaxNumber
  BY <1>3 DEF RecInv, TimesInv, SeenInv
<1> HIDE DEF a, b
<1>5. a - b \in Nat /\ a - b <= a
  BY <1>1, <1>2, <1>4
<1>6. (a - b) \div Ms \in Nat /\ (a - b) \div Ms <= a \div Ms
  BY <1>1, <1>4, <1>5, DivMonotone
<1>7. a \div Ms \in Nat
  BY <1>1, <1>4
<1>8. (a - b) \div Ms \in Numbers
  BY <1>1, <1>4, <1>6, <1>7 DEF Numbers
<1> QED BY <1>8 DEF a, b

(* Whose line is line l: the header, an event, or the pause in front of it   *)
Known(at, m, l) ==
    l = 1 \/ \E i \in 1..m : l = at[i] \/ (Paused(happened, i) /\ l = at[i] - 1)

(* The lines ls, as they are read                                            *)
ReadAt(at, ls, m) ==
    /\ at \in [0..m -> 1..Len(ls)] /\ at[0] = 1 /\ at[m] = Len(ls)
    /\ \A i, j \in 0..m : i < j => at[i] < at[j]
    /\ parse_line(ls[1]) \in [kind : {"directive", "none"}]
    /\ \A i \in 1..m :
          /\ parse_line(ls[at[i]]) = [kind |-> "event", ev |-> Normal(happened[i].ev)]
          /\ at[i] = at[i - 1] + (IF Paused(happened, i) THEN 2 ELSE 1)
          /\ Paused(happened, i) =>
                parse_line(ls[at[i] - 1]) =
                    [kind |-> "delay", ms |-> (happened[i].ts - happened[i - 1].ts) \div Ms]
    /\ \A l \in 1..Len(ls) : Known(at, m, l)

LEMMA LinesRead ==
  ASSUME RecInv, NEW m \in 0..n, NEW at, NEW ls, Len(ls) \in Nat, Places(at, ls, happened, m)
  PROVE  ReadAt(at, ls, m)
<1>1. n \in Nat /\ m \in Nat /\ \A i \in 1..m : i \in 1..n
  BY JoinSeq DEF RecInv, RecTypeOK
<1>2. /\ at \in [0..m -> 1..Len(ls)] /\ at[0] = 1 /\ at[m] = Len(ls) /\ ls[1] = Header
      /\ \A i \in 1..m : Placed(at, ls, happened, i)
  BY DEF Places
<1>3. \A i \in 0..m : at[i] \in Nat
  BY <1>2
<1>4. \A i \in 1..m : at[i] = at[i - 1] + (IF Paused(happened, i) THEN 2 ELSE 1)
  BY <1>2 DEF Placed
<1>5. \A j \in Nat : j \in 0..m => \A i \in 0..m : i < j => at[i] < at[j]
  <2> DEFINE T == {j \in Nat : j \in 0..m => \A i \in 0..m : i < j => at[i] < at[j]}
  <2>1. 0 \in T
    OBVIOUS
  <2>2. ASSUME NEW j \in T PROVE j + 1 \in T
    <3> SUFFICES ASSUME j + 1 \in 0..m, NEW i \in 0..m, i < j + 1 PROVE at[i] < at[j + 1]
      OBVIOUS
    <3>1. j \in 0..m /\ j + 1 \in 1..m /\ (j + 1) - 1 = j /\ (i < j \/ i = j)
      BY <1>1
    <3>2. at[j] < at[j + 1] /\ at[j] \in Nat /\ at[j + 1] \in Nat /\ at[i] \in Nat
      <4>1. at[j] \in Nat /\ at[j + 1] \in Nat /\ at[i] \in Nat
        BY <1>3, <3>1
      <4>2. at[j + 1] = at[j] + 2 \/ at[j + 1] = at[j] + 1
        BY <1>4, <3>1
      <4> QED BY <4>1, <4>2
    <3>3. at[i] < at[j] \/ at[i] = at[j]
      BY <3>1
    <3> QED BY <3>2, <3>3
  <2>3. T \subseteq Nat
    OBVIOUS
  <2> HIDE DEF T
  <2>4. T = Nat
    BY <2>1, <2>2, <2>3, SetInduction
  <2> QED BY <2>4 DEF T
<1>6. \A j \in Nat : j \in 0..m => \A l \in 1..at[j] : Known(at, m, l)
  <2> DEFINE T == {j \in Nat : j \in 0..m => \A l \in 1..at[j] : Known(at, m, l)}
  <2>1. 0 \in T
    <3>1. \A l \in 1..at[0] : l = 1
      BY <1>2
    <3> QED BY <3>1 DEF Known
  <2>2. ASSUME NEW j \in T PROVE j + 1 \in T
    <3> SUFFICES ASSUME j + 1 \in 0..m, NEW l \in 1..at[j + 1] PROVE Known(at, m, l)
      OBVIOUS
    <3>1. j \in 0..m /\ j + 1 \in 1..m /\ (j + 1) - 1 = j
      BY <1>1
    <3>2. /\ at[j] \in Nat /\ at[j + 1] \in Nat
          /\ at[j + 1] = at[j] + (IF Paused(happened, j + 1) THEN 2 ELSE 1)
      BY <1>3, <1>4, <3>1
    <3>3. \/ l \in 1..at[j] \/ l = at[j + 1]
          \/ Paused(happened, j + 1) /\ l = at[j + 1] - 1
      BY <3>2, SMTT(30)
    <3>4. l \in 1..at[j] => Known(at, m, l)
      BY <3>1
    <3> QED BY <3>1, <3>3, <3>4 DEF Known
  <2>3. T \subseteq Nat
    OBVIOUS
  <2> HIDE DEF T
  <2>4. T = Nat
    BY <2>1, <2>2, <2>3, SetInduction
  <2> QED BY <2>4 DEF T
<1>7. parse_line(ls[1]) \in [kind : {"directive", "none"}]
  <2>1. Len(Header) \in Nat /\ Header[1] = "#"
    BY DEF Header
  <2>2. parse_line(Header) \in [kind : {"directive", "none"}]
    BY <2>1, CommentLine
  <2> QED BY <1>2, <2>2
<1>8. ASSUME NEW i \in 1..m
      PROVE  parse_line(ls[at[i]]) = [kind |-> "event", ev |-> Normal(happened[i].ev)]
  <2>1. ls[at[i]] = format_line(happened[i].ev) /\ happened[i].ev \in Writable
    BY <1>1, <1>2 DEF Placed, RecInv, SeenInv
  <2> QED BY <2>1, EventReadsBack
<1>9. ASSUME NEW i \in 1..m, Paused(happened, i)
      PROVE  parse_line(ls[at[i] - 1]) =
               [kind |-> "delay", ms |-> (happened[i].ts - happened[i - 1].ts) \div Ms]
  <2> DEFINE d == (happened[i].ts - happened[i - 1].ts) \div Ms
  <2>1. ls[at[i] - 1] = <<"delay", "SP", Text(d)>>
    BY <1>2, <1>9 DEF Placed, Pause
  <2>2. d \in Numbers
    BY <1>1, <1>9, PausesAreNumbers
  <2> HIDE DEF d
  <2>3. parse_line(ls[at[i] - 1]) = [kind |-> "delay", ms |-> d]
    BY <2>1, <2>2, DelayReadsBack
  <2> QED BY <2>3 DEF d
<1>10. \A i, j \in 0..m : i < j => at[i] < at[j]
  BY <1>1, <1>5
<1>11. \A l \in 1..Len(ls) : Known(at, m, l)
  BY <1>1, <1>2, <1>6
<1> QED BY <1>2, <1>4, <1>7, <1>8, <1>9, <1>10, <1>11 DEF ReadAt

(* No line is bad, and the events are where they were put.                   *)
LEMMA KindsRead ==
  ASSUME NEW m \in Nat, NEW at, NEW ls, Len(ls) \in Nat, ReadAt(at, ls, m)
  PROVE  \A l \in 1..Len(ls) :
            /\ parse_line(ls[l]).kind # "bad"
            /\ parse_line(ls[l]).kind = "event" <=> \E i \in 1..m : l = at[i]
<1> SUFFICES ASSUME NEW l \in 1..Len(ls)
             PROVE  /\ parse_line(ls[l]).kind # "bad"
                    /\ parse_line(ls[l]).kind = "event" <=> \E i \in 1..m : l = at[i]
  OBVIOUS
<1> DEFINE kind == parse_line(ls[l]).kind
<1>1. /\ \A i \in 0..m : at[i] \in Nat
      /\ \A i, j \in 0..m : i < j => at[i] < at[j]
      /\ at[0] = 1
  BY DEF ReadAt
<1>2. CASE \E i \in 1..m : l = at[i]
  <2>1. PICK i \in 1..m : l = at[i]
    BY <1>2
  <2>2. parse_line(ls[at[i]]) = [kind |-> "event", ev |-> Normal(happened[i].ev)]
    BY DEF ReadAt
  <2>3. parse_line(ls[l]) = [kind |-> "event", ev |-> Normal(happened[i].ev)]
    BY <2>1, <2>2
  <2>4. kind = "event"
    BY <2>3
  <2> HIDE DEF kind
  <2>5. kind # "bad"
    BY <2>4
  <2> QED BY <1>2, <2>4, <2>5 DEF kind
<1>3. CASE l = 1
  <2>1. kind \in {"directive", "none"}
    <3>1. parse_line(ls[1]) \in [kind : {"directive", "none"}]
      BY DEF ReadAt
    <3> QED BY <1>3, <3>1
  <2>2. \A i \in 1..m : l # at[i]
    <3>1. \A i \in 1..m : i \in 0..m /\ 0 \in 0..m /\ 0 < i
      OBVIOUS
    <3> QED BY <1>1, <1>3, <3>1
  <2> QED BY <2>1, <2>2
<1>4. CASE \E i \in 1..m : Paused(happened, i) /\ l = at[i] - 1
  <2>1. PICK i \in 1..m : Paused(happened, i) /\ l = at[i] - 1
    BY <1>4
  <2>2. kind = "delay"
    <3> DEFINE d == (happened[i].ts - happened[i - 1].ts) \div Ms
    <3>1. parse_line(ls[at[i] - 1]) = [kind |-> "delay", ms |-> d]
      BY <2>1 DEF ReadAt
    <3> HIDE DEF d
    <3>2. parse_line(ls[l]) = [kind |-> "delay", ms |-> d]
      BY <2>1, <3>1
    <3> QED BY <3>2
  <2>3. ASSUME NEW j \in 1..m, l = at[j] PROVE FALSE
    <3>1. i \in 0..m /\ j \in 0..m /\ i - 1 \in 0..m
      OBVIOUS
    <3>2. at[i] = at[i - 1] + 2
      BY <2>1 DEF ReadAt
    <3>3. at[i] \in Nat /\ at[i - 1] \in Nat /\ at[j] \in Nat
      BY <1>1, <3>1
    <3>4. at[j] = at[i - 1] + 1 /\ at[j] < at[i]
      BY <2>1, <2>3, <3>2, <3>3, SMTT(30)
    <3>5. j < i
      <4>1. ~(i < j)
        BY <1>1, <3>1, <3>3, <3>4
      <4>2. i # j
        BY <3>3, <3>4
      <4> QED BY <4>1, <4>2
    <3>6. j < i - 1 \/ j = i - 1
      BY <3>5
    <3>7. at[j] <= at[i - 1]
      BY <1>1, <3>1, <3>3, <3>6
    <3> QED BY <3>3, <3>4, <3>7
  <2> QED BY <2>2, <2>3
<1>5. Known(at, m, l)
  BY DEF ReadAt
<1> QED BY <1>2, <1>3, <1>4, <1>5 DEF Known

(* The entries e of a file that holds the first k lines, and perhaps one     *)
(* entry more: the first q events, and perhaps one that looks like an event. *)
Holds(e, ls, k) ==
    /\ Len(e) \in {k, k + 1}
    /\ \A l \in 1..k : e[l] = parse_line(ls[l])

More(e, k) == Len(e) = k + 1 /\ e[k + 1].kind = "event"

(* The first q events are in the first k lines.                              *)
Before(at, m, k, q) == q \in 0..m /\ \A i \in 1..m : at[i] <= k <=> i <= q

(* The N events of e, then                                                   *)
Shows(e, at, q, k, N) ==
    /\ N = IF More(e, k) THEN q + 1 ELSE q
    /\ Lists([i \in 1..N |-> IF i <= q THEN at[i] ELSE k + 1], N, EventsIn(e))
    /\ Events(e) = [i \in 1..N |-> IF i <= q THEN e[at[i]] ELSE e[k + 1]]

LEMMA EventsRead ==
  ASSUME NEW m \in Nat, NEW at, NEW ls, Len(ls) \in Nat, ReadAt(at, ls, m),
         NEW k \in 0..Len(ls), NEW q, Before(at, m, k, q),
         NEW e, Holds(e, ls, k)
  PROVE  \E N : Shows(e, at, q, k, N)
<1> DEFINE N == IF More(e, k) THEN q + 1 ELSE q
           p == [i \in 1..N |-> IF i <= q THEN at[i] ELSE k + 1]
<1>0. q \in 0..m /\ \A i \in 1..m : at[i] <= k <=> i <= q
  BY DEF Before
<1>1. k \in Nat /\ q \in Nat /\ N \in Nat /\ (N = q \/ N = q + 1)
  BY <1>0
<1>1a. /\ More(e, k) => N = q + 1
       /\ ~More(e, k) => N = q
  OBVIOUS
<1> HIDE DEF N
<1>2. \A i \in 1..m : at[i] \in 1..Len(ls) /\ at[i] \in Nat /\ i \in 0..m
  BY DEF ReadAt
<1>3. \A i \in 1..q : i \in 1..m /\ at[i] \in 1..k
  BY <1>0, <1>1, <1>2
<1>4. p \in [1..N -> Int]
  BY <1>1, <1>3
<1>5. ASSUME NEW i \in 1..N, NEW j \in 1..N, i < j PROVE p[i] < p[j]
  <2>1. i \in 1..q
    BY <1>1, <1>5
  <2>2. CASE j <= q
    <3>1. j \in 1..q
      BY <1>1, <2>2
    <3>2. p[i] = at[i] /\ p[j] = at[j]
      BY <2>1, <3>1
    <3>3. i \in 0..m /\ j \in 0..m
      BY <1>2, <1>3, <2>1, <3>1
    <3>4. at[i] < at[j]
      BY <1>5, <3>3 DEF ReadAt
    <3> QED BY <3>2, <3>4
  <2>3. CASE ~(j <= q)
    <3>1. p[i] = at[i] /\ p[j] = k + 1 /\ at[i] \in 1..k
      BY <1>3, <2>1, <2>3
    <3> QED BY <1>1, <3>1
  <2> QED BY <2>2, <2>3
<1>6. \A l \in 1..k : e[l].kind = "event" <=> \E i \in 1..q : l = at[i]
  <2> SUFFICES ASSUME NEW l \in 1..k
               PROVE  e[l].kind = "event" <=> \E i \in 1..q : l = at[i]
    OBVIOUS
  <2>1. l \in 1..Len(ls) /\ e[l] = parse_line(ls[l])
    BY <1>1 DEF Holds
  <2>2. e[l].kind = "event" <=> \E i \in 1..m : l = at[i]
    BY <2>1, KindsRead
  <2>3. \A i \in 1..m : l = at[i] => i \in 1..q
    BY <1>0, <1>1
  <2> QED BY <1>3, <2>2, <2>3
<1>7. ASSUME NEW x PROVE x \in EventsIn(e) <=> \E i \in 1..N : x = p[i]
  <2>1. ASSUME x \in EventsIn(e) PROVE \E i \in 1..N : x = p[i]
    <3>1. x \in 1..Len(e) /\ e[x].kind = "event"
      BY <2>1 DEF EventsIn
    <3>2. x \in 1..k \/ (x = k + 1 /\ More(e, k))
      BY <1>1, <3>1 DEF Holds, More
    <3>3. CASE x \in 1..k
      <4>1. PICK i \in 1..q : x = at[i]
        BY <1>6, <3>1, <3>3
      <4>2. i \in 1..N /\ p[i] = at[i]
        BY <1>1
      <4> QED BY <4>1, <4>2
    <3>4. CASE x = k + 1 /\ More(e, k)
      <4>1. N = q + 1 /\ N \in 1..N
        BY <1>1, <1>1a, <3>4
      <4>2. p[N] = k + 1
        BY <1>1, <4>1
      <4> HIDE DEF p
      <4> QED BY <3>4, <4>1, <4>2
    <3> QED BY <3>2, <3>3, <3>4
  <2>2. ASSUME NEW i \in 1..N, x = p[i] PROVE x \in EventsIn(e)
    <3>1. CASE i <= q
      <4>1. i \in 1..q /\ p[i] = at[i]
        BY <1>1, <3>1
      <4>2. x = at[i] /\ x \in 1..k
        BY <1>3, <2>2, <4>1
      <4>3. e[x].kind = "event"
        BY <1>6, <4>1, <4>2
      <4>4. x \in 1..Len(e)
        BY <1>1, <4>2 DEF Holds
      <4> QED BY <4>3, <4>4 DEF EventsIn
    <3>2. CASE ~(i <= q)
      <4>1. More(e, k) /\ x = k + 1
        BY <1>1, <1>1a, <2>2, <3>2
      <4> QED BY <1>1, <4>1 DEF More, EventsIn
    <3> QED BY <3>1, <3>2
  <2> QED BY <2>1, <2>2
<1>8. Lists(p, N, EventsIn(e))
  <2> HIDE DEF p
  <2> QED BY <1>4, <1>5, <1>7 DEF Lists
<1>9. Events(e) = [i \in 1..N |-> e[p[i]]]
  <2> HIDE DEF p
  <2> QED BY <1>1, <1>8, SelectIs DEF Events
<1>10. [i \in 1..N |-> e[p[i]]] = [i \in 1..N |-> IF i <= q THEN e[at[i]] ELSE e[k + 1]]
  OBVIOUS
<1>11. Shows(e, at, q, k, N)
  BY <1>8, <1>9, <1>10 DEF Shows, N
<1> QED BY <1>11

(* Reading stops at a bad line, and only one that was cut can be bad.        *)
LEMMA FileRead ==
  ASSUME NEW m \in Nat, NEW at, NEW ls, Len(ls) \in Nat, ReadAt(at, ls, m),
         NEW k \in 0..Len(ls), NEW f, Len(f) \in {k, k + 1}, \A l \in 1..k : f[l] = ls[l]
  PROVE  /\ Holds(parse(f), ls, k)
         /\ Len(parse(f)) = k + 1 =>
               Len(f) = k + 1 /\ parse(f)[k + 1] = parse_line(f[k + 1])
<1> DEFINE L == Len(f)
           all == [i \in 1..L |-> parse_line(f[i])]
           X == {parse_line(f[i]) : i \in 1..L}
           bad == {i \in 1..Len(all) : all[i].kind = "bad"}
<1>1. L \in Nat /\ k \in Nat /\ (L = k \/ L = k + 1)
  OBVIOUS
<1>2. all \in [1..L -> X]
  OBVIOUS
<1>3. \A i \in 1..L : all[i] = parse_line(f[i])
  OBVIOUS
<1>4. parse(f) = IF bad = {} THEN all ELSE SubSeq(all, 1, Min(bad) - 1)
  BY DEF parse, BeforeBad
<1> HIDE DEF all, X
<1>5. all \in Seq(X) /\ Len(all) = L
  BY <1>1, <1>2, AsSeq
<1>6. \A i \in 1..k : all[i] = parse_line(ls[i]) /\ all[i].kind # "bad"
  <2> SUFFICES ASSUME NEW i \in 1..k
               PROVE  all[i] = parse_line(ls[i]) /\ all[i].kind # "bad"
    OBVIOUS
  <2>1. i \in 1..L /\ i \in 1..Len(ls)
    BY <1>1
  <2>2. all[i] = parse_line(ls[i])
    BY <1>3, <2>1
  <2>3. parse_line(ls[i]).kind # "bad"
    BY <2>1, KindsRead
  <2> QED BY <2>2, <2>3
<1> HIDE DEF L
<1>7. CASE bad = {}
  <2>1. parse(f) = all
    BY <1>4, <1>7
  <2>2. Len(all) = k + 1 => L = k + 1 /\ all[k + 1] = parse_line(f[k + 1])
    BY <1>1, <1>3, <1>5
  <2> QED BY <1>1, <1>5, <1>6, <2>1, <2>2 DEF Holds, L
<1>8. CASE bad # {}
  <2>1. \A i \in bad : i = k + 1
    BY <1>1, <1>5, <1>6
  <2>2. bad = {k + 1} /\ L = k + 1
    BY <1>1, <1>5, <1>8, <2>1
  <2>3. Min(bad) = k + 1
    <3>1. \A x \in {k + 1} : x = k + 1
      OBVIOUS
    <3> HIDE DEF bad
    <3> QED BY <1>1, <2>2, <3>1 DEF Min
  <2> HIDE DEF bad
  <2>4. parse(f) = SubSeq(all, 1, k)
    <3>1. (k + 1) - 1 = k
      BY <1>1
    <3> QED BY <1>4, <1>8, <2>3, <3>1
  <2>5. Len(SubSeq(all, 1, k)) = k /\ \A i \in 1..k : SubSeq(all, 1, k)[i] = all[i]
    BY <1>1, <1>5, <2>2
  <2>6. Len(parse(f)) = k /\ \A i \in 1..k : parse(f)[i] = all[i]
    BY <2>4, <2>5
  <2>7. Len(parse(f)) # k + 1
    BY <1>1, <2>6
  <2> QED BY <1>6, <2>6, <2>7 DEF Holds
<1> QED BY <1>7, <1>8

(* Every line of a capture that was closed is read, each as what it was      *)
(* written for.                                                              *)
LEMMA WholeRead ==
  ASSUME RecInv, apc = "closed", ~failed
  PROVE  \E at :
           /\ ReadAt(at, lines, n) /\ Holds(parse(file), lines, Len(lines))
           /\ Len(parse(file)) = Len(lines)
           /\ Lists([i \in 1..n |-> at[i]], n, EventsIn(parse(file)))
           /\ Events(parse(file)) = [i \in 1..n |-> parse(file)[at[i]]]
<1>1. file = lines /\ n = Len(happened) /\ n \in Nat /\ Len(lines) \in Nat
  BY JoinSeq DEF RecInv, RecTypeOK, FileInv
<1>2. PICK at : Places(at, lines, happened, n)
  BY DEF RecInv, Written
<1>3. ReadAt(at, lines, n)
  <2>1. n \in 0..n
    BY <1>1
  <2> QED BY <1>1, <1>2, <2>1, LinesRead
<1> DEFINE k == Len(lines)
           e == parse(file)
<1>4. k \in 0..Len(lines) /\ Len(file) \in {k, k + 1} /\ \A l \in 1..k : file[l] = lines[l]
  BY <1>1
<1>5. Holds(e, lines, k) /\ Len(e) = k
  <2>1. Holds(e, lines, k) /\ (Len(e) = k + 1 => Len(file) = k + 1)
    BY <1>1, <1>3, <1>4, FileRead
  <2>2. Len(e) \in {k, k + 1}
    BY <2>1 DEF Holds
  <2> HIDE DEF e
  <2> QED BY <1>1, <2>1, <2>2
<1> HIDE DEF e
<1>6. ~More(e, k)
  BY <1>1, <1>5 DEF More
<1>7. Before(at, n, k, n)
  BY <1>1, <1>3 DEF ReadAt, Before
<1>8. /\ Lists([i \in 1..n |-> IF i <= n THEN at[i] ELSE k + 1], n, EventsIn(e))
      /\ Events(e) = [i \in 1..n |-> IF i <= n THEN e[at[i]] ELSE e[k + 1]]
  <2>1. PICK N : Shows(e, at, n, k, N)
    <3>1. k \in 0..Len(lines) /\ Holds(e, lines, k) /\ n \in Nat /\ Len(lines) \in Nat
      BY <1>1, <1>4, <1>5
    <3> HIDE DEF k
    <3> QED BY <1>3, <1>7, <3>1, EventsRead
  <2>2. N = n
    BY <1>6, <2>1 DEF Shows
  <2> QED BY <2>1, <2>2 DEF Shows
<1>9. /\ [i \in 1..n |-> IF i <= n THEN at[i] ELSE k + 1] = [i \in 1..n |-> at[i]]
      /\ [i \in 1..n |-> IF i <= n THEN e[at[i]] ELSE e[k + 1]] = [i \in 1..n |-> e[at[i]]]
  BY <1>1
<1> QED BY <1>3, <1>5, <1>8, <1>9 DEF e, k

(* A capture that was closed reads back as exactly what the hooks are for,   *)
(* in order, for all events that can be written down (main.cpp:100,          *)
(* events_file.h:12).                                                        *)
THEOREM ClosedCapturesReadBack == RecSpec => []ReadsBackAll
<1>1. RecInv => ReadsBackAll
  <2> SUFFICES ASSUME RecInv, apc = "closed", ~failed
               PROVE  ReadsBack(Events(parse(file)))
    BY DEF ReadsBackAll
  <2> DEFINE e == parse(file)
             read == Events(e)
  <2>1. PICK at : /\ ReadAt(at, lines, n) /\ Holds(e, lines, Len(lines))
                  /\ read = [i \in 1..n |-> e[at[i]]]
    BY WholeRead
  <2>2. n = Len(happened) /\ n \in Nat /\ Len(lines) \in Nat
    BY JoinSeq DEF RecInv, RecTypeOK
  <2>3. ASSUME NEW i \in 1..n
        PROVE  e[at[i]] = [kind |-> "event", ev |-> Normal(happened[i].ev)]
    <3>1. at[i] \in 1..Len(lines)
      BY <2>1, <2>2 DEF ReadAt
    <3>2. e[at[i]] = parse_line(lines[at[i]])
      BY <2>1, <3>1 DEF Holds
    <3> QED BY <2>1, <3>2 DEF ReadAt
  <2> HIDE DEF e, read
  <2>4. Len(read) = n
    <3> DEFINE S == {e[at[i]] : i \in 1..n}
    <3>1. read \in [1..n -> S]
      BY <2>1
    <3> HIDE DEF S
    <3> QED BY <2>2, <3>1, AsSeq
  <2>5. ASSUME NEW i \in 1..n
        PROVE  Matches(read, i)
    <3>1. read[i] = [kind |-> "event", ev |-> Normal(happened[i].ev)]
      BY <2>1, <2>3
    <3> QED BY <3>1 DEF Matches
  <2>6. ReadsBack(read)
    BY <2>2, <2>4, <2>5 DEF ReadsBack
  <2> QED BY <2>6 DEF read, e
<1> QED BY <1>1, RecordingInvariance, PTL

-----------------------------------------------------------------------------
(* A file that was cut.                                                      *)

(* The largest multiple up to a number                                       *)
LEMMA LargestMultiple ==
  ASSUME NEW a \in Nat, NEW m \in Nat \ {0}
  PROVE  a - (a % m) \in 0..a /\ (a - (a % m)) % m = 0
<1> DEFINE x == a \div m
           r == a % m
           b == a - r
           y == b \div m
           s == b % m
<1>0. ASSUME NEW d \in Nat
      PROVE  d % m \in 0..(m - 1) /\ d \div m \in Int /\ d = (d \div m) * m + (d % m)
  OBVIOUS
<1>1. r \in 0..(m - 1) /\ x \in Int /\ a = x * m + r
  BY <1>0
<1>2. x * m <= a /\ x \in Nat
  <2>1. x * m <= a
    BY DivBounds
  <2>2. x \in Nat
    BY DivMonotone
  <2> QED BY <2>1, <2>2
<1> HIDE DEF x, r
<1>3. x * m \in Nat /\ b = x * m /\ b \in 0..a
  BY <1>1, <1>2
<1>4. s \in 0..(m - 1) /\ y \in Int /\ b = y * m + s
  <2>1. b \in Nat
    BY <1>3
  <2> HIDE DEF b
  <2> QED BY <1>0, <2>1
<1> HIDE DEF b, y, s
<1>5. (x - y) * m = s
  <2>1. (x - y) * m = x * m - y * m /\ y * m \in Int
    BY <1>2, <1>4
  <2>2. x * m = y * m + s
    BY <1>3, <1>4
  <2> DEFINE u == x * m
             v == y * m
  <2>3. u = v + s /\ u \in Int /\ v \in Int /\ s \in Int
    BY <1>3, <1>4, <2>1, <2>2
  <2> HIDE DEF u, v
  <2>4. u - v = s
    BY <2>3
  <2> QED BY <2>1, <2>4 DEF u, v
<1>6. x = y
  <2> DEFINE z == x - y
  <2>1. z \in Int /\ z * m = s
    BY <1>2, <1>4, <1>5
  <2> HIDE DEF z
  <2>2. ~(z >= 1)
    <3> SUFFICES ASSUME z >= 1 PROVE FALSE
      OBVIOUS
    <3>1. z * m >= m
      BY <2>1
    <3> QED BY <1>4, <2>1, <3>1
  <2>3. ~(z <= -1)
    <3> SUFFICES ASSUME z <= -1 PROVE FALSE
      OBVIOUS
    <3>1. z * m <= -m
      BY <2>1
    <3> QED BY <1>4, <2>1, <3>1
  <2>4. z = 0
    BY <2>1, <2>2, <2>3
  <2> QED BY <1>2, <1>4, <2>4 DEF z
<1>7. s = 0
  BY <1>4, <1>5, <1>6
<1> QED BY <1>3, <1>7 DEF b, r, s

LEMMA SomeBefore ==
  ASSUME NEW m \in Nat, NEW at, NEW ls, Len(ls) \in Nat, ReadAt(at, ls, m),
         NEW k \in 0..Len(ls)
  PROVE  \E q : Before(at, m, k, q)
<1> DEFINE T == {j \in Nat : j \in 0..m =>
                    \E q \in 0..j : \A i \in 1..j : at[i] <= k <=> i <= q}
<1>1. \A i \in 0..m : at[i] \in Nat
  BY DEF ReadAt
<1>2. \A i, j \in 0..m : i < j => at[i] < at[j]
  BY DEF ReadAt
<1>3. 0 \in T
  <2>1. 0 \in 0..0 /\ \A i \in 1..0 : at[i] <= k <=> i <= 0
    OBVIOUS
  <2> QED BY <2>1
<1>4. ASSUME NEW j \in T PROVE j + 1 \in T
  <2> SUFFICES ASSUME j + 1 \in 0..m
               PROVE  \E q \in 0..(j + 1) : \A i \in 1..(j + 1) : at[i] <= k <=> i <= q
    OBVIOUS
  <2>1. j \in Nat /\ j \in 0..m /\ k \in Nat
    OBVIOUS
  <2>2. PICK q \in 0..j : \A i \in 1..j : at[i] <= k <=> i <= q
    BY <2>1
  <2>3. CASE at[j + 1] <= k
    <3>1. ASSUME NEW i \in 1..(j + 1) PROVE at[i] <= k
      <4>1. i \in 0..m /\ j + 1 \in 0..m /\ (i < j + 1 \/ i = j + 1)
        BY <2>1
      <4>2. at[i] \in Nat /\ at[j + 1] \in Nat /\ (at[i] < at[j + 1] \/ at[i] = at[j + 1])
        BY <1>1, <1>2, <4>1
      <4> QED BY <2>1, <2>3, <4>2
    <3>2. j + 1 \in 0..(j + 1) /\ \A i \in 1..(j + 1) : i <= j + 1
      BY <2>1
    <3> QED BY <3>1, <3>2
  <2>4. CASE ~(at[j + 1] <= k)
    <3>1. ASSUME NEW i \in 1..(j + 1) PROVE at[i] <= k <=> i <= q
      <4>1. CASE i = j + 1
        BY <2>1, <2>4, <4>1
      <4>2. CASE i \in 1..j
        BY <2>2, <4>2
      <4> QED BY <2>1, <4>1, <4>2
    <3>2. q \in 0..(j + 1)
      BY <2>1
    <3> QED BY <3>1, <3>2
  <2> QED BY <2>3, <2>4
<1>5. T = Nat
  <2>1. T \subseteq Nat
    OBVIOUS
  <2> HIDE DEF T
  <2> QED BY <1>3, <1>4, <2>1, SetInduction
<1>6. PICK q \in 0..m : \A i \in 1..m : at[i] <= k <=> i <= q
  <2>1. m \in T
    <3> HIDE DEF T
    <3> QED BY <1>5
  <2>2. m \in 0..m
    OBVIOUS
  <2> QED BY <2>1, <2>2
<1> QED BY <1>6 DEF Before

LEMMA Shortened ==
  ASSUME NEW s, NEW c \in Nat
  PROVE  Len(SubSeq(s, 1, c)) = c /\ (c > 0 => SubSeq(s, 1, c)[1] = s[1])
<1> DEFINE S == {s[i] : i \in 1..c}
           w == SubSeq(s, 1, c)
<1>1. 1 \in Int /\ c \in Int /\ \A i \in 1..c : s[i] \in S
  OBVIOUS
<1> HIDE DEF S
<1>2. /\ Len(w) = IF 1 <= c THEN c - 1 + 1 ELSE 0
      /\ \A i \in 1..(c - 1 + 1) : w[i] = s[1 + i - 1]
  BY <1>1, SubSeqProperties
<1> HIDE DEF w
<1>3. Len(w) = c
  BY <1>2
<1>4. ASSUME c > 0 PROVE w[1] = s[1]
  <2>1. 1 \in 1..(c - 1 + 1) /\ 1 + 1 - 1 = 1
    BY <1>4
  <2> QED BY <1>2, <2>1
<1> QED BY <1>3, <1>4 DEF w

(* A cut line that reads as an event is not the header, and the file is not  *)
(* a beginning of the lines.                                                 *)
LEMMA CutEvent ==
  ASSUME NEW ls, IsSeq(ls), ls[1] = Header, NEW k, NEW f, CutAt(f, ls, k), Len(f) = k + 1,
         parse_line(f[k + 1]).kind = "event"
  PROVE  k \in 1..(Len(ls) - 1) /\ f # SubSeq(ls, 1, Len(f))
<1>1. Len(ls) \in Nat /\ k \in 0..Len(ls) /\ k \in Nat
  BY JoinSeq DEF CutAt
<1>2. k < Len(ls) /\ \E c \in 0..(Len(ls[k + 1]) - 1) : f[k + 1] = SubSeq(ls[k + 1], 1, c)
  BY <1>1 DEF CutAt
<1>3. PICK c \in 0..(Len(ls[k + 1]) - 1) : f[k + 1] = SubSeq(ls[k + 1], 1, c)
  BY <1>2
<1>4. /\ Len(f[k + 1]) = c /\ c \in Nat
      /\ c > 0 => f[k + 1][1] = ls[k + 1][1]
  BY <1>3, Shortened
<1>5. k # 0
  <2> SUFFICES ASSUME k = 0 PROVE FALSE
    OBVIOUS
  <2>1. ls[k + 1] = Header /\ Header[1] = "#"
    BY DEF Header
  <2> DEFINE g == f[k + 1]
  <2>2. Len(g) \in Nat /\ (Len(g) = 0 \/ g[1] = "#")
    BY <1>4, <2>1
  <2> HIDE DEF g
  <2>3. parse_line(g) \in [kind : {"directive", "none"}]
    BY <2>2, CommentLine
  <2>4. parse_line(g).kind \in {"directive", "none"}
    BY <2>3
  <2> QED BY <2>4 DEF g
<1>6. ASSUME f = SubSeq(ls, 1, Len(f)) PROVE FALSE
  <2>1. PICK S : ls \in Seq(S)
    BY DEF IsSeq
  <2>2. SubSeq(ls, 1, k + 1)[k + 1] = ls[k + 1]
    <3>1. k + 1 \in 1..Len(ls)
      BY <1>1, <1>2
    <3> QED BY <1>1, <2>1, <3>1
  <2>3. f[k + 1] = ls[k + 1]
    BY <1>6, <2>2
  <2>4. Len(ls[k + 1]) = c
    BY <1>4, <2>3
  <2> QED BY <1>4, <2>4
<1> QED BY <1>1, <1>2, <1>5, <1>6

(* What is read of a file that was cut: the first q events, and perhaps what *)
(* is left of the next.                                                      *)
LEMMA CutRead ==
  ASSUME RecInv, NEW m \in 0..n, NEW at, Places(at, lines, happened, m),
         NEW k, CutAt(file, lines, k)
  PROVE  \E q, N : /\ Before(at, m, k, q) /\ N \in q..m
                   /\ Len(Events(parse(file))) = N
                   /\ \A i \in 1..q : Matches(Events(parse(file)), i)
                   /\ N = q \/ (N = q + 1 /\ file # SubSeq(lines, 1, Len(file)))
<1> DEFINE e == parse(file)
           read == Events(e)
<1>1. n \in Nat /\ m \in Nat /\ Len(lines) \in Nat /\ IsSeq(lines)
  BY JoinSeq DEF RecInv, RecTypeOK
<1>2. ReadAt(at, lines, m)
  BY <1>1, LinesRead
<1>3. /\ k \in 0..Len(lines) /\ Len(file) \in {k, k + 1}
      /\ \A l \in 1..k : file[l] = lines[l]
  BY DEF CutAt
<1>4. /\ Holds(e, lines, k)
      /\ Len(e) = k + 1 => Len(file) = k + 1 /\ e[k + 1] = parse_line(file[k + 1])
  BY <1>1, <1>2, <1>3, FileRead
<1>5. PICK q : Before(at, m, k, q)
  BY <1>1, <1>2, <1>3, SomeBefore
<1> HIDE DEF e
<1>6. PICK N : Shows(e, at, q, k, N)
  <2>1. k \in 0..Len(lines)
    BY <1>3
  <2>2. Holds(e, lines, k)
    BY <1>4
  <2> QED BY <1>1, <1>2, <1>5, <2>1, <2>2, EventsRead
<1>7. q \in 0..m /\ q \in Nat /\ \A i \in 1..m : at[i] <= k <=> i <= q
  BY <1>1, <1>5 DEF Before
<1>8. \/ ~More(e, k) /\ N = q
      \/ More(e, k) /\ N = q + 1
  BY <1>6 DEF Shows
<1>9. ASSUME More(e, k)
      PROVE  q + 1 <= m /\ file # SubSeq(lines, 1, Len(file))
  <2>1. Len(file) = k + 1 /\ parse_line(file[k + 1]).kind = "event"
    BY <1>4, <1>9 DEF More
  <2>2. lines[1] = Header
    BY DEF Places
  <2>3. k \in 1..(Len(lines) - 1) /\ file # SubSeq(lines, 1, Len(file))
    BY <1>1, <2>1, <2>2, CutEvent
  <2>4. at[0] = 1 /\ at[m] = Len(lines)
    BY <1>2 DEF ReadAt
  <2>5. q # m
    <3> SUFFICES ASSUME q = m PROVE FALSE
      OBVIOUS
    <3>1. CASE m = 0
      BY <1>1, <2>3, <2>4, <3>1
    <3>2. CASE m # 0
      <4>1. m \in 1..m
        BY <1>1, <3>2
      <4>2. at[m] <= k
        BY <1>7, <4>1
      <4> QED BY <1>1, <2>3, <2>4, <4>2
    <3> QED BY <3>1, <3>2
  <2> QED BY <1>1, <1>7, <2>3, <2>5
<1>10. N \in q..m /\ N \in Nat
  BY <1>1, <1>7, <1>8, <1>9
<1>11. read = [i \in 1..N |-> IF i <= q THEN e[at[i]] ELSE e[k + 1]]
  BY <1>6 DEF Shows
<1> HIDE DEF read
<1>12. Len(read) = N
  <2> DEFINE S == {e[at[i]] : i \in 1..N} \cup {e[k + 1]}
  <2>1. read \in [1..N -> S]
    BY <1>11
  <2> HIDE DEF S
  <2> QED BY <1>10, <2>1, AsSeq
<1>13. ASSUME NEW i \in 1..q PROVE Matches(read, i)
  <2>1. i \in 1..N /\ i \in 1..m /\ i <= q
    BY <1>1, <1>7, <1>10
  <2>2. read[i] = e[at[i]]
    BY <1>11, <2>1
  <2>3. at[i] \in 1..Len(lines) /\ at[i] <= k
    BY <1>1, <1>2, <1>7, <2>1 DEF ReadAt
  <2>4. at[i] \in 1..k
    BY <1>1, <1>3, <2>3
  <2>5. e[at[i]] = parse_line(lines[at[i]])
    BY <1>4, <2>4 DEF Holds
  <2>6. read[i] = [kind |-> "event", ev |-> Normal(happened[i].ev)]
    BY <1>2, <2>1, <2>2, <2>5 DEF ReadAt
  <2> QED BY <2>6 DEF Matches
<1>14. N = q \/ (N = q + 1 /\ file # SubSeq(lines, 1, Len(file)))
  BY <1>8, <1>9
<1> QED BY <1>5, <1>10, <1>12, <1>13, <1>14 DEF read, e

-----------------------------------------------------------------------------
(* A file of which only the beginning is known.                              *)

(* The entries e of a file that begins with the first k lines.               *)
Starts(e, ls, k) ==
    /\ Len(e) \in Nat /\ k <= Len(e)
    /\ \A l \in 1..k : e[l] = parse_line(ls[l])

(* A set of numbers that is not empty has a smallest element.                *)
LEMMA SmallestIn ==
  ASSUME NEW S, S \subseteq Nat, S # {}
  PROVE  Min(S) \in S
<1>1. PICK x \in S : \A y \in S : ~(<<y, x>> \in OpToRel(<, Nat))
  BY NatLessThanWellFounded, WFMin, Zenon
<1>2. \A y \in S : ~(y < x)
  BY <1>1 DEF OpToRel
<1>3. \A y \in S : x <= y
  BY <1>2
<1>4. \E z \in S : \A y \in S : z <= y
  BY <1>3
<1> QED BY <1>4 DEF Min

(* Reading stops at a bad line, and none of the first k is one.              *)
LEMMA StartRead ==
  ASSUME NEW m \in Nat, NEW at, NEW ls, Len(ls) \in Nat, ReadAt(at, ls, m),
         NEW k \in 0..Len(ls), NEW f, Begins(f, ls, k)
  PROVE  Starts(parse(f), ls, k)
<1> DEFINE L == Len(f)
           all == [i \in 1..L |-> parse_line(f[i])]
           X == {parse_line(f[i]) : i \in 1..L}
           bad == {i \in 1..Len(all) : all[i].kind = "bad"}
<1>1. L \in Nat /\ k \in Nat /\ k <= L /\ \A i \in 1..k : f[i] = ls[i]
  BY DEF Begins
<1>2. all \in [1..L -> X]
  OBVIOUS
<1>3. \A i \in 1..L : all[i] = parse_line(f[i])
  OBVIOUS
<1>4. parse(f) = IF bad = {} THEN all ELSE SubSeq(all, 1, Min(bad) - 1)
  BY DEF parse, BeforeBad
<1> HIDE DEF all, X
<1>5. all \in Seq(X) /\ Len(all) = L
  BY <1>1, <1>2, AsSeq
<1>6. \A i \in 1..k : all[i] = parse_line(ls[i]) /\ all[i].kind # "bad"
  <2> SUFFICES ASSUME NEW i \in 1..k
               PROVE  all[i] = parse_line(ls[i]) /\ all[i].kind # "bad"
    OBVIOUS
  <2>1. i \in 1..L /\ i \in 1..Len(ls)
    BY <1>1
  <2>2. all[i] = parse_line(ls[i])
    BY <1>1, <1>3, <2>1
  <2>3. parse_line(ls[i]).kind # "bad"
    BY <2>1, KindsRead
  <2> QED BY <2>2, <2>3
<1> HIDE DEF L
<1>7. CASE bad = {}
  <2>1. parse(f) = all
    BY <1>4, <1>7
  <2> QED BY <1>1, <1>5, <1>6, <2>1 DEF Starts
<1>8. CASE bad # {}
  <2> DEFINE b == Min(bad)
  <2>1. b \in bad
    <3>1. bad \subseteq Nat
      BY <1>1, <1>5
    <3> HIDE DEF bad
    <3> QED BY <1>8, <3>1, SmallestIn
  <2>2. b \in 1..L /\ b \notin 1..k
    BY <1>5, <1>6, <2>1
  <2> HIDE DEF b, bad
  <2> DEFINE c == b - 1
  <2>3. c \in Nat /\ c <= L /\ k <= c
    BY <1>1, <2>2
  <2>4. parse(f) = SubSeq(all, 1, c)
    BY <1>4, <1>8 DEF b
  <2> HIDE DEF c
  <2>5. Len(SubSeq(all, 1, c)) = c /\ \A i \in 1..c : SubSeq(all, 1, c)[i] = all[i]
    BY <1>1, <1>5, <2>3
  <2>6. \A i \in 1..k : i \in 1..c
    BY <1>1, <2>3
  <2> QED BY <1>6, <2>3, <2>4, <2>5, <2>6 DEF Starts
<1> QED BY <1>7, <1>8

(* at[1], ..., at[q] are the elements of S up to k, in order.                *)
ListsUpTo(at, q, k, S) ==
    /\ \A i \in 1..q : at[i] \in Nat
    /\ \A i, j \in 1..q : i < j => at[i] < at[j]
    /\ \A x : x \in S /\ x <= k <=> \E i \in 1..q : x = at[i]

(* They are the first of all elements.                                       *)
LEMMA FirstListed ==
  ASSUME NEW N \in Nat, NEW q \in Nat, NEW k \in Nat, NEW p, NEW S, NEW at,
         Lists(p, N, S), ListsUpTo(at, q, k, S)
  PROVE  q <= N /\ \A i \in 1..q : p[i] = at[i]
<1>1. /\ \A i \in 1..N : p[i] \in Int /\ p[i] \in S
      /\ \A i, j \in 1..N : i < j => p[i] < p[j]
      /\ \A x : x \in S <=> \E i \in 1..N : x = p[i]
  BY DEF Lists
<1> USE DEF ListsUpTo
<1> DEFINE Done(j) == j <= N /\ \A i \in 1..j : p[i] = at[i]
           T == {j \in Nat : j <= q => Done(j)}
<1>2. 0 \in T
  OBVIOUS
<1>3. ASSUME NEW j \in T PROVE j + 1 \in T
  <2> SUFFICES ASSUME j + 1 <= q PROVE Done(j + 1)
    OBVIOUS
  <2>1. j \in Nat /\ j <= N /\ (\A i \in 1..j : p[i] = at[i]) /\ j + 1 \in 1..q
    OBVIOUS
  <2>2. at[j + 1] \in S /\ at[j + 1] <= k /\ at[j + 1] \in Nat
    BY <2>1
  <2>3. PICK i \in 1..N : at[j + 1] = p[i]
    BY <1>1, <2>2
  <2>4. j < i
    <3> SUFFICES ASSUME i <= j PROVE FALSE
      BY <2>1
    <3>1. i \in 1..j /\ i \in 1..q /\ i < j + 1
      BY <2>1
    <3>2. p[i] = at[i] /\ at[i] < at[j + 1] /\ at[i] \in Nat
      BY <2>1, <3>1
    <3> QED BY <2>2, <2>3, <3>2
  <2>5. j + 1 \in 1..N /\ (j + 1 < i \/ j + 1 = i)
    BY <2>1, <2>4
  <2>6. p[j + 1] \in Int /\ p[j + 1] \in S /\ p[j + 1] <= at[j + 1]
    BY <1>1, <2>2, <2>3, <2>5
  <2>7. p[j + 1] <= k
    BY <2>2, <2>6
  <2>8. PICK t \in 1..q : p[j + 1] = at[t]
    BY <2>6, <2>7
  <2>9. j < t
    <3> SUFFICES ASSUME t <= j PROVE FALSE
      BY <2>1
    <3>1. t \in 1..j /\ t \in 1..N /\ t < j + 1
      BY <2>1
    <3>2. p[t] = p[j + 1] /\ p[t] < p[j + 1]
      BY <1>1, <2>1, <2>5, <2>8, <3>1
    <3> QED BY <2>6, <3>2
  <2>10. at[j + 1] <= at[t] /\ at[t] \in Nat
    <3>1. j + 1 < t \/ j + 1 = t
      BY <2>1, <2>9
    <3> QED BY <2>1, <2>2, <3>1
  <2>11. p[j + 1] = at[j + 1]
    BY <2>2, <2>6, <2>8, <2>10
  <2>12. ASSUME NEW x \in 1..(j + 1) PROVE p[x] = at[x]
    <3>1. x \in 1..j \/ x = j + 1
      BY <2>1
    <3> QED BY <2>1, <2>11, <3>1
  <2>13. j + 1 <= N
    BY <2>1, <2>5
  <2> QED BY <2>12, <2>13
<1>4. T \subseteq Nat
  OBVIOUS
<1> HIDE DEF T
<1>5. T = Nat
  BY <1>2, <1>3, <1>4, SetInduction
<1>6. Done(q)
  BY <1>5 DEF T
<1> QED BY <1>6

(* The events in the first k lines are the first to be read.                 *)
LEMMA FirstEventsRead ==
  ASSUME NEW m \in Nat, NEW at, NEW ls, Len(ls) \in Nat, ReadAt(at, ls, m),
         NEW k \in 0..Len(ls), NEW q, Before(at, m, k, q),
         NEW e, Starts(e, ls, k)
  PROVE  /\ Len(Events(e)) \in Nat /\ q <= Len(Events(e))
         /\ \A i \in 1..q : Events(e)[i] = [kind |-> "event", ev |-> Normal(happened[i].ev)]
<1>1. /\ q \in Nat /\ q <= m /\ k \in Nat /\ k <= Len(ls)
      /\ \A i \in 1..m : at[i] <= k <=> i <= q
  BY DEF Before
<1>2. \A i \in 1..m : at[i] \in 1..Len(ls) /\ at[i] \in Nat /\ i \in 0..m
  BY DEF ReadAt
<1>3. \A i \in 1..q : i \in 1..m /\ at[i] \in 1..k /\ at[i] \in Nat
  BY <1>1, <1>2
<1>4. \A i, j \in 1..q : i < j => at[i] < at[j]
  BY <1>2, <1>3 DEF ReadAt
<1>5. Len(e) \in Nat /\ k <= Len(e) /\ \A l \in 1..k : e[l] = parse_line(ls[l])
  BY DEF Starts
<1> DEFINE S == EventsIn(e)
<1>6. S \in SUBSET (1..Len(e)) /\ \A x : x \in S <=> x \in 1..Len(e) /\ e[x].kind = "event"
  BY DEF EventsIn
<1> HIDE DEF S
<1>7. PICK N \in 0..Len(e) : \E p : Lists(p, N, S)
  BY <1>5, <1>6, Enumerated
<1>8. PICK p : Lists(p, N, S)
  BY <1>7
<1>9. N \in Nat
  BY <1>5
<1>10. \A x : x \in S /\ x <= k <=> \E i \in 1..q : x = at[i]
  <2>1. ASSUME NEW x \in 1..k PROVE x \in S <=> \E i \in 1..q : x = at[i]
    <3>1. x \in 1..Len(ls) /\ x \in 1..Len(e)
      BY <1>1, <1>5
    <3>2. e[x] = parse_line(ls[x])
      BY <1>5
    <3>3. e[x].kind = "event" <=> \E i \in 1..m : x = at[i]
      BY <3>1, <3>2, KindsRead
    <3>4. \A i \in 1..m : x = at[i] => i \in 1..q
      BY <1>1
    <3> QED BY <1>3, <1>6, <3>1, <3>3, <3>4
  <2>2. ASSUME NEW x, x \in S, x <= k PROVE x \in 1..k
    BY <1>1, <1>6, <2>2
  <2>3. ASSUME NEW x, NEW i \in 1..q, x = at[i] PROVE x \in 1..k /\ x <= k
    BY <1>1, <1>3, <2>3
  <2> QED BY <2>1, <2>2, <2>3
<1>11. q <= N /\ \A i \in 1..q : p[i] = at[i]
  <2>1. ListsUpTo(at, q, k, S)
    BY <1>3, <1>4, <1>10 DEF ListsUpTo
  <2> QED BY <1>1, <1>8, <1>9, <2>1, FirstListed
<1> DEFINE read == Events(e)
<1>12. read = [i \in 1..N |-> e[p[i]]]
  BY <1>8, <1>9, SelectIs DEF Events, S
<1> HIDE DEF read
<1>13. Len(read) = N
  <2> DEFINE R == {e[p[i]] : i \in 1..N}
  <2>1. read \in [1..N -> R]
    BY <1>12
  <2> HIDE DEF R
  <2> QED BY <1>9, <2>1, AsSeq
<1>14. ASSUME NEW i \in 1..q
       PROVE  read[i] = [kind |-> "event", ev |-> Normal(happened[i].ev)]
  <2>1. i \in 1..N /\ i \in 1..m /\ at[i] \in 1..k
    BY <1>1, <1>3, <1>9, <1>11
  <2>2. read[i] = e[at[i]]
    BY <1>11, <1>12, <2>1
  <2>3. e[at[i]] = parse_line(ls[at[i]])
    BY <1>5, <2>1
  <2> QED BY <2>1, <2>2, <2>3 DEF ReadAt
<1> QED BY <1>9, <1>11, <1>13, <1>14 DEF read

(* Whatever is behind them, the events that were flushed are read.           *)
LEMMA FlushedIsRead ==
  ASSUME RecInv, apc \in {"closed", "crashed"}
  PROVE  KeepsFlushed(Events(parse(file)))
<1> DEFINE read == Events(parse(file))
           j == wrote - (wrote % FlushEvery)
<1>1. /\ n \in Nat /\ Len(lines) \in Nat /\ flushed \in 0..Len(lines) /\ wrote \in 0..n
  BY JoinSeq DEF RecInv, RecTypeOK
<1>2. PICK m \in 0..n : \E at : /\ Places(at, lines, happened, m)
                                /\ wrote <= m /\ Kept(at, wrote, flushed)
  BY DEF RecInv, Written
<1>3. PICK at : /\ Places(at, lines, happened, m)
                /\ wrote <= m /\ Kept(at, wrote, flushed)
  BY <1>2
<1>4. ReadAt(at, lines, m) /\ m \in Nat
  BY <1>1, <1>3, LinesRead
<1>5. Starts(parse(file), lines, flushed)
  <2>1. Begins(file, lines, flushed)
    BY DEF RecInv, FileInv
  <2> QED BY <1>1, <1>4, <2>1, StartRead
<1>6. PICK q : Before(at, m, flushed, q)
  BY <1>1, <1>4, SomeBefore
<1>7. /\ Len(read) \in Nat /\ q <= Len(read)
      /\ \A i \in 1..q : read[i] = [kind |-> "event", ev |-> Normal(happened[i].ev)]
  BY <1>1, <1>4, <1>5, <1>6, FirstEventsRead
<1> HIDE DEF read
<1>8. q \in Nat /\ q <= m /\ \A i \in 1..m : at[i] <= flushed <=> i <= q
  BY <1>4, <1>6 DEF Before
<1>9. j \in 0..wrote /\ j % FlushEvery = 0
  BY <1>1, RecordingAssumption, LargestMultiple
<1> HIDE DEF j
<1>10. j \in Nat /\ j <= q
  <2>1. CASE j = 0
    BY <1>8, <2>1
  <2>2. CASE j # 0
    <3>1. j \in 1..wrote /\ j \in 1..m
      BY <1>1, <1>3, <1>4, <1>9, <2>2
    <3>2. at[j] <= flushed
      BY <1>3, <1>9, <3>1 DEF Kept
    <3> QED BY <1>8, <3>1, <3>2
  <2> QED BY <2>1, <2>2
<1>11. ASSUME NEW i \in 1..j PROVE Matches(read, i)
  <2>1. i \in 1..q
    BY <1>8, <1>10
  <2>2. read[i] = [kind |-> "event", ev |-> Normal(happened[i].ev)]
    BY <1>7, <2>1
  <2> QED BY <2>2 DEF Matches
<1>12. Len(read) >= j
  BY <1>7, <1>8, <1>10
<1> QED BY <1>11, <1>12 DEF KeepsFlushed, read, j

(* After a crash what is read is a beginning of what happened, all that was  *)
(* flushed is in it, and only the last event read can differ, when its line  *)
(* was cut (main.cpp:114).  After a write error, too, all that was flushed   *)
(* before it is read first.                                                  *)
THEOREM CutCapturesLoseOnlyATail == RecSpec => []LosesOnlyATail
<1>1. RecInv => LosesOnlyATail
  <2> DEFINE read == Events(parse(file))
             cut == file # SubSeq(lines, 1, Len(file))
  <2> SUFFICES ASSUME RecInv, apc = "crashed" \/ (apc = "closed" /\ failed)
               PROVE  KeepsFlushed(read) /\ (~failed => LostATail(read, cut))
    BY DEF LosesOnlyATail
  <2>1. KeepsFlushed(read)
    BY FlushedIsRead
  <2>2. ASSUME ~failed PROVE LostATail(read, cut)
    <3>1. n \in Nat /\ n = Len(happened)
      BY JoinSeq DEF RecInv, RecTypeOK
    <3>2. PICK k \in flushed..Len(lines) : CutAt(file, lines, k)
      BY <2>2 DEF RecInv, FileInv
    <3>3. PICK m \in 0..n : \E at : Places(at, lines, happened, m)
      BY DEF RecInv, Written
    <3>4. PICK at : Places(at, lines, happened, m)
      BY <3>3
    <3>5. PICK q, N : /\ Before(at, m, k, q) /\ N \in q..m /\ Len(read) = N
                      /\ \A i \in 1..q : Matches(read, i)
                      /\ N = q \/ (N = q + 1 /\ cut)
      BY <3>2, <3>4, CutRead
    <3> HIDE DEF read, cut
    <3>6. q \in Nat /\ N \in Nat /\ m \in Nat /\ N <= m /\ q <= N
      BY <3>1, <3>5 DEF Before
    <3>7. ASSUME NEW i \in 1..Len(read), i < Len(read) \/ ~cut
          PROVE  Matches(read, i)
      <4>1. i \in 1..q
        BY <3>5, <3>6, <3>7
      <4> QED BY <3>5, <4>1
    <3>8. Len(read) <= Len(happened)
      BY <3>1, <3>5, <3>6
    <3> QED BY <3>7, <3>8 DEF LostATail
  <2> QED BY <2>1, <2>2
<1> QED BY <1>1, RecordingInvariance, PTL

-----------------------------------------------------------------------------
(* The virtual clock of a capture.                                           *)

(* v is the clock along the entries e.                                       *)
Ticks(v, e) ==
    /\ v \in [0..Len(e) -> Int] /\ v[0] = 0
    /\ \A i \in 1..Len(e) : v[i] = v[i - 1] + Passed(e[i])
    /\ VirtualTimes(e) = Select(v, EventsIn(e))

LEMMA Ticking ==
  ASSUME NEW e, Len(e) \in Nat, \A i \in 1..Len(e) : Passed(e[i]) \in Int
  PROVE  \E v : Ticks(v, e)
<1> DEFINE L == Len(e)
           t(i) == Passed(e[i])
           g == [x \in Int \X (1..L) |-> x[1] + t(x[2])]
           v[i \in 0..L] == IF i = 0 THEN 0 ELSE v[i - 1] + t(i)
<1>1. L \in Nat /\ \A i \in 1..L : t(i) \in Int
  OBVIOUS
<1>2. VirtualTimes(e) = Select(v, EventsIn(e))
  BY DEF VirtualTimes
<1> HIDE DEF t, L
<1>3. g \in [Int \X (1..L) -> Int]
  <2> SUFFICES ASSUME NEW x \in Int \X (1..L) PROVE x[1] + t(x[2]) \in Int
    OBVIOUS
  <2>1. x[1] \in Int /\ x[2] \in 1..L
    OBVIOUS
  <2>2. t(x[2]) \in Int
    BY <1>1, <2>1
  <2> QED BY <2>1, <2>2
<1>4. \A x \in Int, i \in 1..L : g[<<x, i>>] = x + t(i)
  OBVIOUS
<1> HIDE DEF g
<1>5. PICK h \in [0..L -> Int] : Steps(h, L, 0, g)
  <2>1. 0 \in Int
    OBVIOUS
  <2> QED BY <1>1, <1>3, <2>1, StepByStep
<1>6. h[0] = 0 /\ \A i \in 1..L : h[i] = h[i - 1] + t(i)
  <2>1. h[0] = 0 /\ \A i \in 1..L : h[i] = g[<<h[i - 1], i>>]
    BY <1>5 DEF Steps
  <2>2. ASSUME NEW i \in 1..L PROVE h[i] = h[i - 1] + t(i)
    <3>1. i - 1 \in 0..L
      BY <1>1
    <3>2. h[i - 1] \in Int
      BY <1>5, <3>1
    <3> QED BY <1>4, <2>1, <3>2
  <2> QED BY <2>1, <2>2
<1>7. \E k : k = [i \in 0..L |-> IF i = 0 THEN 0 ELSE k[i - 1] + t(i)]
  <2> DEFINE H == [i \in 0..L |-> IF i = 0 THEN 0 ELSE h[i - 1] + t(i)]
  <2>1. ASSUME NEW i \in 0..L
        PROVE  h[i] = IF i = 0 THEN 0 ELSE h[i - 1] + t(i)
    <3>1. CASE i = 0
      BY <1>6, <3>1
    <3>2. CASE i # 0
      <4>1. i \in 1..L
        BY <1>1, <3>2
      <4> QED BY <1>6, <3>2, <4>1
    <3> QED BY <3>1, <3>2
  <2>2. h = H
    BY <1>5, <2>1
  <2> QED BY <2>2, Zenon DEF H
<1>8. v = [i \in 0..L |-> IF i = 0 THEN 0 ELSE v[i - 1] + t(i)]
  BY <1>7
<1> HIDE DEF v
<1>9. v[0] = 0 /\ \A i \in 1..L : v[i] = v[i - 1] + t(i)
  <2>1. 0 \in 0..L /\ \A i \in 1..L : i \in 0..L /\ i # 0
    BY <1>1
  <2>2. \A i \in 0..L : v[i] = IF i = 0 THEN 0 ELSE v[i - 1] + t(i)
    BY <1>8, Zenon
  <2> QED BY <2>1, <2>2
<1>10. v \in [0..L -> Int]
  <2> DEFINE T == {j \in Nat : j \in 0..L => v[j] \in Int}
  <2>1. 0 \in T
    BY <1>9
  <2>2. ASSUME NEW j \in T PROVE j + 1 \in T
    <3> SUFFICES ASSUME j + 1 \in 0..L PROVE v[j + 1] \in Int
      OBVIOUS
    <3>1. j \in 0..L /\ j + 1 \in 1..L /\ (j + 1) - 1 = j
      BY <1>1
    <3>2. v[j] \in Int /\ t(j + 1) \in Int /\ v[j + 1] = v[j] + t(j + 1)
      BY <1>1, <1>9, <3>1
    <3> QED BY <3>2
  <2>3. T \subseteq Nat
    OBVIOUS
  <2> HIDE DEF T
  <2>4. T = Nat
    BY <2>1, <2>2, <2>3, SetInduction
  <2>5. \A j \in 0..L : v[j] \in Int
    BY <1>1, <2>4 DEF T
  <2>6. DOMAIN v = 0..L /\ v = [j \in 0..L |-> v[j]]
    BY <1>8, Zenon
  <2> QED BY <2>5, <2>6
<1>11. Ticks(v, e)
  BY <1>2, <1>9, <1>10 DEF Ticks, L, t
<1> QED BY <1>11

LEMMA TimePassed ==
  /\ \A x : x.kind = "event" => Passed(x) = Ms
  /\ \A x : x.kind = "delay" => Passed(x) = x.ms * Ms
  /\ \A x : x.kind \in {"directive", "none"} => Passed(x) = 0
<1>1. "event" # "delay" /\ {"directive", "none"} \cap {"event", "delay"} = {}
  OBVIOUS
<1> QED BY <1>1 DEF Passed

(* eval's clock over a capture that was closed advances as Advance says.     *)
LEMMA CaptureTicks ==
  ASSUME RecInv, apc = "closed", ~failed
  PROVE  /\ VirtualTimes(parse(file)) \in [1..n -> Int]
         /\ Advances(VirtualTimes(parse(file)), happened)
<1> DEFINE e == parse(file)
           V == VirtualTimes(e)
           d(i) == (happened[i].ts - happened[i - 1].ts) \div Ms
<1>1. PICK at : /\ ReadAt(at, lines, n) /\ Holds(e, lines, Len(lines))
                /\ Len(e) = Len(lines)
                /\ Lists([i \in 1..n |-> at[i]], n, EventsIn(e))
  BY WholeRead
<1>2. n = Len(happened) /\ n \in Nat /\ Len(lines) \in Nat
  BY JoinSeq DEF RecInv, RecTypeOK
<1>3. Ms \in Nat \ {0}
  BY RecordingAssumption
<1> HIDE DEF e, d
<1>4. \A l \in 1..Len(lines) : e[l] = parse_line(lines[l])
  BY <1>1 DEF Holds
<1>5. \A i \in 0..n : at[i] \in 1..Len(lines) /\ at[i] \in Nat
  BY <1>1 DEF ReadAt
<1>6. ASSUME NEW i \in 1..n PROVE Passed(e[at[i]]) = Ms
  <2>1. at[i] \in 1..Len(lines)
    BY <1>5
  <2>2. e[at[i]] = [kind |-> "event", ev |-> Normal(happened[i].ev)]
    BY <1>1, <1>4, <2>1 DEF ReadAt
  <2>3. e[at[i]].kind = "event"
    BY <2>2
  <2> QED BY <2>3, TimePassed
<1>7. ASSUME NEW i \in 1..n, Paused(happened, i)
      PROVE  /\ at[i] = at[i - 1] + 2 /\ at[i] - 1 \in 1..Len(lines)
             /\ d(i) \in Int /\ Passed(e[at[i] - 1]) = d(i) * Ms
  <2>1. i \in 0..n /\ i - 1 \in 0..n
    BY <1>2
  <2>2. at[i] = at[i - 1] + 2
    BY <1>1, <1>7 DEF ReadAt
  <2>3. at[i] \in 1..Len(lines) /\ at[i - 1] \in 1..Len(lines)
    BY <1>5, <2>1
  <2>4. at[i] - 1 \in 1..Len(lines)
    BY <1>2, <2>2, <2>3
  <2>5. parse_line(lines[at[i] - 1]) = [kind |-> "delay", ms |-> d(i)]
    BY <1>1, <1>7 DEF ReadAt, d
  <2>6. e[at[i] - 1] = [kind |-> "delay", ms |-> d(i)]
    BY <1>4, <2>4, <2>5
  <2>7. e[at[i] - 1].kind = "delay" /\ e[at[i] - 1].ms = d(i)
    BY <2>6
  <2>8. d(i) \in Int
    BY <1>7, PausesAreNumbers DEF d, Numbers
  <2> QED BY <2>2, <2>4, <2>7, <2>8, TimePassed
<1>8. ASSUME NEW l \in 1..Len(e) PROVE Passed(e[l]) \in Int
  <2>1. l \in 1..Len(lines) /\ Known(at, n, l)
    BY <1>1 DEF ReadAt
  <2>2. CASE l = 1
    <3>1. e[l] \in [kind : {"directive", "none"}]
      BY <1>1, <1>4, <2>1, <2>2 DEF ReadAt
    <3>2. e[l].kind \in {"directive", "none"}
      BY <3>1
    <3>3. Passed(e[l]) = 0
      BY <3>2, TimePassed
    <3> QED BY <3>3
  <2>3. CASE \E i \in 1..n : l = at[i]
    BY <1>3, <1>6, <2>3
  <2>4. CASE \E i \in 1..n : Paused(happened, i) /\ l = at[i] - 1
    <3>1. PICK i \in 1..n : Paused(happened, i) /\ l = at[i] - 1
      BY <2>4
    <3>2. Passed(e[l]) = d(i) * Ms /\ d(i) \in Int
      BY <1>7, <3>1
    <3> QED BY <1>3, <3>2
  <2> QED BY <2>1, <2>2, <2>3, <2>4 DEF Known
<1>9. PICK v : Ticks(v, e)
  <2>1. Len(e) \in Nat
    BY <1>1, <1>2
  <2> QED BY <1>8, <2>1, Ticking
<1>10. /\ v \in [0..Len(lines) -> Int]
       /\ \A l \in 1..Len(lines) : v[l] = v[l - 1] + Passed(e[l])
       /\ V = Select(v, EventsIn(e))
  BY <1>1, <1>9 DEF Ticks
<1> HIDE DEF V
<1>11. V = [i \in 1..n |-> v[at[i]]]
  <2> DEFINE p == [i \in 1..n |-> at[i]]
  <2>1. Lists(p, n, EventsIn(e)) /\ \A i \in 1..n : p[i] = at[i]
    BY <1>1
  <2> HIDE DEF p
  <2>2. V = [i \in 1..n |-> v[p[i]]]
    BY <1>2, <1>10, <2>1, SelectIs
  <2> QED BY <2>1, <2>2
<1>12. \A i \in 0..n : v[at[i]] \in Int
  BY <1>5, <1>10
<1>13. ASSUME NEW i \in 2..n
       PROVE  V[i] = V[i - 1] + Advance(happened, i)
  <2>1. /\ i \in 1..n /\ i - 1 \in 1..n /\ i \in 0..n /\ i - 1 \in 0..n
    BY <1>2
  <2>2. V[i] = v[at[i]] /\ V[i - 1] = v[at[i - 1]]
    BY <1>11, <2>1
  <2>3. v[at[i]] = v[at[i] - 1] + Ms /\ v[at[i - 1]] \in Int
    BY <1>5, <1>6, <1>10, <1>12, <2>1
  <2>4. CASE Paused(happened, i)
    <3>1. /\ at[i] = at[i - 1] + 2 /\ at[i] - 1 \in 1..Len(lines)
          /\ d(i) \in Int /\ Passed(e[at[i] - 1]) = d(i) * Ms
      BY <1>7, <2>1, <2>4
    <3>2. (at[i] - 1) - 1 = at[i - 1]
      BY <1>5, <2>1, <3>1
    <3>3. v[at[i] - 1] = v[at[i - 1]] + d(i) * Ms
      BY <1>10, <3>1, <3>2
    <3>4. Advance(happened, i) = Ms + d(i) * Ms
      BY <2>4 DEF Advance, d
    <3> DEFINE x == v[at[i - 1]]
               y == d(i) * Ms
    <3>5. x \in Int /\ y \in Int /\ V[i] = (x + y) + Ms /\ Advance(happened, i) = Ms + y
          /\ V[i - 1] = x
      BY <1>3, <2>2, <2>3, <3>1, <3>3, <3>4
    <3> HIDE DEF x, y
    <3> QED BY <1>3, <3>5
  <2>5. CASE ~Paused(happened, i)
    <3>1. at[i] = at[i - 1] + 1
      BY <1>1, <2>1, <2>5 DEF ReadAt
    <3>2. at[i] - 1 = at[i - 1]
      BY <1>5, <2>1, <3>1
    <3>3. Advance(happened, i) = Ms
      BY <1>3, <2>5 DEF Advance
    <3> QED BY <2>2, <2>3, <3>2, <3>3
  <2> QED BY <2>4, <2>5
<1>14. V \in [1..n -> Int]
  BY <1>11, <1>12
<1>15. Advances(V, happened)
  BY <1>2, <1>13 DEF Advances
<1> QED BY <1>14, <1>15 DEF V, e

(* When a capture is evaluated the virtual clock runs behind the recorded    *)
(* one by less than MinGap per event, and ahead of it by at most a           *)
(* millisecond and the disorder per event (main.cpp:108).                    *)
THEOREM EvaluationDriftsLittle == RecSpec => []DriftBounded
<1>1. RecInv => DriftBounded
  <2> SUFFICES ASSUME RecInv, apc = "closed", ~failed
               PROVE  DriftIn(VirtualTimes(parse(file)))
    BY DEF DriftBounded
  <2>1. n = Len(happened)
    BY DEF RecInv, RecTypeOK
  <2>2. DriftFollows
    BY DriftHolds
  <2> DEFINE V == VirtualTimes(parse(file))
  <2>3. V \in [1..n -> Int] /\ Advances(V, happened)
    BY CaptureTicks
  <2> HIDE DEF V
  <2>4. DriftIn(V)
    BY <2>1, <2>2, <2>3 DEF DriftFollows
  <2> QED BY <2>4 DEF V
<1> QED BY <1>1, RecordingInvariance, PTL
=============================================================================
