----------------------------- MODULE MCRecording -----------------------------
(* Three questions, one per focus.  "content": an event of each program, at  *)
(* the same time, with names that are hard to write down (blanks, '#', '%', a *)
(* literal %20, empty names, a missing generation of ancestors).  "times":    *)
(* more runs of one program, at times around the ten milliseconds (here four  *)
(* units) below which a gap is not written.  "errors": the same program, with *)
(* and without a gap, and a disk that is full at some point.                  *)
EXTENDS Recording

VARIABLE focus

Shadow == <<"/etc/", "shadow">>
TmpFile == <<"/tmp/", "a", "SP", "b">>
ShmFile == <<"/dev/shm/", "%", "2", "0">>

MCNames == {Shadow, TmpFile, ShmFile}
MCSensitive == {Shadow}

Gen(p, c) == [pid |-> p, comm |-> c]

MCPrograms ==
    {[pid |-> 7, ppid |-> 1, comm |-> <<"a", "SP", "#">>,
      anc |-> <<Gen(1, <<"%", "2", "0">>), Gen(0, <<>>), Gen(2, <<>>)>>],
     [pid |-> 8, ppid |-> 7, comm |-> <<>>, anc |-> <<>>]}

MCText(k) == ToString(k)
MCCharacters == STRING

MCGaps == {-1, 0, 4, 5, 8}

MCExecFiles == {TmpFile, <<"%">>}

MCInit == /\ RecInit
          /\ focus \in {"content", "times", "errors"}
          /\ focus # "content" => fs = <<>>

MCNext ==
    /\ RecNext
    /\ UNCHANGED focus
    /\ focus # "errors" => ~failed'
    /\ focus = "content" =>
          /\ clock' = clock
          /\ Len(happened') <= 2
          /\ \A i, j \in 1..Len(happened') :
                i < j => happened'[i].ev.proc # happened'[j].ev.proc
    /\ focus # "content" =>
          /\ fs' = fs
          /\ Len(happened') = Len(happened) => clock' = clock
          /\ \A i \in 1..Len(happened') :
                happened'[i].ev.type = "execve" /\ happened'[i].ev.proc.comm = <<>>
                    /\ happened'[i].ev.u.filename = <<"%">>
    /\ focus = "errors" => clock' \in {clock, clock + 5}

MCSpec == MCInit /\ [][MCNext]_<<recVars, focus>>
=============================================================================
