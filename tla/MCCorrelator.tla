---------------------------- MODULE MCCorrelator -----------------------------
(* Small event sets for the correlator, by the rule they matter to.          *)
EXTENDS Correlator

Path(d, b, k) == [dir |-> d, bin |-> b, n |-> k]
Exec(p, l) == [path |-> p, lineage |-> l]
FileOpen(p, a) == [path |-> p, access |-> a]

Curl == Path("usr", "downloader", 1)
TmpA == Path("tmp", "plain", 1)
TmpB == Path("vartmp", "plain", 2)
TmpCurl == Path("tmp", "downloader", 3)
Ls == Path("usr", "benign", 1)

(* C1: a downloader under two shells, a process whose only ancestor is init, *)
(* and a program that is neither downloader nor in a temporary directory.    *)
ChainExecs == {Exec(Curl, {1, 20}), Exec(Curl, {1, 30, 40}),
               Exec(TmpA, {20, 50}), Exec(TmpB, {0, 1}), Exec(Ls, {20})}
OneWrite == {FileOpen(TmpA, {"WRITE"})}

(* C3: three staged paths, one of them named like a downloader, and opens    *)
(* that stage nothing.                                                       *)
StagedExecs == {Exec(TmpA, {20}), Exec(TmpCurl, {20}), Exec(TmpB, {1}), Exec(Ls, {20})}
StagedWrites == {FileOpen(TmpA, {"WRITE"}), FileOpen(TmpB, {"WRITE", "EXEC"}),
                 FileOpen(TmpCurl, {"WRITE"})}
SomeFileOpens == StagedWrites \cup
                 {FileOpen(TmpA, {"SENSITIVE"}), FileOpen(Ls, {"WRITE", "SENSITIVE"}),
                  FileOpen(Path("none", "plain", 0), {"SENSITIVE"})}

(* C2: three destinations, one of them private.                              *)
SomeConnects == {[comm |-> "x", daddr |-> <<45, 9>>, dport |-> 443],
                 [comm |-> "x", daddr |-> <<172, 32>>, dport |-> 443],
                 [comm |-> "x", daddr |-> <<172, 31>>, dport |-> 443]}
NoEvents == {}
=============================================================================
