----------------------------- MODULE EventsFile ------------------------------
(***************************************************************************)
(* The text format of recorded and replayed events, common/events_file.h:   *)
(* encode_field and decode_field, ancestry, format_line and parse.          *)
(*                                                                         *)
(* A line and a field are sequences of symbols.  A symbol is a character,   *)
(* or stands for a run of them that the code treats alike: a keyword, a     *)
(* number, a directory prefix.  "SP" is any character that is written as    *)
(* %XX because it would end a field (space, tab, line feed, return).        *)
(***************************************************************************)
EXTENDS Integers, Sequences, FiniteSets, SequencesExt

CONSTANTS
    PQSEC_ANCESTORS,  \* generations in an event
    Addresses,        \* IPv4 addresses in dotted form
    Characters,       \* the symbols of names
    MaxNumber,        \* bound: the largest number in a file
    Text(_)           \* the decimal form of a number, one symbol

Numbers == 0..MaxNumber

(* Symbols with a meaning of their own; "VT" is a blank that is not encoded. *)
Marks == {"SP", "VT", "#", "%", "|", ":"}

ASSUME EventsFileAssumption ==
    /\ PQSEC_ANCESTORS \in Nat /\ MaxNumber \in Nat
    /\ \A n \in Numbers : Text(n) \notin Marks
    /\ \A m, n \in Numbers : Text(m) = Text(n) => m = n
    /\ Addresses \cap Marks = {}
    /\ {"?", "-"} \subseteq Characters

-----------------------------------------------------------------------------
(* Fields                                                                   *)

IsNumber(tok) == Len(tok) = 1 /\ \E n \in Numbers : tok[1] = Text(n)
Value(tok) == CHOOSE n \in Numbers : tok[1] = Text(n)

HexOf == [c \in {"SP", "#", "%"} |->
            CASE c = "SP" -> <<"2", "0">> [] c = "#" -> <<"2", "3">> [] c = "%" -> <<"2", "5">>]

(* Variant: the percent sign is left as it is.                              *)
encode_field_NoPercent(s) ==
    FlattenSeq([i \in 1..Len(s) |->
        IF s[i] \in DOMAIN HexOf \ {"%"} THEN <<"%">> \o HexOf[s[i]] ELSE <<s[i]>>])

encode_field(s) ==
    FlattenSeq([i \in 1..Len(s) |->
        IF s[i] \in DOMAIN HexOf THEN <<"%">> \o HexOf[s[i]] ELSE <<s[i]>>])

(* The character whose code begins at place i                               *)
CodesAt(s, i) == {c \in DOMAIN HexOf : /\ s[i] = "%" /\ i + 2 <= Len(s)
                                       /\ HexOf[c] = <<s[i + 1], s[i + 2]>>}

(* From left to right; what is no code stands for itself.  read[i]: what    *)
(* came out of the first i symbols, and how many of the next belong to a    *)
(* code that is already read.                                               *)
DecodeStep(s, r, i) ==
    IF r.skip > 0 THEN [out |-> r.out, skip |-> r.skip - 1]
    ELSE IF CodesAt(s, i) # {}
           THEN [out |-> Append(r.out, CHOOSE c \in CodesAt(s, i) : TRUE), skip |-> 2]
    ELSE [out |-> Append(r.out, s[i]), skip |-> 0]

decode_field(s) ==
    LET read[i \in 0..Len(s)] ==
            IF i = 0 THEN [out |-> <<>>, skip |-> 0] ELSE DecodeStep(s, read[i - 1], i)
    IN  read[Len(s)].out

(* The elements of a set of numbers, smallest first                         *)
InOrder(S) ==
    [k \in 1..Cardinality(S) |-> CHOOSE i \in S : Cardinality({j \in S : j <= i}) = k]

(* The elements of s at some places, in order                               *)
Select(s, places) == [k \in 1..Cardinality(places) |-> s[InOrder(places)[k]]]

(* The maximal runs of symbols outside seps: istringstream's tokens, and    *)
(* the parts of an ancestry, where an empty part is skipped.                *)
Runs(s, seps) ==
    LET starts == {i \in 1..Len(s) : s[i] \notin seps /\ (i = 1 \/ s[i - 1] \in seps)}
        first == InOrder(starts)
        last(i) == CHOOSE j \in i..Len(s) :
                      /\ \A k \in i..j : s[k] \notin seps
                      /\ j = Len(s) \/ s[j + 1] \in seps
    IN  [n \in 1..Len(first) |-> SubSeq(s, first[n], last(first[n]))]

(* The empty field is written as a placeholder                              *)
OrMark(s, mark) == IF s = <<>> THEN <<mark>> ELSE s

(* Parts with a separator in between                                        *)
Join(parts, sep) ==
    FlattenSeq([i \in 1..Len(parts) |-> IF i = 1 THEN parts[i] ELSE <<sep>> \o parts[i]])

(* The bits of an access mask and their letters, always in this order        *)
Flags == <<"WRITE", "CREATE", "SENSITIVE", "EXEC">>
Letters == <<"w", "c", "s", "x">>

access_to_str(a) == OrMark(Select(Letters, {i \in 1..4 : Flags[i] \in a}), "-")

access_from_str(s) == {Flags[i] : i \in {j \in 1..4 : Letters[j] \in ToSet(s)}}

-----------------------------------------------------------------------------
(* Ancestry: anc:PID:COMM|PID:COMM|...; empty generations are left out.     *)

IsEmpty(g) == g.pid = 0 /\ g.comm = <<>>

Generations(anc) == Select(anc, {i \in 1..Len(anc) : ~IsEmpty(anc[i])})

EncodeGeneration(g) == <<Text(g.pid), ":">> \o encode_field(OrMark(g.comm, "?"))

(* The token, if there is a generation                                      *)
encode_ancestry(anc) ==
    LET gens == Generations(anc)
    IN  IF gens = <<>> THEN <<>>
        ELSE <<<<"anc:">> \o Join([i \in 1..Len(gens) |-> EncodeGeneration(gens[i])], "|")>>

(* The first ':' of a part ends its number.                                 *)
FirstColon(p) == Min({i \in 1..Len(p) : p[i] = ":"})

ParseGeneration(p, colon) ==
    [pid |-> IF IsNumber(SubSeq(p, 1, colon - 1)) THEN Value(p) ELSE 0,
     comm |-> decode_field(SubSeq(p, colon + 1, Len(p)))]

(* A part without ':' is no generation; at most PQSEC_ANCESTORS are taken.  *)
parse_ancestry(tok) ==
    LET all == Runs(Tail(tok), {"|"})
        parts == Select(all, {i \in 1..Len(all) : ":" \in ToSet(all[i])})
    IN  [i \in 1..Min({Len(parts), PQSEC_ANCESTORS}) |->
            ParseGeneration(parts[i], FirstColon(parts[i]))]

-----------------------------------------------------------------------------
(* An event is its type, the process it is about and a part of its own for   *)
(* each type.  format_line: a drop notice has no line.                       *)

Fields(type, u) ==
    CASE type = "execve" -> <<encode_field(OrMark(u.filename, "?"))>>
      [] type = "connect" -> <<<<u.daddr>>, <<Text(u.dport)>>>>
      [] type = "fileopen" ->
           <<access_to_str(u.access), <<Text(u.ino)>>, <<Text(u.dev)>>,
             encode_field(OrMark(u.path, "-"))>>

Common(p) == <<<<Text(p.pid)>>, <<Text(p.ppid)>>, encode_field(OrMark(p.comm, "?"))>>

format_line(ev) ==
    IF ev.type \notin {"execve", "connect", "fileopen"} THEN <<>>
    ELSE Join(<<<<ev.type>>>> \o Common(ev.proc) \o Fields(ev.type, ev.u)
                \o encode_ancestry(ev.proc.anc), "SP")

-----------------------------------------------------------------------------
(* parse: one entry per line, none for an empty line or a comment; a line   *)
(* that is short of a field or has no number where one belongs throws.      *)

Blank == {"SP", "VT"}   \* isspace()

Body(line) ==
    LET hashes == {i \in 1..Len(line) : line[i] = "#"}
    IN  IF hashes = {} THEN line
        ELSE SubSeq(line, 1, (CHOOSE i \in hashes : \A j \in hashes : i <= j) - 1)

Comment(line) == SubSeq(line, Len(Body(line)) + 2, Len(line))

Bad == [kind |-> "bad"]

(* how many tokens precede the optional ones                                *)
Needed == [execve |-> 5, connect |-> 6, fileopen |-> 8]

(* The line t of an event has what its type needs.                          *)
WellFormed(t, type) ==
    /\ Len(t) >= Needed[type] /\ IsNumber(t[2]) /\ IsNumber(t[3])
    /\ type = "connect" => t[5] \in {<<a>> : a \in Addresses} /\ IsNumber(t[6])
    /\ type = "fileopen" => IsNumber(t[6]) /\ IsNumber(t[7])

(* The generations of several anc: tokens: each overwrites those it has.    *)
Overlay(ancs) ==
    LET from(g) == {i \in 1..Len(ancs) : Len(ancs[i]) >= g}
    IN  [g \in {k \in 1..PQSEC_ANCESTORS : from(k) # {}} |-> ancs[Max(from(g))][g]]

(* The optional tokens.                                                     *)
ParseAnc(toks) ==
    LET ancs == Select(toks, {i \in 1..Len(toks) : toks[i][1] = "anc:"})
    IN  Overlay([i \in 1..Len(ancs) |-> parse_ancestry(ancs[i])])

Unmark(field) == IF field = <<"-">> THEN <<>> ELSE field

ParseFields(t, type) ==
    CASE type = "execve" -> [filename |-> decode_field(t[5])]
      [] type = "connect" -> [daddr |-> t[5][1], dport |-> Value(t[6])]
      [] type = "fileopen" ->
           [access |-> access_from_str(t[5]), ino |-> Value(t[6]), dev |-> Value(t[7]),
            path |-> Unmark(decode_field(t[8]))]

ParseEvent(t, type) ==
    [type |-> type,
     proc |-> [pid |-> Value(t[2]), ppid |-> Value(t[3]), comm |-> decode_field(t[4]),
               anc |-> ParseAnc(SubSeq(t, Needed[type] + 1, Len(t)))],
     u |-> ParseFields(t, type)]

(* A line with tokens t before the comment and c in it.                     *)
ParseTokens(t, c) ==
    CASE t = <<>> ->
           [kind |-> IF c # <<>> /\ c[1][1] = "!" THEN "directive" ELSE "none"]
      [] t # <<>> /\ t[1] = <<"delay">> ->
           IF Len(t) >= 2 /\ IsNumber(t[2]) THEN [kind |-> "delay", ms |-> Value(t[2])] ELSE Bad
      [] t # <<>> /\ t[1] \in {<<type>> : type \in DOMAIN Needed} ->
           IF WellFormed(t, t[1][1]) THEN [kind |-> "event", ev |-> ParseEvent(t, t[1][1])]
           ELSE Bad
      [] OTHER -> Bad

parse_line(line) == ParseTokens(Runs(Body(line), Blank), Runs(Comment(line), Blank))

BeforeBad(all) ==
    LET bad == {i \in 1..Len(all) : all[i].kind = "bad"}
    IN  IF bad = {} THEN all ELSE SubSeq(all, 1, Min(bad) - 1)

(* What is read before the first bad line; for a line of kind "none" the    *)
(* callback is not called.                                                  *)
parse(lines) == BeforeBad([i \in 1..Len(lines) |-> parse_line(lines[i])])

-----------------------------------------------------------------------------
(* What reads back: names without the symbols the format neither encodes    *)
(* nor can do without, a blank of Blank \ {"SP"}, and '|' between the        *)
(* generations; a path that is not the mark of an empty one.                *)

Without(s, marks) == ToSet(s) \cap marks = {}
Name(marks) == {s \in Seq(Characters) : Without(s, marks)}

Generation == [pid : Numbers, comm : Name({"VT", "|"})]
Program == {p \in [pid : Numbers, ppid : Numbers, comm : Name({"VT"}), anc : Seq(Generation)] :
              Len(p.anc) <= PQSEC_ANCESTORS}

Own == [execve |-> [filename : Name({"VT"})],
        connect |-> [daddr : Addresses, dport : Numbers],
        fileopen |-> [access : SUBSET ToSet(Flags), ino : Numbers, dev : Numbers,
                      path : Name({"VT"}) \ {<<"-">>}]]

Writable == UNION {[type : {type}, proc : Program, u : Own[type]] : type \in DOMAIN Own}

(* What the format keeps of an event: an empty field becomes a mark, an     *)
(* empty generation is left out.                                            *)
Ancestors(gens) == [i \in 1..Len(gens) |-> [gens[i] EXCEPT !.comm = OrMark(@, "?")]]

Normal(ev) ==
    [type |-> ev.type,
     proc |-> [pid |-> ev.proc.pid, ppid |-> ev.proc.ppid, comm |-> OrMark(ev.proc.comm, "?"),
               anc |-> Ancestors(Generations(ev.proc.anc))],
     u |-> IF ev.type = "execve" THEN [filename |-> OrMark(ev.u.filename, "?")] ELSE ev.u]
=============================================================================
