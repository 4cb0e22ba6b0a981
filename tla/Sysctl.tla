------------------------------- MODULE Sysctl -------------------------------
(***************************************************************************)
(* The handlers behind the files of /proc/sys (kernel/sysctl.c): strings,  *)
(* vectors of int with and without limits or converted to jiffies, vectors *)
(* of unsigned long (plain or in ms), the taint mask, the pid that gets     *)
(* ctrl-alt-del, and bitmaps.                                              *)
(*                                                                         *)
(* A buffer is a sequence of tokens: [k, v] with k = "num" is a number in  *)
(* ASCII of value v, the others are single characters: "-", ",", " ", "nl" *)
(* (newline) and "x" (anything else). int has INT values, unsigned long    *)
(* ULONG: numbers beyond wrap as simple_strtoul does.                      *)
(***************************************************************************)
EXTENDS Integers, Sequences, FiniteSets, FiniteSetsExt, SequencesExt

CONSTANTS
    INT, UL,            \* how many values int and unsigned long have
    HZ, MSEC,           \* jiffies and milliseconds in a second
    Numbers,            \* numbers that are written
    SyMaxTokens,          \* bound on the length of a buffer
    VecLen,             \* table->maxlen in elements, or characters
    MinVal, MaxVal,     \* table->extra1 and extra2
    BitmapLen,
    Pids                \* pids of processes

Char(c) == [k |-> c, v |-> 0]
Num(n) == [k |-> "num", v |-> n]
Chars == {"-", ",", " ", "nl"}

\* Two numbers are never next to each other: they would be one.
WellFormed(buf) == \A i \in 1 .. Len(buf) - 1 : buf[i].k # "num" \/ buf[i + 1].k # "num"
Buffers ==
    {b \in SeqOf({Num(n) : n \in Numbers} \cup {Char(c) : c \in Chars}, SyMaxTokens) :
        WellFormed(b)}
Letters == SeqOf({"a", "b", "nl"}, SyMaxTokens)

Kinds == {"string", "int", "minmax", "jiffies", "ulong", "ms", "taint",
          "cad_pid", "bitmap"}

VARIABLES
    kind,               \* of the sysctl
    ctl,                \* its data
    syFailed,            \* the last write returned an error
    rpos, rgot          \* string: position of a reader and what it has read

syVars == <<kind, ctl, syFailed, rpos, rgot>>

signed(x) == ((x + INT \div 2) % INT) - INT \div 2
LONG_MAX == UL \div 2 - 1
wspace == {" ", "nl"}
-----------------------------------------------------------------------------
(***************************************************************************)
(* Numbers in a buffer                                                     *)
(***************************************************************************)
RECURSIVE SkipAll(_, _)
SkipAll(buf, chars) ==
    IF buf # <<>> /\ buf[1].k \in chars THEN SkipAll(Tail(buf), chars) ELSE buf

proc_skip_spaces(buf) == SkipAll(buf, wspace)
proc_skip_char(buf, c) == SkipAll(buf, {c})

NoLong == [err |-> TRUE]

\* A number at the start of buf, followed by nothing or by one of perm_tr.
proc_get_long(buf, perm_tr) ==
    LET neg  == buf # <<>> /\ buf[1].k = "-" /\ Len(buf) > 1
        p    == IF neg THEN Tail(buf) ELSE buf
        rest == Tail(p)
    IN IF p = <<>> THEN NoLong
       ELSE IF p[1].k # "num" THEN NoLong
       ELSE IF rest # <<>> /\ rest[1].k \notin perm_tr THEN NoLong
       ELSE [err |-> FALSE, val |-> p[1].v % UL, neg |-> neg, rest |-> rest]

proc_put_long(val, neg) == (IF neg THEN <<Char("-")>> ELSE <<>>) \o <<Num(val)>>
-----------------------------------------------------------------------------
(***************************************************************************)
(* Vectors of int                                                          *)
(***************************************************************************)
NoConv == [ok |-> FALSE]
Conv(x) == [ok |-> TRUE, val |-> signed(x)]

do_proc_dointvec_conv(neg, val) == Conv(IF neg THEN -val ELSE val)

\* The range is checked after the number has become an int.
do_proc_dointvec_minmax_conv(neg, val) ==
    LET c == Conv(IF neg THEN -val ELSE val)
    IN IF MinVal > c.val \/ MaxVal < c.val THEN NoConv ELSE c

do_proc_dointvec_jiffies_conv(neg, val) ==
    IF val > LONG_MAX \div HZ THEN NoConv ELSE Conv(IF neg THEN -(val * HZ) ELSE val * HZ)

conv(k, neg, val) ==
    CASE k = "minmax"  -> do_proc_dointvec_minmax_conv(neg, val)
      [] k = "jiffies" -> do_proc_dointvec_jiffies_conv(neg, val)
      [] OTHER         -> do_proc_dointvec_conv(neg, val)

\* The loop of __do_proc_dointvec from element i on: elements are stored as they are
\* parsed. `first` is i = 1.
RECURSIVE WriteInts(_, _, _, _)
WriteInts(k, vec, i, buf) ==
    LET b == proc_skip_spaces(buf)
        g == proc_get_long(b, wspace)
        c == conv(k, g.neg, g.val)
    IN IF buf = <<>> \/ i > Len(vec) \/ b = <<>> THEN [data |-> vec, err |-> i = 1]
       ELSE IF g.err THEN [data |-> vec, err |-> TRUE]
       ELSE IF ~c.ok THEN [data |-> vec, err |-> TRUE]
       ELSE WriteInts(k, [vec EXCEPT ![i] = c.val], i + 1, g.rest)

\* An int as number and sign: the most negative one has no positive counterpart.
Magnitudes(k, x) ==
    LET m == IF x < 0 THEN signed(-x) % UL ELSE x
    IN IF k = "jiffies" THEN m \div HZ ELSE m

\* What a read with a buffer that is large enough gives.
ReadInts(k, vec) ==
    FoldLeft(LAMBDA s, i : s \o (IF i = 1 THEN <<>> ELSE <<Char(" ")>>)
                             \o proc_put_long(Magnitudes(k, vec[i]), vec[i] < 0),
             <<>>, [i \in 1 .. Len(vec) |-> i])
      \o <<Char("nl")>>
-----------------------------------------------------------------------------
(***************************************************************************)
(* Vectors of unsigned long                                                *)
(***************************************************************************)
\* Negative numbers and those out of range are skipped, and the element with them;
\* the end of the buffer is an error as long as elements are left.
RECURSIVE WriteLongs(_, _, _, _)
WriteLongs(limits, vec, i, buf) ==
    LET b == proc_skip_spaces(buf)
        g == proc_get_long(b, wspace)
        skip == g.neg \/ g.val < limits[1] \/ g.val > limits[2]
    IN IF buf = <<>> \/ i > Len(vec) THEN [data |-> vec, err |-> i = 1]
       ELSE IF g.err THEN [data |-> vec, err |-> TRUE]
       ELSE WriteLongs(limits, IF skip THEN vec ELSE [vec EXCEPT ![i] = g.val], i + 1, g.rest)

\* A read converts with convmul and convdiv; a write does not.
ReadLongs(vec, convmul, convdiv) ==
    FoldLeft(LAMBDA s, i : s \o (IF i = 1 THEN <<>> ELSE <<Char(" ")>>)
                             \o proc_put_long(((convdiv * vec[i]) % UL) \div convmul, FALSE),
             <<>>, [i \in 1 .. Len(vec) |-> i])
      \o <<Char("nl")>>

NoLimits == <<0, UL - 1>>
-----------------------------------------------------------------------------
(***************************************************************************)
(* Bitmaps                                                                 *)
(***************************************************************************)

\* The loop of proc_do_large_bitmap: bits are collected in acc. The trailer c is only
\* written by proc_get_long when there is one; cs are the values it may have, at first
\* whatever was on the stack. The result is a set.
RECURSIVE WriteBits(_, _, _)
WriteBits(acc, buf, cs) ==
    LET a     == proc_get_long(buf, {"-", ",", "nl"})
        after == IF a.rest = <<>> THEN <<>> ELSE Tail(a.rest)
        trail == IF a.rest = <<>> THEN cs ELSE {a.rest[1].k}
        b     == proc_get_long(after, {",", "nl"})
        next  == IF b.rest = <<>> THEN <<>> ELSE Tail(b.rest)
        fail  == {[data |-> {}, err |-> TRUE]}
    IN IF buf = <<>> THEN {[data |-> acc, err |-> FALSE]}
       ELSE IF a.err THEN fail
       ELSE IF a.val >= BitmapLen \/ a.neg THEN fail
       ELSE (IF "-" \notin trail THEN {}
             ELSE IF b.err THEN fail
             ELSE IF b.val >= BitmapLen \/ b.neg \/ a.val > b.val THEN fail
             ELSE WriteBits(acc \cup a.val .. b.val, proc_skip_char(next, "nl"),
                            IF b.rest = <<>> THEN {"-"} ELSE {b.rest[1].k}))
            \cup
            (IF trail = {"-"} THEN {}
             ELSE WriteBits(acc \cup {a.val}, proc_skip_char(after, "nl"), trail \ {"-"}))


\* Maximal runs of bits, in order.
BitRuns(bits) ==
    LET starts == {a \in bits : a - 1 \notin bits}
        end(a) == Max({b \in bits : b >= a /\ a .. b \subseteq bits})
    IN [i \in 1 .. Cardinality(starts) |->
          LET a == CHOOSE x \in starts : Cardinality({y \in starts : y < x}) = i - 1
          IN <<a, end(a)>>]

ReadBits(bits) ==
    FoldLeft(LAMBDA s, r : s \o (IF s = <<>> THEN <<>> ELSE <<Char(",")>>) \o <<Num(r[1])>>
                             \o (IF r[1] = r[2] THEN <<>> ELSE <<Char("-"), Num(r[2])>>),
             <<>>, BitRuns(bits))
      \o <<Char("nl")>>

\* Mutant: the bitmap is cleared before the buffer is parsed.
BitmapCleared(bits, buf, pos) ==
    {[data |-> IF pos > 0 THEN bits \cup r.data ELSE r.data, err |-> r.err] :
        r \in WriteBits({}, proc_skip_char(buf, "nl"), {"-", "other"})}

\* A write at position 0 replaces the bitmap, a later one adds to it.
proc_do_large_bitmap(bits, buf, pos) ==
    {IF r.err THEN [data |-> bits, err |-> TRUE]
     ELSE [data |-> IF pos > 0 THEN bits \cup r.data ELSE r.data, err |-> FALSE] :
        r \in WriteBits({}, proc_skip_char(buf, "nl"), {"-", "other"})}
-----------------------------------------------------------------------------
(***************************************************************************)
(* All kinds                                                               *)
(***************************************************************************)
bits_of(x) == {i \in 0 .. 5 : (x \div 2 ^ i) % 2 = 1}
mask_of(S) == MapThenSumSet(LAMBDA i : 2 ^ i, S)

\* proc_taint: a temporary is written, and its bits are added to the mask.
proc_taint(taint, buf) ==
    LET r == WriteLongs(NoLimits, <<mask_of(taint)>>, 1, buf)
    IN [data |-> IF r.err THEN taint ELSE taint \cup bits_of(r.data[1]), err |-> r.err]

\* proc_do_cad_pid: a temporary is written; it must be the pid of a process.
proc_do_cad_pid(pid, buf) ==
    LET r == WriteInts("int", <<pid>>, 1, buf)
    IN IF r.err \/ r.data[1] \notin Pids THEN [data |-> pid, err |-> TRUE]
       ELSE [data |-> r.data[1], err |-> FALSE]

\* The outcomes of writing buf at position pos into a sysctl of kind k. An empty
\* buffer is accepted and ignored.
Written(k, data, buf, pos) ==
    IF buf = <<>> THEN {[data |-> data, err |-> FALSE]}
    ELSE CASE k \in {"int", "minmax", "jiffies"} -> {WriteInts(k, data, 1, buf)}
           [] k \in {"ulong", "ms"} -> {WriteLongs(<<MinVal, MaxVal>>, data, 1, buf)}
           [] k = "taint"   -> {proc_taint(data, buf)}
           [] k = "cad_pid" -> {proc_do_cad_pid(data, buf)}
           [] k = "bitmap"  -> proc_do_large_bitmap(data, buf, pos)

Read(k, data) ==
    CASE k \in {"int", "minmax", "jiffies"} -> ReadInts(k, data)
      [] k = "ulong"   -> ReadLongs(data, 1, 1)
      [] k = "ms"      -> ReadLongs(data, HZ, MSEC)
      [] k = "taint"   -> ReadLongs(<<mask_of(data)>>, 1, 1)
      [] k = "cad_pid" -> ReadInts(k, <<data>>)
      [] k = "bitmap"  -> ReadBits(data)

\* The part of a string that is stored: up to a newline, and less than maxlen.
_proc_do_string(buf) ==
    LET ends == {i \in DOMAIN buf : buf[i] = "nl"} \cup {Len(buf) + 1}
    IN SubSeq(buf, 1, Min({Min(ends) - 1, VecLen - 1}))
-----------------------------------------------------------------------------
SyInit ==
    /\ kind \in Kinds
    /\ ctl = CASE kind \in {"int", "minmax", "jiffies", "ulong", "ms"} -> [i \in 1 .. VecLen |-> MinVal]
               [] kind \in {"taint", "bitmap"} -> {}
               [] kind = "cad_pid" -> Min(Pids)
               [] kind = "string"  -> <<>>
    /\ syFailed = FALSE /\ rpos = 0 /\ rgot = <<>>

proc_write(buf, pos) ==
    /\ pos > 0 => kind = "bitmap"   \* the others do not look at it
    /\ \E r \in Written(kind, ctl, buf, pos) : ctl' = r.data /\ syFailed' = r.err
    /\ UNCHANGED <<kind, rpos, rgot>>

\* A reader starts afresh after a write.
proc_dostring_write(buf) ==
    /\ kind = "string" /\ buf # <<>>
    /\ ctl' = _proc_do_string(buf)
    /\ rpos' = 0 /\ rgot' = <<>>
    /\ UNCHANGED <<kind, syFailed>>

proc_dostring_read(lenp) ==
    LET left == SubSeq(ctl, rpos + 1, Len(ctl))
        part == SubSeq(left, 1, Min({Len(left), lenp}))
        out  == IF Len(part) < lenp THEN part \o <<"nl">> ELSE part
    IN /\ kind = "string" /\ rpos <= Len(ctl)
       /\ rpos' = rpos + Len(out) /\ rgot' = rgot \o out
       /\ UNCHANGED <<kind, ctl, syFailed>>

SyNext ==
    \/ kind # "string" /\ \E pos \in {0, 1}, buf \in Buffers : proc_write(buf, pos)
    \/ \E buf \in Letters : proc_dostring_write(buf)
    \/ \E lenp \in 1 .. VecLen : proc_dostring_read(lenp)

SySpec == SyInit /\ [][SyNext]_syVars
-----------------------------------------------------------------------------
\* Values have their types; those with limits respect them, and the pid is one of a
\* process, whatever is written and wherever a write fails.
SyTypeOK ==
    CASE kind = "string"  -> Len(ctl) < VecLen /\ "nl" \notin Range(ctl)
      [] kind \in {"int", "jiffies"} -> \A i \in 1 .. VecLen : ctl[i] = signed(ctl[i])
      [] kind \in {"minmax", "ulong", "ms"} -> \A i \in 1 .. VecLen : ctl[i] \in MinVal .. MaxVal
      [] kind = "taint"   -> ctl \subseteq 0 .. 5
      [] kind = "cad_pid" -> ctl \in Pids
      [] kind = "bitmap"  -> ctl \subseteq 0 .. BitmapLen - 1

\* What a read gives can be written back, is accepted and changes nothing (jiffies and ms
\* are converted): signs, separators, wrapped numbers and ranges agree in both
\* directions.
RoundTrip ==
    kind \in {"int", "minmax", "ulong", "taint", "cad_pid", "bitmap"} =>
        Written(kind, ctl, Read(kind, ctl), 0) = {[data |-> ctl, err |-> FALSE]}

\* A write that fails leaves bitmaps, taint mask and pid as they were (they go through a
\* temporary), while vectors keep what was stored before the error.
FailsWhole ==
    (syFailed' /\ kind \in {"bitmap", "taint", "cad_pid"}) => ctl' = ctl

\* "Taint values can only be increased" (sysctl.c:1996).
TaintGrows == kind = "taint" => ctl \subseteq ctl'

\* Reads of any sizes one after the other give the string, a newline, and then nothing.
ReadsAssemble ==
    kind = "string" =>
        /\ IsPrefix(rgot, Append(ctl, "nl"))
        /\ rpos > Len(ctl) <=> rgot = Append(ctl, "nl")


\* A write that fails half-way through leaves a bitmap, the taint mask and the pid as
\* they were, and no write takes a taint away (sysctl.c:1999, 2440).
WritesWhole == [][FailsWhole /\ TaintGrows]_syVars

=============================================================================
