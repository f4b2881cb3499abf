----------------------------- MODULE MCOneshot -----------------------------
(* Oneshot.tla with bytes of six values, so that a dump holds three bytes  *)
(* and a run two, encoded rows of three and four columns, plain ones of    *)
(* five, of which the fifth is behind the largest int, and every command   *)
(* line of one option, or of two that overlap.                             *)
EXTENDS Oneshot

Opt(key, word, num) == [key |-> key, given |-> TRUE, word |-> word, num |-> num, gap |-> 1, subs |-> <<>>]
Number(key, n) == Opt(key, "", <<n>>)
Text(key, word) == Opt(key, word, <<>>)
Flag(key) == [Opt(key, "", <<>>) EXCEPT !.given = FALSE]
Profile(p, gap, subs) == [Opt("rsched", p, <<>>) EXCEPT !.gap = gap, !.subs = subs]
(* Lengths that matter are told with Lengths. *)
Sub(name, n, unit) == [name |-> name, num |-> <<n>>, unit |-> unit, key |-> 8, val |-> 5]
Empty(name, unit) == [Sub(name, 0, unit) EXCEPT !.num = <<>>]
Bare(n) == [Empty("", "") EXCEPT !.key = n, !.val = 0]
Lengths(sub, key, val) == [sub EXCEPT !.key = key, !.val = val]

(* 41 is 5 after the cut to an int. *)
Overlapping ==
  {{Number("width", 5), Number("height", 5), Number("quad", 4), Number("quad", 2), Number("bailout", 41)},
   {Number("block-size", 4), Opt("block-size", "", <<3, 4>>)},
   {Number("threads", 2), Text("threads", "auto")},
   {Text("mode", "render"), Text("mode", "oneshot"), Number("benchmark", 7), Number("benchmark-runs", 3),
    Flag("render")},
   {Profile("run_hist", 1, <<Sub("size", 9, ""), Sub("log_scale", 1, "")>>),
    Profile("task_hist", 1, <<Sub("min", 2, "ms"), Sub("max", 40, "s"), Sub("size", 11, "")>>),
    Profile("task_hist", 1, <<Sub("max", 3, "ms"), Sub("size", 12, "")>>),
    Profile("payload_hist", 1, <<Sub("size", 13, ""), Sub("show", 0, "")>>)}}

Single ==
  {Number("bailout", 1), Number("bailout", 0), Number("block-size", 2), Number("block-size", 1),
   Text("kernel", "mdb_avx2"), Number("threads", 0), Text("threads", "many"), Text("mode", "other"),
   Text("colors", "off"), Text("colors", "blue"), Flag("quiet"), Flag("verbose"),
   Text("output", "other.hdr"), Flag("kernel-list"),
   Profile("hist_run", 1, <<>>),
   Profile("run_hist", 1, <<Sub("show", 0, ""), Sub("unknown", 1, "")>>),
   Profile("run_hist", 1, <<Bare(70)>>), Profile("run_hist", 1, <<Sub("min", 5, "h")>>),
   Profile("run_hist", 1, <<Bare(4), Sub("size", 9, ""), Empty("show", ""), Empty("min", "ms")>>),
   Profile("run_hist", 1, <<>>), Profile("run_hist", 0, <<>>), Profile("run_hist", 2, <<>>),
   Profile("run_hist", 0, <<Sub("size", 9, "")>>), Profile("task_hist", 2, <<Sub("size", 9, ""), Sub("show", 0, "")>>),
   Profile("run_hist", 1, <<Sub("min", -1, "ns")>>), Profile("task_hist", 1, <<Sub("size", 9, "ms")>>), Profile("task_hist", 1, <<Sub("max", 40000, "ns")>>),
   Profile("run_hist", 1, <<Lengths(Sub("size", 9, ""), 4, 63)>>),
   Profile("run_hist", 1, <<Lengths(Sub("size", 9, ""), 4, 64)>>),
   Profile("run_hist", 1, <<Lengths(Sub("unknown", 1, ""), 63, 1), Sub("show", 0, "")>>),
   Profile("task_hist", 1, <<Lengths(Sub("unknown", 1, ""), 64, 1)>>),
   Profile("task_hist", 2, <<Lengths(Sub("unknown", 1, ""), 63, 1)>>),
   Profile("task_hist", 1, <<Bare(20), Bare(20), Lengths(Sub("size", 9, ""), 21, 1), Sub("size", 10, "")>>),
   Profile("task_hist", 1, <<Bare(20), Bare(20), Lengths(Sub("size", 9, ""), 22, 1)>>),
   Profile("task_hist", 1, <<Sub("min", 5, "h"), Lengths(Sub("unknown", 1, ""), 64, 1)>>),
   Profile("run_hist", 1, <<[Sub("min", 3, "ms") EXCEPT !.num = <<3, 5>>]>>),
   Opt("block-size", "", <<3, 4, 5>>),
   Flag("width"), [Flag("render") EXCEPT !.given = TRUE], Flag("s"), Text("word", "mdb"),
   Opt("width", "px", <<4>>), Text("width", ""), Number("width", 20000), Number("width", -4),
   Opt("block-size", "x", <<3>>), Opt("block-size", "y", <<3>>)}

MCLines ==
  {<<>>} \cup {<<o>> : o \in Single \cup UNION Overlapping} \cup UNION {G \X G : G \in Overlapping}

MCCores == {0, 4}
MCValues == {0, 1, 2}

ASSUME Survive == NothingCut
=============================================================================
