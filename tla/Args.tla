-------------------------------- MODULE Args --------------------------------
(***************************************************************************)
(* The command line: args_parse of tools/args_parser.c, to which argp      *)
(* hands one option after the other, and configure_rsched_options of       *)
(* app/main.c, which makes the scheduler's options of what was parsed, in  *)
(* a build with CONFIG_RSCHED_PROFILE.                                     *)
(*                                                                         *)
(* An option is a record: its key, whether it has an argument (given), the *)
(* numbers that starts with (num: <<n>> for "n", <<n, m>> for "nxm", <<>>  *)
(* when there is none) and what follows them (word).  The argument of      *)
(* --rsched is "profile,", a profile's name (word), as many characters as  *)
(* gap says and a list (subs) of key=value, each with its name ("" when    *)
(* there is no `='), the numbers its value starts with, what follows them  *)
(* (unit) and how many characters the key and the value have (key, val; an *)
(* item without `=' is all key).  A comma at a list's end adds no item.    *)
(***************************************************************************)
EXTENDS Integers, Sequences, SequencesExt

CONSTANTS MinSize, MaxSize,      \* 512 and UINT16_MAX
          MinBlock,              \* 8
          MaxInt,                \* the largest int
          Word,                  \* one more than the largest uint64_t; a long has half
          Room,                  \* sizeof key, sizeof val of parse_hist_opts: 64
          Second, Milli, Micro,  \* NS_IN_SEC, NS_IN_MS, NS_IN_MCS
          Cores,                 \* what get_nprocs may answer
          Lines                  \* the command lines

SubOpt == [name : STRING, num : Seq(Int), unit : STRING, key : Nat, val : Nat]

Option ==
  [key : STRING, given : BOOLEAN, word : STRING, num : Seq(Int), gap : Nat, subs : Seq(SubOpt)]

ASSUME ArgsAssumption ==
  /\ {MinSize, MaxSize, MinBlock, MaxInt, Word, Room, Second, Milli, Micro} \subseteq Nat \ {0}
  /\ MinSize <= MaxSize
  /\ Cores \subseteq Int
  /\ \A l \in Lines : l \in Seq(Option)

VARIABLES line,        \* the command line
          argv,        \* its options that are still to be parsed
          args,        \* struct arguments, but for args.rsched
          hists,       \* args.rsched; an optional value is a set of at most one
          opts,        \* struct rsched_options
          argpc        \* "parse", "ready", "left", "overrun"

argVars == <<line, argv, args, hists, opts, argpc>>

Modes == {"oneshot", "benchmark", "render"}
Profiles == {"run_hist", "task_hist", "payload_hist"}

(* The sizes stand for 1024, 256 and 32, which are in range likewise.      *)
Defaults ==
  [width |-> MinSize, height |-> MinSize, bailout |-> MaxSize,
   block_size_x |-> MinBlock, block_size_y |-> MinBlock, kernel_name |-> "mdb_generic",
   threads |-> -1, mode |-> "oneshot", benchmark_runs |-> 100, shader_colors |-> TRUE,
   silent |-> FALSE, verbose |-> 0, output_file |-> "mandelbrot.hdr"]

NoHist == [show |-> {}, log_scale |-> {}, size |-> {}, min |-> {}, max |-> {}]

ArgsInit ==
  /\ line \in Lines
  /\ argv = line
  /\ args = Defaults
  /\ hists = [p \in Profiles |-> NoHist]
  /\ opts = <<>>
  /\ argpc = "parse"

-----------------------------------------------------------------------------
(* The numbers.  What is refused has no value: the program exits.          *)

(* strtol: no digits are 0, and a number beyond a long is an error; then   *)
(* the cut to an int, before any range is looked at.                       *)
Long == Word \div 2

Strtol(num) == IF num = <<>> THEN {0} ELSE {n \in {num[1]} : n \in -Long .. Long - 1}

ToInt(n) == ((n + MaxInt + 1) % (2 * MaxInt + 2)) - MaxInt - 1

ParseInt(num, rest, lo, hi) ==
  {i \in lo .. hi : rest = "" /\ Len(num) <= 1 /\ i \in {ToInt(n) : n \in Strtol(num)}}

ParseSize(num, rest) == ParseInt(num, rest, MinSize, MaxSize)

ParseBlockSizeMutant(num, rest) ==                   \* *y = *x of every format
  {<<n, n>> : n \in ParseInt(<<num[1]>>, rest, MinBlock, MaxSize)}
ParseBlockSize(num, rest) ==
  LET side(n) == ParseInt(<<n>>, rest, MinBlock, MaxSize)
  IN IF Len(num) \in 1 .. 2 THEN side(num[1]) \X side(num[Len(num)]) ELSE {}

Factor == [s |-> Second, ms |-> Milli, mc |-> Micro, ns |-> 1]

ParseU64(num) == IF num = <<>> THEN {0} ELSE {n \in {num[1]} : -Word < n /\ n < Word}

(* A negative number wraps, and so does the product; anything but one unit *)
(* behind the number is refused.                                           *)
ParseTime(sub) ==
  IF Len(sub.num) > 1 THEN {}
  ELSE {(n * Factor[u]) % Word : n \in ParseU64(sub.num), u \in {sub.unit} \cap DOMAIN Factor}

-----------------------------------------------------------------------------
(* The options that argp knows, and whether they have an argument.  It     *)
(* refuses all others, -s among them, for which parse_opt has a case.      *)
Options ==
  [o \in {"width", "height", "quad", "bailout", "block-size", "kernel", "threads", "mode", "benchmark",
          "rsched", "colors", "output", "benchmark-runs"} |-> TRUE]
  @@ [o \in {"kernel-list", "render", "verbose", "quiet"} |-> FALSE]

Known(o) == o.key \in DOMAIN Options /\ Options[o.key] = o.given

(* parse_opt: the fields that an option sets.                              *)
Assigned(o) ==
  IF ~Known(o) THEN {} ELSE
  CASE o.key \in {"width", "height"} -> {[f \in {o.key} |-> n] : n \in ParseSize(o.num, o.word)}
    [] o.key = "quad" -> {[width |-> n, height |-> n] : n \in ParseSize(o.num, o.word)}
    [] o.key = "bailout" -> {[bailout |-> n] : n \in ParseInt(o.num, o.word, 1, MaxSize)}
    [] o.key = "block-size" ->
         {[block_size_x |-> b[1], block_size_y |-> b[2]] : b \in ParseBlockSize(o.num, o.word)}
    [] o.key = "kernel" -> {[kernel_name |-> o.word]}
    [] o.key = "threads" ->
         {[threads |-> n] : n \in IF o.word = "auto" THEN {-1} ELSE ParseInt(o.num, o.word, 1, MaxInt)}
    [] o.key = "mode" -> {[mode |-> m] : m \in Modes \cap {o.word}}
    [] o.key = "benchmark-runs" -> {[benchmark_runs |-> n] : n \in ParseInt(o.num, o.word, 1, MaxInt)}
    [] o.key = "colors" -> {[shader_colors |-> w = "on"] : w \in {"on", "off"} \cap {o.word}}
    [] o.key = "benchmark" ->
         {[mode |-> "benchmark", benchmark_runs |-> n] : n \in ParseInt(o.num, o.word, 1, MaxInt)}
    [] o.key = "render" -> {[mode |-> "render"]}
    [] o.key = "quiet" -> {[silent |-> TRUE]}
    [] o.key = "verbose" -> {[verbose |-> 1]}
    [] o.key = "output" -> {[output_file |-> o.word]}
    [] OTHER -> {}

(* One turn of parse_hist_opts; a key it does not know is passed over.     *)
SubOption(h, sub) ==
  LET int(lo, hi) == ParseInt(sub.num, sub.unit, lo, hi)
  IN CASE sub.name = "show" -> {[h EXCEPT !.show = {n = 1}] : n \in int(0, 1)}
       [] sub.name = "size" -> {[h EXCEPT !.size = {n}] : n \in int(8, 1024)}
       [] sub.name = "log_scale" -> {[h EXCEPT !.log_scale = {n = 1}] : n \in int(0, 1)}
       [] sub.name = "min" -> {[h EXCEPT !.min = {t}] : t \in ParseTime(sub)}
       [] sub.name = "max" -> {[h EXCEPT !.max = {t}] : t \in ParseTime(sub)}
       [] OTHER -> {h}

(* parse_sub_key_val looks for the next `=', past commas: an item without  *)
(* one becomes, with its comma, part of the next one's key, which nothing  *)
(* knows then.  The last item needs one.                                   *)
Joined(subs, j) == j > 1 /\ subs[j - 1].name = ""

Swallowed(subs, j) == subs[j].name = "" \/ Joined(subs, j)

KeyLen(subs, j) ==
  LET before == {i \in 1 .. j - 1 : \A k \in i .. j - 1 : subs[k].name = ""}
  IN IF Joined(subs, j)
     THEN subs[j].key + MapThenSumSet(LAMBDA i : subs[i].key + 1, before)
     ELSE subs[j].key

(* It copies both with their length, into buffers of Room characters.      *)
Fits(subs, j) == subs[j].name = "" \/ (KeyLen(subs, j) < Room /\ subs[j].val < Room)

(* What the j-th item makes of what those before it have made, unless it   *)
(* is refused or overruns a buffer.                                        *)
Item(subs, j, before) ==
  IF ~Fits(subs, j) THEN {}
  ELSE UNION {IF Swallowed(subs, j) THEN {g} ELSE SubOption(g, subs[j]) : g \in before}

HistAfter(h, subs) ==
  LET after[j \in 0 .. Len(subs)] == IF j = 0 THEN {h} ELSE Item(subs, j, after[j - 1])
  IN after

ParseHist(h, subs) ==
  IF subs # <<>> /\ Last(subs).name = "" THEN {} ELSE HistAfter(h, subs)[Len(subs)]

Overruns(h, subs) == \E j \in DOMAIN subs : ~Fits(subs, j) /\ HistAfter(h, subs)[j - 1] # {}

(* is_sub_opt compares the beginning, wants one character more and skips   *)
(* it, whatever it is: the comma, if there is exactly one character.  None *)
(* takes the first of the list, and the rest of several stays before it.   *)
SubOpts(o) ==
  CASE o.gap = 1 -> {o.subs}
    [] o.gap # 1 /\ o.subs # <<>> -> {[o.subs EXCEPT ![1].name = IF @ = "" THEN "" ELSE "?",
                                                 ![1].key = @ + o.gap - 1]}
    [] OTHER -> {}

(* parse_rsched, where a build with CONFIG_RSCHED_PROFILE comes.  The      *)
(* names of the help text, hist_run and so on, are not the ones that are   *)
(* compared with.                                                          *)
ParsedHists(o) ==
  UNION {{[hists EXCEPT ![p] = h] : h \in ParseHist(hists[p], subs)} :
           p \in Profiles \cap {o.word}, subs \in SubOpts(o)}

OverrunBy(o) ==
  \E p \in Profiles \cap {o.word}, subs \in SubOpts(o) : Overruns(hists[p], subs)

Override(old, new) == [f \in DOMAIN old |-> IF f \in DOMAIN new THEN new[f] ELSE old[f]]

Parsing(o) == argpc = "parse" /\ argv # <<>> /\ o = Head(argv)

ParseOpt(o) ==
  /\ Parsing(o) /\ o.key # "rsched"
  /\ \E new \in Assigned(o) : args' = Override(args, new)
  /\ argv' = Tail(argv)
  /\ UNCHANGED <<line, hists, opts, argpc>>

ParseRsched(o) ==
  /\ Parsing(o) /\ o.key = "rsched" /\ Known(o)
  /\ hists' \in ParsedHists(o)
  /\ argv' = Tail(argv)
  /\ UNCHANGED <<line, args, opts, argpc>>

(* A refused option, a word that is none, or --kernel-list: exit, whatever *)
(* was parsed before.                                                      *)
Leave(o) ==
  /\ Parsing(o)
  /\ IF o.key = "rsched" /\ Known(o) THEN ParsedHists(o) = {} /\ ~OverrunBy(o) ELSE Assigned(o) = {}
  /\ argpc' = "left"
  /\ UNCHANGED <<line, argv, args, hists, opts>>

(* A key or a value that is too long is copied over what else is on the    *)
(* stack.  What the program does from there on is undefined and not        *)
(* followed.                                                               *)
Overrun(o) ==
  /\ Parsing(o) /\ o.key = "rsched" /\ Known(o)
  /\ OverrunBy(o)
  /\ argpc' = "overrun"
  /\ UNCHANGED <<line, argv, args, hists, opts>>

-----------------------------------------------------------------------------
(* configure_rsched_options.                                               *)
HistDefaults ==
  [run_hist |-> [show |-> TRUE, log_scale |-> FALSE, size |-> 8, min |-> Milli, max |-> 30 * Milli],
   task_hist |-> [show |-> TRUE, log_scale |-> FALSE, size |-> 16, min |-> 20 * Micro, max |-> 143 * Micro]]

OptionalGet(v, default) == IF v = {} THEN default ELSE CHOOSE w \in v : TRUE

HistOfMutant(p) ==                                   \* the block copied with one line unchanged
  [f \in DOMAIN NoHist |->
     OptionalGet(hists[IF f = "log_scale" THEN "run_hist" ELSE p][f], HistDefaults[p][f])]

HistOf(p) == [f \in DOMAIN NoHist |-> OptionalGet(hists[p][f], HistDefaults[p][f])]

NprocActive(n) == IF n > 0 THEN n ELSE 1

Configure(n) ==
  /\ argpc = "parse" /\ argv = <<>>
  /\ opts' = [threads |-> IF args.threads <= -1 THEN NprocActive(n) ELSE args.threads,
              run_hist |-> HistOf("run_hist"),
              task_hist |-> HistOf("task_hist"),
              payload_hist |-> HistOf("task_hist")]          \* memcpy of task_hist
  /\ argpc' = "ready"
  /\ UNCHANGED <<line, argv, args, hists>>

ArgsNext ==
  \/ argv # <<>> /\ LET o == Head(argv) IN ParseOpt(o) \/ ParseRsched(o) \/ Leave(o) \/ Overrun(o)
  \/ \E n \in Cores : Configure(n)

-----------------------------------------------------------------------------
(* What parse_opt stores is in the range it allows, and of argv a suffix   *)
(* is left.                                                                *)
ArgsTypeOK ==
  /\ line \in Lines
  /\ Len(argv) <= Len(line) /\ argv = SubSeq(line, Len(line) - Len(argv) + 1, Len(line))
  /\ DOMAIN args = DOMAIN Defaults
  /\ {args.width, args.height} \subseteq MinSize .. MaxSize
  /\ args.bailout \in 1 .. MaxSize
  /\ {args.block_size_x, args.block_size_y} \subseteq MinBlock .. MaxSize
  /\ args.threads \in {-1} \cup 1 .. MaxInt
  /\ args.mode \in Modes
  /\ args.benchmark_runs > 0
  /\ {args.shader_colors, args.silent} \subseteq BOOLEAN /\ args.verbose \in {0, 1}
  /\ \A p \in Profiles : \A f \in DOMAIN NoHist : hists[p][f] = {} \/ \E v \in hists[p][f] : hists[p][f] = {v}
  /\ argpc \in {"parse", "ready", "left", "overrun"}
  /\ argpc = "ready" => DOMAIN opts = {"threads"} \cup Profiles /\ opts.threads > 0

(* What the help text of each option says that it stands for.              *)
Meant(o) ==
  LET first == o.num[1]
      last == o.num[Len(o.num)]
  IN CASE o.key \in {"width", "height", "bailout"} -> [f \in {o.key} |-> first]
       [] o.key = "quad" -> [width |-> first, height |-> first]
       [] o.key = "block-size" -> [block_size_x |-> first, block_size_y |-> last]
       [] o.key = "threads" -> [threads |-> IF o.word = "auto" THEN -1 ELSE first]
       [] o.key = "mode" -> [mode |-> o.word]
       [] o.key = "benchmark-runs" -> [benchmark_runs |-> first]
       [] o.key = "benchmark" -> [mode |-> "benchmark", benchmark_runs |-> first]
       [] o.key = "render" -> [mode |-> "render"]
       [] OTHER -> <<>>

Picture == {"width", "height", "bailout", "block_size_x", "block_size_y", "threads", "mode", "benchmark_runs"}

FitsInt(num) == \A i \in DOMAIN num : ToInt(num[i]) = num[i]

WellFormed(o) ==
  /\ o.gap = 1
  /\ \A i \in DOMAIN o.subs :
       LET sub == o.subs[i] IN sub.name # "" /\ sub.num # <<>> /\ sub.key < Room /\ sub.val < Room

(* Options overlap (-x and -w, --benchmark and --mode): each field has the *)
(* value of the last option that stands for it, or its default.  Numbers   *)
(* beyond an int are left out: they are cut to one before they are looked  *)
(* at.  And the scheduler is asked for a thread at least.                  *)
LastOneCounts ==
  argpc = "ready" /\ (\A i \in DOMAIN line : FitsInt(line[i].num)) =>
    \A f \in Picture :
      LET setters == {i \in DOMAIN line : f \in DOMAIN Meant(line[i])}
      IN /\ args[f] = IF setters = {} THEN Defaults[f] ELSE Meant(line[Max(setters)])[f]
         /\ opts.threads > 0

Asks(i, j, p, f) ==
  line[i].key = "rsched" /\ line[i].word = p /\ line[i].subs[j].name = f

LastToAsk(i, j, p, f) ==
  /\ Asks(i, j, p, f)
  /\ \A k \in i .. Len(line) : \A m \in DOMAIN line[k].subs : Asks(k, m, p, f) => k = i /\ m <= j

Value(sub) ==
  CASE sub.name \in {"show", "log_scale"} -> sub.num[1] = 1
    [] sub.name \in {"min", "max"} -> sub.num[1] * Factor[sub.unit]
    [] OTHER -> sub.num[1]

FitsWord(sub) == IF sub.unit = "" THEN FitsInt(sub.num) ELSE sub.num[1] * Factor[sub.unit] \in 0 .. Word - 1

ListsWellFormed == \A i \in DOMAIN line : line[i].key = "rsched" => WellFormed(line[i])

AsAsked(p, f) ==
  \A i \in DOMAIN line : \A j \in DOMAIN line[i].subs :
    LastToAsk(i, j, p, f) /\ FitsWord(line[i].subs[j]) => opts[p][f] = Value(line[i].subs[j])

(* The histograms of the frames and of the tasks are made with what the    *)
(* last key=value said of them, through three structures and an optional   *)
(* each, unless the time does not fit a uint64_t; that of the payloads is  *)
(* made like that of the tasks, whatever was said of it.  This is about    *)
(* command lines whose lists are lists of key=value that fit the two       *)
(* buffers; then they are not overrun.                                     *)
HistsAsAsked ==
  ListsWellFormed =>
    /\ argpc # "overrun"
    /\ argpc = "ready" =>
         /\ \A p \in {"run_hist", "task_hist"} : \A f \in DOMAIN NoHist :
              /\ (\A i \in DOMAIN line : \A j \in DOMAIN line[i].subs : ~Asks(i, j, p, f))
                   => opts[p][f] = HistDefaults[p][f]
              /\ AsAsked(p, f)
         /\ opts["payload_hist"] = opts["task_hist"]
=============================================================================
