---------------------------- MODULE OneshotProofs ----------------------------
(***************************************************************************)
(* Proofs about the two ends of --mode oneshot.  The command line: of each *)
(* field of the picture, and of each field of a histogram, the last option *)
(* counts; by an invariant that says so of the options parsed up to now.   *)
(* And the file: the code of a row stands for what of the row is behind    *)
(* the encoder, where to stand for something is said of a code that still  *)
(* goes on, so that a record more needs nothing of those before it.        *)
(***************************************************************************)
EXTENDS Oneshot, SequenceTheorems, WellFoundedInduction, TLAPS

(* ParseInt gives the number that was written, if it fits an int and the   *)
(* range leaves out the zero that an absent number is read as.             *)
LEMMA ParsedNumber ==
  ASSUME NEW num \in Seq(Int), NEW rest, NEW lo \in Nat \ {0}, NEW hi \in Nat, FitsInt(num),
         NEW i \in ParseInt(num, rest, lo, hi)
  PROVE  i \in lo .. hi /\ num # <<>> /\ i = num[1]
<1>1. i \in lo .. hi /\ \E n \in Strtol(num) : i = ToInt(n)
  BY DEF ParseInt
<1>2. PICK n \in Strtol(num) : i = ToInt(n)
  BY <1>1
<1>3. ASSUME num = <<>> PROVE FALSE
  <2>1. n = 0
    BY <1>2, <1>3 DEF Strtol
  <2>2. ToInt(0) = 0
    <3>1. MaxInt \in Nat \ {0}
      BY ArgsAssumption
    <3>2. \A a, b \in Nat : a < b => a % b = a
      OBVIOUS
    <3>3. MaxInt + 1 \in Nat /\ 2 * MaxInt + 2 \in Nat /\ MaxInt + 1 < 2 * MaxInt + 2
      BY <3>1
    <3>4. (MaxInt + 1) % (2 * MaxInt + 2) = MaxInt + 1
      BY <3>2, <3>3, Zenon
    <3>. QED
      BY <3>1, <3>4 DEF ToInt
  <2>. QED
    BY <1>1, <1>2, <2>1, <2>2
<1>4. n = num[1] /\ ToInt(num[1]) = num[1]
  BY <1>2, <1>3 DEF Strtol, FitsInt
<1>. QED
  BY <1>1, <1>2, <1>3, <1>4

(* Whatever ParseInt gives is in the range it was asked for.               *)
LEMMA ParsedInRange ==
  ASSUME NEW num, NEW rest, NEW lo, NEW hi, NEW i \in ParseInt(num, rest, lo, hi)
  PROVE  i \in lo .. hi
  BY DEF ParseInt

(* What an option stores is in range...                                    *)
InRange(new) ==
  /\ "width" \in DOMAIN new => new["width"] \in MinSize .. MaxSize
  /\ "height" \in DOMAIN new => new["height"] \in MinSize .. MaxSize
  /\ "threads" \in DOMAIN new => new["threads"] \in {-1} \cup 1 .. MaxInt

(* What an accepted option stores is in range.                             *)
LEMMA StoredInRange ==
  ASSUME NEW o, NEW new \in Assigned(o)
  PROVE  InRange(new)
<1>0. Known(o)
  BY DEF Assigned
<1>1. CASE o.key = "width"
  <2>1. Assigned(o) = {[f \in {o.key} |-> n] : n \in ParseSize(o.num, o.word)}
    BY <1>0, <1>1 DEF Assigned
  <2>. QED  BY <1>1, <2>1, ParsedInRange DEF ParseSize, InRange
<1>2. CASE o.key = "height"
  <2>1. Assigned(o) = {[f \in {o.key} |-> n] : n \in ParseSize(o.num, o.word)}
    BY <1>0, <1>2 DEF Assigned
  <2>. QED  BY <1>2, <2>1, ParsedInRange DEF ParseSize, InRange
<1>3. CASE o.key = "quad"
  <2>1. Assigned(o) = {[width |-> n, height |-> n] : n \in ParseSize(o.num, o.word)}
    BY <1>0, <1>3 DEF Assigned
  <2>. QED  BY <2>1, ParsedInRange DEF ParseSize, InRange
<1>4. CASE o.key = "threads"
  <2>1. Assigned(o) = {[threads |-> n] : n \in IF o.word = "auto" THEN {-1} ELSE ParseInt(o.num, o.word, 1, MaxInt)}
    BY <1>0, <1>4 DEF Assigned
  <2>. QED  BY <2>1, ParsedInRange DEF InRange
<1>5. CASE o.key \notin {"width", "height", "quad", "threads"}
  <2>1. {"width", "height", "threads"} \cap DOMAIN new = {}
    BY <1>0, <1>5 DEF Assigned
  <2>. QED  BY <2>1 DEF InRange
<1>. QED  BY <1>1, <1>2, <1>3, <1>4, <1>5

(* ...and is what the help text says that the option stands for.           *)
Agrees(o, new) ==
  \A f \in Picture :
    /\ f \in DOMAIN Meant(o) => f \in DOMAIN new /\ new[f] = Meant(o)[f]
    /\ f \notin DOMAIN Meant(o) => f \notin DOMAIN new

(* An accepted option stores what LastOneCounts takes it to mean.          *)
LEMMA StoredAsMeant ==
  ASSUME NEW o \in Option, FitsInt(o.num), NEW new \in Assigned(o)
  PROVE  Agrees(o, new)
<1>0. Known(o) /\ o.num \in Seq(Int)
  BY DEF Assigned, Option
<1>. DEFINE Parsed(lo, hi, i) == i \in ParseInt(o.num, o.word, lo, hi)
<1>a. MinSize \in Nat \ {0} /\ MaxSize \in Nat /\ MinBlock \in Nat \ {0} /\ MaxInt \in Nat
  BY ArgsAssumption
<1>b. \A i : Parsed(MinSize, MaxSize, i) \/ Parsed(1, MaxSize, i) \/ Parsed(1, MaxInt, i) => i = o.num[1]
  BY <1>0, <1>a, ParsedNumber
<1>1. CASE o.key \in {"width", "height"}
  <2>1. PICK n \in ParseSize(o.num, o.word) : new = [f \in {o.key} |-> n]
    BY <1>0, <1>1 DEF Assigned
  <2>2. n = o.num[1]
    BY <2>1, <1>b DEF ParseSize
  <2>3. Meant(o) = [f \in {o.key} |-> o.num[1]]
    BY <1>1 DEF Meant
  <2>. QED  BY <2>1, <2>2, <2>3 DEF Agrees
<1>2. CASE o.key = "quad"
  <2>1. PICK n \in ParseSize(o.num, o.word) : new = [width |-> n, height |-> n]
    BY <1>0, <1>2 DEF Assigned
  <2>2. n = o.num[1]
    BY <2>1, <1>b DEF ParseSize
  <2>3. Meant(o) = [width |-> o.num[1], height |-> o.num[1]]
    BY <1>2 DEF Meant
  <2>. QED  BY <2>1, <2>2, <2>3 DEF Agrees
<1>3. CASE o.key = "bailout"
  <2>1. PICK n \in ParseInt(o.num, o.word, 1, MaxSize) : new = [bailout |-> n]
    BY <1>0, <1>3 DEF Assigned
  <2>2. n = o.num[1]
    BY <2>1, <1>b
  <2>3. Meant(o) = [f \in {o.key} |-> o.num[1]]
    BY <1>3 DEF Meant
  <2>. QED  BY <1>3, <2>1, <2>2, <2>3 DEF Agrees
<1>4. CASE o.key = "block-size"
  <2>1. PICK b \in ParseBlockSize(o.num, o.word) : new = [block_size_x |-> b[1], block_size_y |-> b[2]]
    BY <1>0, <1>4 DEF Assigned
  <2>2. o.num # <<>>
    <3>1. Len(o.num) \in 1 .. 2
      BY <2>1 DEF ParseBlockSize
    <3>. QED  BY <3>1
  <2>3. b[1] \in ParseInt(<<o.num[1]>>, o.word, MinBlock, MaxSize)
        /\ b[2] \in ParseInt(<<o.num[Len(o.num)]>>, o.word, MinBlock, MaxSize)
    BY <2>1, <2>2 DEF ParseBlockSize
  <2>4. \A j \in 1 .. Len(o.num) : <<o.num[j]>> \in Seq(Int) /\ FitsInt(<<o.num[j]>>)
    BY <1>0 DEF FitsInt
  <2>5. 1 \in 1 .. Len(o.num) /\ Len(o.num) \in 1 .. Len(o.num)
    BY <1>0, <2>2
  <2>6. \A j \in 1 .. Len(o.num) : \A k \in ParseInt(<<o.num[j]>>, o.word, MinBlock, MaxSize) : k = o.num[j]
    <3>. TAKE j \in 1 .. Len(o.num)
    <3>. TAKE k \in ParseInt(<<o.num[j]>>, o.word, MinBlock, MaxSize)
    <3>1. k = <<o.num[j]>>[1]
      BY <2>4, <1>a, ParsedNumber, Zenon
    <3>. QED  BY <3>1
  <2>8. b[1] = o.num[1] /\ b[2] = o.num[Len(o.num)]
    BY <2>3, <2>5, <2>6
  <2>7. Meant(o) = [block_size_x |-> o.num[1], block_size_y |-> o.num[Len(o.num)]]
    BY <1>4 DEF Meant
  <2>. QED  BY <2>1, <2>7, <2>8 DEF Agrees
<1>5. CASE o.key = "threads"
  <2>1. PICK n \in IF o.word = "auto" THEN {-1} ELSE ParseInt(o.num, o.word, 1, MaxInt) : new = [threads |-> n]
    BY <1>0, <1>5 DEF Assigned
  <2>2. n = IF o.word = "auto" THEN -1 ELSE o.num[1]
    BY <2>1, <1>b
  <2>3. Meant(o) = [threads |-> IF o.word = "auto" THEN -1 ELSE o.num[1]]
    BY <1>5 DEF Meant
  <2>. QED  BY <2>1, <2>2, <2>3 DEF Agrees
<1>6. CASE o.key = "mode"
  <2>1. new = [mode |-> o.word]
    BY <1>0, <1>6 DEF Assigned
  <2>2. Meant(o) = [mode |-> o.word]
    BY <1>6 DEF Meant
  <2>. QED  BY <2>1, <2>2 DEF Agrees
<1>7. CASE o.key = "benchmark-runs"
  <2>1. PICK n \in ParseInt(o.num, o.word, 1, MaxInt) : new = [benchmark_runs |-> n]
    BY <1>0, <1>7 DEF Assigned
  <2>2. n = o.num[1]
    BY <2>1, <1>b
  <2>3. Meant(o) = [benchmark_runs |-> o.num[1]]
    BY <1>7 DEF Meant
  <2>. QED  BY <2>1, <2>2, <2>3 DEF Agrees
<1>8. CASE o.key = "benchmark"
  <2>1. PICK n \in ParseInt(o.num, o.word, 1, MaxInt) : new = [mode |-> "benchmark", benchmark_runs |-> n]
    BY <1>0, <1>8 DEF Assigned
  <2>2. n = o.num[1]
    BY <2>1, <1>b
  <2>3. Meant(o) = [mode |-> "benchmark", benchmark_runs |-> o.num[1]]
    BY <1>8 DEF Meant
  <2>. QED  BY <2>1, <2>2, <2>3 DEF Agrees
<1>9. CASE o.key = "render"
  <2>1. new = [mode |-> "render"]
    BY <1>0, <1>9 DEF Assigned
  <2>2. Meant(o) = [mode |-> "render"]
    BY <1>9 DEF Meant
  <2>. QED  BY <2>1, <2>2 DEF Agrees
<1>10. CASE o.key \notin {"width", "height", "quad", "bailout", "block-size", "threads", "mode", "benchmark-runs",
                          "benchmark", "render"}
  <2>1. Meant(o) = <<>>
    BY <1>10 DEF Meant
  <2>2. DOMAIN new \cap Picture = {}
    <3>1. o.key \in {"kernel", "colors", "quiet", "verbose", "output"}
      BY <1>0, <1>10 DEF Assigned
    <3>. QED  BY <1>0, <3>1 DEF Assigned, Picture
  <2>. QED  BY <2>1, <2>2 DEF Agrees
<1>. QED  BY <1>1, <1>2, <1>3, <1>4, <1>5, <1>6, <1>7, <1>8, <1>9, <1>10

(* A set of naturals that is not empty has a least member, and a set of    *)
(* positions a first and a last one.                                       *)
LEMMA Least ==
  ASSUME NEW S, S \subseteq Nat, S # {}
  PROVE  Min(S) \in S /\ \A j \in S : Min(S) <= j
<1>. DEFINE R == OpToRel(<, Nat)
<1>1. IsWellFoundedOn(R, Nat)
  BY NatLessThanWellFounded
<1>2. \A i, j \in Nat : i < j => <<i, j>> \in R
  BY DEF OpToRel
<1>. HIDE DEF R
<1>3. PICK i \in S : \A j \in S : <<j, i>> \notin R
  <2>1. \E i \in S : \A j \in S : ~ (<<j, i>> \in R)
    BY <1>1, WFMin
  <2>. QED  BY <2>1, Zenon
<1>4. \A j \in S : i <= j
  <2>. TAKE j \in S
  <2>1. ~ (j < i)
    BY <1>2, <1>3
  <2>. QED  BY <2>1
<1>. QED  BY <1>4, Zenon DEF Min

(* A set of positions of the command line has a last one.                  *)
LEMMA LastOne ==
  ASSUME NEW n \in Nat, NEW S, S \subseteq 1 .. n, S # {}
  PROVE  Max(S) \in S /\ \A i \in S : i <= Max(S)
<1>. DEFINE Gaps == {n - i : i \in S}
<1>1. Gaps \subseteq Nat /\ Gaps # {}
  <2>1. \A i \in S : i \in 1 .. n
    OBVIOUS
  <2>2. \A i \in S : n - i \in Nat
    BY <2>1, SMT
  <2>. QED  BY <2>2
<1>2. Min(Gaps) \in Gaps /\ \A j \in Gaps : Min(Gaps) <= j
  BY <1>1, Least
<1>3. PICK i \in S : Min(Gaps) = n - i
  BY <1>2
<1>4. \A j \in S : n - i <= n - j
  BY <1>2, <1>3
<1>5. \A j \in S : i >= j
  BY <1>4
<1>6. Max(S) \in S /\ \A j \in S : Max(S) >= j
  BY <1>5, Zenon DEF Max
<1>. QED  BY <1>6

-----------------------------------------------------------------------------
(* The command line up to the option that is next, and what was stored of  *)
(* it: as long as every number fits an int, of each field what the last    *)
(* option says that stands for it.                                         *)
Parsed == Len(line) - Len(argv)

LastOf(f) ==
  /\ (\A i \in 1 .. Parsed : f \notin DOMAIN Meant(line[i])) => args[f] = Defaults[f]
  /\ \A i \in 1 .. Parsed :
       f \in DOMAIN Meant(line[i]) /\ (\A j \in i + 1 .. Parsed : f \notin DOMAIN Meant(line[j]))
         => args[f] = Meant(line[i])[f]

CommandLine ==
  /\ line \in Seq(Option) /\ argv \in Seq(Option)
  /\ Parsed \in Nat
  /\ \A i \in 1 .. Len(argv) : argv[i] = line[Parsed + i]

Arguments ==
  /\ DOMAIN args = DOMAIN Defaults /\ InRange(args)
  /\ (\A i \in 1 .. Parsed : FitsInt(line[i].num)) => \A f \in Picture : LastOf(f)

Ready ==
  /\ argpc \in {"parse", "ready", "left", "overrun"}
  /\ argpc = "ready" => argv = <<>> /\ opts.threads > 0

ArgsInv == CommandLine /\ Arguments /\ Ready

(* Before the first option all fields have their defaults.                 *)
LEMMA ArgsStart == Init => ArgsInv
<1>. SUFFICES ASSUME Init PROVE ArgsInv
  OBVIOUS
<1>. USE DEF Init, ArgsInit
<1>1. line \in Seq(Option) /\ argv = line
  BY ArgsAssumption
<1>2. Parsed = 0
  BY <1>1 DEF Parsed
<1>3. CommandLine
  BY <1>1, <1>2 DEF CommandLine
<1>4. InRange(args)
  BY ArgsAssumption DEF InRange, Defaults
<1>5. Arguments
  BY <1>2, <1>4 DEF Arguments, LastOf
<1>. QED  BY <1>3, <1>5 DEF ArgsInv, Ready

(* An option goes from the one list to the other.                          *)
LEMMA OneParsed ==
  ASSUME CommandLine, NEW o, Parsing(o), argv' = Tail(argv), line' = line
  PROVE  /\ CommandLine' /\ Parsed' = Parsed + 1
         /\ Parsed + 1 \in 1 .. Len(line) /\ o = line[Parsed + 1] /\ o \in Option
<1>1. argv \in Seq(Option) /\ argv # <<>> /\ o = argv[1]
  BY DEF CommandLine, Parsing
<1>2. /\ Len(argv) \in Nat \ {0} /\ Tail(argv) \in Seq(Option) /\ Len(Tail(argv)) = Len(argv) - 1
      /\ \A i \in 1 .. Len(Tail(argv)) : Tail(argv)[i] = argv[i + 1]
  BY <1>1
<1>3. Len(line) \in Nat /\ Parsed \in Nat /\ Parsed = Len(line) - Len(argv)
  BY DEF CommandLine, Parsed
<1>4. Parsed' = Len(line) - Len(Tail(argv))
  BY DEF Parsed
<1>5. Parsed' = Parsed + 1 /\ Parsed + 1 \in 1 .. Len(line)
  BY <1>2, <1>3, <1>4
<1>6. o = line[Parsed + 1] /\ o \in Option
  BY <1>1, <1>2 DEF CommandLine
<1>7. \A i \in 1 .. Len(Tail(argv)) : Tail(argv)[i] = line[Parsed + 1 + i]
  <2>. TAKE i \in 1 .. Len(Tail(argv))
  <2>1. i + 1 \in 1 .. Len(argv) /\ Parsed + 1 + i = Parsed + (i + 1)
    BY <1>2, <1>3
  <2>. QED  BY <1>2, <2>1 DEF CommandLine
<1>8. CommandLine'
  BY <1>2, <1>5, <1>7, <1>3 DEF CommandLine
<1>. QED  BY <1>5, <1>6, <1>8

(* The option that is next is the last of what it stands for.              *)
LEMMA NextIsLast ==
  ASSUME ArgsInv, NEW o, Parsing(o), argv' = Tail(argv), line' = line, NEW f \in Picture,
         NEW new, Agrees(o, new), LastOf(f), args'[f] = IF f \in DOMAIN new THEN new[f] ELSE args[f]
  PROVE  LastOf(f)'
<1>1. /\ CommandLine /\ Parsed' = Parsed + 1
      /\ Parsed + 1 \in 1 .. Len(line) /\ o = line[Parsed + 1] /\ Parsed \in Nat
  BY OneParsed DEF ArgsInv, CommandLine
<1>3. CASE f \in DOMAIN Meant(o)
  <2>1. args'[f] = Meant(o)[f]
    BY <1>3 DEF Agrees
  <2>2. \A i \in 1 .. Parsed + 1 : (\A j \in i + 1 .. Parsed + 1 : f \notin DOMAIN Meant(line[j])) => i = Parsed + 1
    BY <1>1, <1>3
  <2>. QED  BY <1>1, <1>3, <2>1, <2>2 DEF LastOf
<1>4. CASE f \notin DOMAIN Meant(o)
  <2>1. args'[f] = args[f]
    BY <1>4 DEF Agrees
  <2>2. \A i \in 1 .. Parsed + 1 : f \in DOMAIN Meant(line[i]) => i \in 1 .. Parsed
    BY <1>1, <1>4
  <2>3. \A i \in 1 .. Parsed : i \in 1 .. Parsed + 1 /\ i + 1 .. Parsed \subseteq i + 1 .. Parsed + 1
    BY <1>1
  <2>4. (\A i \in 1 .. Parsed + 1 : f \notin DOMAIN Meant(line[i])) => args'[f] = Defaults[f]
    BY <2>1, <2>3 DEF LastOf
  <2>5. ASSUME NEW i \in 1 .. Parsed + 1, f \in DOMAIN Meant(line[i]),
               \A j \in i + 1 .. Parsed + 1 : f \notin DOMAIN Meant(line[j])
        PROVE  args'[f] = Meant(line[i])[f]
    BY <2>1, <2>2, <2>3, <2>5 DEF LastOf
  <2>6. LastOf(f)' <=> /\ (\A i \in 1 .. Parsed + 1 : f \notin DOMAIN Meant(line[i])) => args'[f] = Defaults[f]
                       /\ \A i \in 1 .. Parsed + 1 :
                            f \in DOMAIN Meant(line[i]) /\ (\A j \in i + 1 .. Parsed + 1 : f \notin DOMAIN Meant(line[j]))
                              => args'[f] = Meant(line[i])[f]
    BY <1>1 DEF LastOf, Meant
  <2>. QED  BY <2>4, <2>5, <2>6, Zenon
<1>. QED  BY <1>3, <1>4

(* An option of the picture: it is now the last one of its fields.         *)
LEMMA ParseOptKeeps ==
  ASSUME ArgsInv, NEW o, ParseOpt(o)
  PROVE  ArgsInv'
<1>1. PICK new \in Assigned(o) : args' = Override(args, new)
  BY DEF ParseOpt
<1>2. Parsing(o) /\ argv' = Tail(argv) /\ line' = line /\ argpc' = argpc /\ argpc = "parse"
  BY DEF ParseOpt, Parsing
<1>3. /\ CommandLine /\ CommandLine' /\ Parsed' = Parsed + 1 /\ Parsed \in Nat
      /\ Parsed + 1 \in 1 .. Len(line) /\ o = line[Parsed + 1] /\ o \in Option
  BY <1>2, OneParsed DEF ArgsInv, CommandLine
<1>4. InRange(args) /\ DOMAIN args = DOMAIN Defaults
  BY DEF ArgsInv, Arguments
<1>5. InRange(args')
  <2>1. InRange(new)
    BY StoredInRange
  <2>2. DOMAIN args' = DOMAIN args
    BY <1>1 DEF Override
  <2>3. \A f \in DOMAIN args : args'[f] \in {args[f]} \/ (f \in DOMAIN new /\ args'[f] = new[f])
    BY <1>1 DEF Override
  <2>. QED  BY <1>4, <2>1, <2>2, <2>3 DEF InRange
<1>6. ASSUME \A i \in 1 .. Parsed + 1 : FitsInt(line[i].num), NEW f \in Picture
      PROVE  LastOf(f)'
  <2>1. FitsInt(o.num)
    BY <1>3, <1>6
  <2>2. Agrees(o, new)
    BY <1>3, <2>1, StoredAsMeant
  <2>3. LastOf(f)
    BY <1>3, <1>6 DEF ArgsInv, Arguments
  <2>4. args'[f] = IF f \in DOMAIN new THEN new[f] ELSE args[f]
    BY <1>1, <1>4 DEF Override, Picture, Defaults
  <2>. QED  BY <1>2, <2>2, <2>3, <2>4, NextIsLast
<1>7. DOMAIN args' = DOMAIN Defaults
  BY <1>1, <1>4 DEF Override
<1>8. (\A i \in 1 .. Parsed' : FitsInt(line'[i].num)) => \A f \in Picture : LastOf(f)'
  BY <1>2, <1>3, <1>6
<1>9. Arguments'
  BY <1>5, <1>7, <1>8 DEF Arguments, InRange
<1>. QED  BY <1>2, <1>3, <1>9 DEF ArgsInv, Ready

(* An option for the scheduler stands for none of these fields.            *)
LEMMA ParseRschedKeeps ==
  ASSUME ArgsInv, NEW o, ParseRsched(o)
  PROVE  ArgsInv'
<1>1. /\ Parsing(o) /\ argv' = Tail(argv) /\ line' = line /\ argpc' = argpc /\ argpc = "parse"
      /\ args' = args /\ o.key = "rsched"
  BY DEF ParseRsched, Parsing
<1>2. /\ CommandLine /\ CommandLine' /\ Parsed' = Parsed + 1 /\ Parsed \in Nat
      /\ Parsed + 1 \in 1 .. Len(line)
  BY <1>1, OneParsed DEF ArgsInv, CommandLine
<1>3. InRange(args') /\ DOMAIN args = DOMAIN Defaults
  BY <1>1 DEF ArgsInv, Arguments
<1>4. ASSUME \A i \in 1 .. Parsed + 1 : FitsInt(line[i].num), NEW f \in Picture
      PROVE  LastOf(f)'
  <2>1. LastOf(f)
    BY <1>2, <1>4 DEF ArgsInv, Arguments
  <2>2. Meant(o) = <<>>
    BY <1>1 DEF Meant
  <2>3. Agrees(o, <<>>)
    BY <2>2 DEF Agrees
  <2>4. DOMAIN (<<>>) = {} /\ args'[f] = args[f]
    BY <1>1
  <2>. QED  BY <1>1, <2>1, <2>3, <2>4, NextIsLast
<1>5. (\A i \in 1 .. Parsed' : FitsInt(line'[i].num)) => \A f \in Picture : LastOf(f)'
  BY <1>1, <1>2, <1>4
<1>6. Arguments'
  BY <1>1, <1>3, <1>5 DEF Arguments, InRange
<1>. QED  BY <1>1, <1>2, <1>6 DEF ArgsInv, Ready

(* Every step of the program keeps the invariant of the command line.      *)
LEMMA ArgsStep == ArgsInv /\ [Next]_vars => ArgsInv'
<1>. SUFFICES ASSUME ArgsInv, [Next]_vars PROVE ArgsInv'
  OBVIOUS
<1>1. ASSUME UNCHANGED argVars PROVE ArgsInv'
  BY <1>1 DEF argVars, ArgsInv, CommandLine, Arguments, Ready, Parsed, LastOf, InRange
<1>2. ASSUME NEW o, ParseOpt(o) PROVE ArgsInv'
  BY <1>2, ParseOptKeeps
<1>3. ASSUME NEW o, ParseRsched(o) PROVE ArgsInv'
  BY <1>3, ParseRschedKeeps
<1>4. ASSUME NEW o, Leave(o) \/ Overrun(o) PROVE ArgsInv'
  BY <1>4 DEF Leave, Overrun, ArgsInv, CommandLine, Arguments, Ready, Parsed, LastOf, InRange
<1>5. ASSUME NEW n \in Cores, Configure(n) PROVE ArgsInv'
  <2>1. UNCHANGED <<line, argv, args>> /\ argv = <<>> /\ argpc' = "ready"
    BY <1>5 DEF Configure
  <2>2. CommandLine' /\ Arguments'
    BY <2>1 DEF ArgsInv, CommandLine, Arguments, Parsed, LastOf, InRange
  <2>3. args.threads \in {-1} \cup 1 .. MaxInt
    BY DEF ArgsInv, Arguments, InRange, Defaults
  <2>4. opts'.threads = IF args.threads <= -1 THEN NprocActive(n) ELSE args.threads
    BY <1>5 DEF Configure
  <2>5. opts'.threads > 0
    BY <2>3, <2>4, ArgsAssumption DEF NprocActive
  <2>. QED  BY <2>1, <2>2, <2>5 DEF ArgsInv, Ready
<1>6. CASE Parse
  BY <1>6, <1>2, <1>3, <1>4, <1>5 DEF Parse, ArgsNext
<1>7. CASE Saving
  BY <1>7, <1>1 DEF Saving, Save, OpenFails, Open, RowBegin, RowOutside, FlatPixel, FindRun, Dump, FindRunEnd, Run,
                    RunsWritten, NextComponent, RowEnd, Close
<1>8. CASE Ended
  BY <1>8, <1>1 DEF Ended, vars
<1>9. CASE UNCHANGED vars
  BY <1>9, <1>1 DEF vars
<1>. QED  BY <1>6, <1>7, <1>8, <1>9 DEF Next

(* The fields of the picture have the values of the last options that      *)
(* stand for them, of every command line, and there is a thread to draw.   *)
LEMMA ArgsHold == Spec => []ArgsInv
  BY ArgsStart, ArgsStep, PTL DEF Spec

(* At the end of the line the options parsed up to now are all of them.    *)
LEMMA CountedLast == ArgsInv => LastOneCounts
<1>. SUFFICES ASSUME ArgsInv, argpc = "ready", \A i \in DOMAIN line : FitsInt(line[i].num), NEW f \in Picture
              PROVE  LET setters == {i \in DOMAIN line : f \in DOMAIN Meant(line[i])}
                     IN /\ args[f] = IF setters = {} THEN Defaults[f] ELSE Meant(line[Max(setters)])[f]
                        /\ opts.threads > 0
  BY DEF LastOneCounts
<1>. DEFINE setters == {i \in DOMAIN line : f \in DOMAIN Meant(line[i])}
<1>1. line \in Seq(Option) /\ argv = <<>> /\ opts.threads > 0 /\ Parsed = Len(line)
  BY DEF ArgsInv, CommandLine, Ready, Parsed
<1>2. DOMAIN line = 1 .. Parsed /\ Parsed \in Nat
  BY <1>1
<1>3. LastOf(f)
  BY <1>2 DEF ArgsInv, Arguments
<1>4. setters = {} => args[f] = Defaults[f]
  BY <1>2, <1>3 DEF LastOf
<1>5. ASSUME setters # {} PROVE args[f] = Meant(line[Max(setters)])[f]
  <2>1. setters \subseteq 1 .. Parsed
    BY <1>2
  <2>2. Max(setters) \in setters /\ \A i \in setters : i <= Max(setters)
    BY <1>2, <1>5, <2>1, LastOne
  <2>. DEFINE last == Max(setters)
  <2>3. last \in 1 .. Parsed /\ f \in DOMAIN Meant(line[last])
    BY <2>1, <2>2
  <2>4. \A j \in last + 1 .. Parsed : f \notin DOMAIN Meant(line[j])
    <3>1. \A j \in last + 1 .. Parsed : j \in 1 .. Parsed /\ ~(j <= last)
      BY <1>2, <2>3
    <3>. QED  BY <1>2, <2>2, <3>1
  <2>. HIDE DEF last
  <2>5. args[f] = Meant(line[last])[f]
    BY <1>3, <2>3, <2>4 DEF LastOf
  <2>. QED  BY <2>5 DEF last
<1>. QED  BY <1>1, <1>4, <1>5

(* Fields that several options set have the value of the last of them, or  *)
(* their default, for every command line of numbers that fit an int; and   *)
(* the scheduler is asked for at least one thread.                         *)
THEOREM LastOneWins == Spec => []LastOneCounts
  BY ArgsHold, CountedLast, PTL

-----------------------------------------------------------------------------
(* The histograms.  One key=value sets its field to the value that it      *)
(* says, if the word holds it, and no other field.                         *)
Fields == DOMAIN NoHist

SetBy(h, sub, g) ==
  /\ DOMAIN g = Fields
  /\ \A f \in Fields :
       /\ f # sub.name => g[f] = h[f]
       /\ f = sub.name /\ FitsWord(sub) => g[f] = {Value(sub)}

(* The fields of arg_rsched_hist by name.                                  *)
LEMMA FieldNames == Fields = {"show", "log_scale", "size", "min", "max"}
  BY DEF Fields, NoHist

(* A number that is not cut by the conversion is the one written.          *)
LEMMA NumberSays ==
  ASSUME NEW sub \in SubOpt, sub.num # <<>>, NEW lo, NEW hi, NEW n \in ParseInt(sub.num, sub.unit, lo, hi),
         FitsWord(sub)
  PROVE  n = sub.num[1]
<1>1. sub.unit = "" /\ \E i \in Strtol(sub.num) : n = ToInt(i)
  BY DEF ParseInt
<1>2. PICK i \in Strtol(sub.num) : n = ToInt(i)
  BY <1>1
<1>3. i = sub.num[1]
  BY <1>2 DEF Strtol
<1>4. sub.num \in Seq(Int) /\ FitsInt(sub.num)
  BY <1>1 DEF FitsWord, SubOpt
<1>5. ToInt(sub.num[1]) = sub.num[1]
  BY <1>4 DEF FitsInt
<1>. QED  BY <1>2, <1>3, <1>5

(* A time that fits the word is its number times its unit.                 *)
LEMMA TimeSays ==
  ASSUME NEW sub \in SubOpt, sub.num # <<>>, NEW t \in ParseTime(sub), FitsWord(sub)
  PROVE  t = sub.num[1] * Factor[sub.unit]
<1>1. PICK n \in ParseU64(sub.num), u \in {sub.unit} \cap DOMAIN Factor : t = (n * Factor[u]) % Word
  BY DEF ParseTime
<1>2. u = sub.unit /\ n = sub.num[1]
  BY <1>1 DEF ParseU64
<1>3. sub.unit # ""
  BY <1>1 DEF Factor
<1>4. n * Factor[u] \in 0 .. Word - 1 /\ Word \in Nat
  BY <1>2, <1>3, ArgsAssumption DEF FitsWord
<1>5. \A a, b \in Int : a \in 0 .. b - 1 => a % b = a
  OBVIOUS
<1>6. n * Factor[u] \in Int /\ Word \in Int
  BY <1>4
<1>7. (n * Factor[u]) % Word = n * Factor[u]
  BY <1>4, <1>5, <1>6, Zenon
<1>. QED  BY <1>1, <1>2, <1>7

(* One key=value, by cases of its key.                                     *)
LEMMA OneFieldSet ==
  ASSUME NEW h, DOMAIN h = Fields, NEW sub \in SubOpt, sub.num # <<>>, NEW g \in SubOption(h, sub)
  PROVE  SetBy(h, sub, g)
<1>1. CASE sub.name = "show"
  <2>1. PICK n \in ParseInt(sub.num, sub.unit, 0, 1) : g = [h EXCEPT !["show"] = {n = 1}]
    BY <1>1 DEF SubOption
  <2>2. Value(sub) = (sub.num[1] = 1)
    BY <1>1 DEF Value
  <2>3. FitsWord(sub) => n = sub.num[1]
    BY <2>1, NumberSays
  <2>. QED  BY <1>1, <2>1, <2>2, <2>3, FieldNames DEF SetBy
<1>2. CASE sub.name = "size"
  <2>1. PICK n \in ParseInt(sub.num, sub.unit, 8, 1024) : g = [h EXCEPT !["size"] = {n}]
    BY <1>2 DEF SubOption
  <2>2. Value(sub) = sub.num[1]
    BY <1>2 DEF Value
  <2>3. FitsWord(sub) => n = sub.num[1]
    BY <2>1, NumberSays
  <2>. QED  BY <1>2, <2>1, <2>2, <2>3, FieldNames DEF SetBy
<1>3. CASE sub.name = "log_scale"
  <2>1. PICK n \in ParseInt(sub.num, sub.unit, 0, 1) : g = [h EXCEPT !["log_scale"] = {n = 1}]
    BY <1>3 DEF SubOption
  <2>2. Value(sub) = (sub.num[1] = 1)
    BY <1>3 DEF Value
  <2>3. FitsWord(sub) => n = sub.num[1]
    BY <2>1, NumberSays
  <2>. QED  BY <1>3, <2>1, <2>2, <2>3, FieldNames DEF SetBy
<1>4. CASE sub.name = "min"
  <2>1. PICK t \in ParseTime(sub) : g = [h EXCEPT !["min"] = {t}]
    BY <1>4 DEF SubOption
  <2>2. Value(sub) = sub.num[1] * Factor[sub.unit]
    BY <1>4 DEF Value
  <2>3. FitsWord(sub) => t = sub.num[1] * Factor[sub.unit]
    BY <2>1, TimeSays
  <2>. QED  BY <1>4, <2>1, <2>2, <2>3, FieldNames DEF SetBy
<1>5. CASE sub.name = "max"
  <2>1. PICK t \in ParseTime(sub) : g = [h EXCEPT !["max"] = {t}]
    BY <1>5 DEF SubOption
  <2>2. Value(sub) = sub.num[1] * Factor[sub.unit]
    BY <1>5 DEF Value
  <2>3. FitsWord(sub) => t = sub.num[1] * Factor[sub.unit]
    BY <2>1, TimeSays
  <2>. QED  BY <1>5, <2>1, <2>2, <2>3, FieldNames DEF SetBy
<1>6. CASE sub.name \notin Fields
  <2>1. g = h
    BY <1>6, FieldNames DEF SubOption
  <2>. QED  BY <1>6, <2>1 DEF SetBy
<1>. QED  BY <1>1, <1>2, <1>3, <1>4, <1>5, <1>6, FieldNames

(* A list of them, up to its n-th.                                         *)
After(F, h, subs, n) ==
  F = [j \in 0 .. n |-> IF j = 0 THEN {h} ELSE Item(subs, j, F[j - 1])]

(* The lists after n keys can be told for n + 1.                           *)
LEMMA OneMoreAfter ==
  ASSUME NEW h, NEW subs, NEW n \in Nat, NEW F, After(F, h, subs, n)
  PROVE  \E G : After(G, h, subs, n + 1)
<1>. DEFINE Rhs(E, j) == IF j = 0 THEN {h} ELSE Item(subs, j, E[j - 1])
            G == [j \in 0 .. n + 1 |-> IF j \in 0 .. n THEN F[j] ELSE Rhs(F, j)]
<1>1. \A j \in 0 .. n : F[j] = Rhs(F, j)
  BY Zenon DEF After
<1>2. \A j \in 0 .. n + 1 : j # 0 => j - 1 \in 0 .. n
  OBVIOUS
<1>3. \A j \in 0 .. n + 1 : j # 0 => G[j - 1] = F[j - 1]
  <2>1. \A j \in 0 .. n : j \in 0 .. n + 1
    OBVIOUS
  <2>2. \A j \in 0 .. n : G[j] = F[j]
    BY <2>1, Zenon
  <2>. HIDE DEF G
  <2>. QED  BY <1>2, <2>2, Zenon
<1>4. \A j \in 0 .. n + 1 : G[j] = Rhs(F, j)
  <2>1. \A j \in 0 .. n + 1 : G[j] = IF j \in 0 .. n THEN F[j] ELSE Rhs(F, j)
    BY Zenon
  <2>. HIDE DEF G, Rhs
  <2>. QED  BY <1>1, <2>1, Zenon
<1>5. \A j \in 0 .. n + 1 : Rhs(G, j) = Rhs(F, j)
  <2>. HIDE DEF G
  <2>. QED  BY <1>3, Zenon
<1>6. G = [j \in 0 .. n + 1 |-> Rhs(G, j)]
  <2>1. G = [j \in 0 .. n + 1 |-> G[j]]
    BY Zenon
  <2>2. \A j \in 0 .. n + 1 : G[j] = Rhs(G, j)
    <3>. HIDE DEF G, Rhs
    <3>. QED  BY <1>4, <1>5, Zenon
  <2>. HIDE DEF G, Rhs
  <2>. QED  BY <2>1, <2>2, Zenon
<1>. HIDE DEF G
<1>. QED  BY <1>6, Zenon DEF After

(* ParseHist's recursive function exists up to every n: there is no least  *)
(* one up to which it does not.                                            *)
LEMMA AfterExists ==
  ASSUME NEW h, NEW subs, NEW n \in Nat
  PROVE  \E F : After(F, h, subs, n)
<1>. DEFINE Missing == {m \in Nat : ~ \E F : After(F, h, subs, m)}
<1>1. \E F : After(F, h, subs, 0)
  <2>. DEFINE F == [j \in 0 .. 0 |-> {h}]
  <2>1. F = [j \in 0 .. 0 |-> IF j = 0 THEN {h} ELSE Item(subs, j, F[j - 1])]
    OBVIOUS
  <2>. HIDE DEF F
  <2>. QED  BY <2>1, Zenon DEF After
<1>2. ASSUME Missing # {} PROVE FALSE
  <2>1. PICK m \in Missing : \A k \in Missing : m <= k
    <3>1. Missing \subseteq Nat
      OBVIOUS
    <3>. HIDE DEF Missing
    <3>. QED  BY <1>2, <3>1, Least
  <2>2. m \in Nat /\ m # 0 /\ ~ \E F : After(F, h, subs, m)
    BY <1>1
  <2>3. m - 1 \in Nat /\ ~(m <= m - 1) /\ (m - 1) + 1 = m
    BY <2>2
  <2>4. \E F : After(F, h, subs, m - 1)
    BY <2>1, <2>3
  <2>5. \E F : After(F, h, subs, (m - 1) + 1)
    BY <2>3, <2>4, OneMoreAfter, Zenon
  <2>. QED  BY <2>2, <2>3, <2>5
<1>. QED  BY <1>2

ListSays(h, subs, n, g) ==
  /\ DOMAIN g = Fields
  /\ \A f \in Fields :
       /\ (\A j \in 1 .. n : subs[j].name # f) => g[f] = h[f]
       /\ \A j \in 1 .. n :
            subs[j].name = f /\ (\A m \in j + 1 .. n : subs[m].name # f) /\ FitsWord(subs[j])
              => g[f] = {Value(subs[j])}

(* If n keys set what the last of them says, so do n + 1.                  *)
LEMMA OneMoreSays ==
  ASSUME NEW h, NEW subs, NEW n \in Nat, NEW g, ListSays(h, subs, n, g),
         NEW new, SetBy(g, subs[n + 1], new)
  PROVE  ListSays(h, subs, n + 1, new)
<1>. SUFFICES ASSUME NEW f \in Fields
              PROVE  /\ (\A j \in 1 .. n + 1 : subs[j].name # f) => new[f] = h[f]
                     /\ \A j \in 1 .. n + 1 :
                          subs[j].name = f /\ (\A m \in j + 1 .. n + 1 : subs[m].name # f) /\ FitsWord(subs[j])
                            => new[f] = {Value(subs[j])}
  BY DEF ListSays, SetBy
<1>1. n + 1 \in 1 .. n + 1 /\ \A j \in 1 .. n : j \in 1 .. n + 1
  OBVIOUS
<1>2. (\A j \in 1 .. n + 1 : subs[j].name # f) => new[f] = h[f]
  BY <1>1, Zenon DEF ListSays, SetBy
<1>3. ASSUME NEW j \in 1 .. n + 1, subs[j].name = f, \A m \in j + 1 .. n + 1 : subs[m].name # f, FitsWord(subs[j])
      PROVE  new[f] = {Value(subs[j])}
  <2>1. CASE j = n + 1
    BY <1>3, <2>1, Zenon DEF SetBy
  <2>2. CASE j # n + 1
    <3>1. j \in 1 .. n /\ n + 1 \in j + 1 .. n + 1 /\ \A m \in j + 1 .. n : m \in j + 1 .. n + 1
      BY <2>2
    <3>2. g[f] = {Value(subs[j])}
      BY <1>3, <3>1, Zenon DEF ListSays
    <3>3. new[f] = g[f]
      BY <1>3, <3>1, Zenon DEF SetBy
    <3>. QED  BY <3>2, <3>3
  <2>. QED  BY <2>1, <2>2
<1>. QED  BY <1>2, <1>3

Complete(subs) ==
  \A j \in DOMAIN subs :
    subs[j].name # "" /\ subs[j].num # <<>> /\ subs[j].key < Room /\ subs[j].val < Room

(* No item of a complete list is joined with another, and none is too long *)
(* for the buffers.                                                        *)
LEMMA CompleteFits ==
  ASSUME NEW subs \in Seq(SubOpt), Complete(subs), NEW j \in DOMAIN subs
  PROVE  Fits(subs, j) /\ ~Swallowed(subs, j)
<1>1. j > 1 => j - 1 \in DOMAIN subs
  OBVIOUS
<1>2. ~Joined(subs, j)
  BY <1>1 DEF Joined, Complete
<1>3. KeyLen(subs, j) = subs[j].key
  BY <1>2 DEF KeyLen
<1>. QED  BY <1>2, <1>3 DEF Fits, Swallowed, Complete

(* What ParseHist makes of a complete list is what the list says.          *)
LEMMA ListIsSaid ==
  ASSUME NEW h, DOMAIN h = Fields, NEW subs \in Seq(SubOpt), Complete(subs),
         NEW g \in ParseHist(h, subs)
  PROVE  ListSays(h, subs, Len(subs), g)
<1>1. Len(subs) \in Nat /\ DOMAIN subs = 1 .. Len(subs)
  OBVIOUS
<1>2. PICK F : After(F, h, subs, Len(subs)) /\ g \in F[Len(subs)]
  <2>1. \E F : After(F, h, subs, Len(subs))
    BY <1>1, AfterExists
  <2>. QED  BY <2>1, Zenon DEF ParseHist, HistAfter, After
<1>. DEFINE Wrong == {n \in 0 .. Len(subs) : \E a \in F[n] : ~ListSays(h, subs, n, a)}
<1>3. F[0] = {h}
  <2>1. 0 \in 0 .. Len(subs)
    BY <1>1
  <2>. QED  BY <1>2, <2>1, Zenon DEF After
<1>4. \A a \in F[0] : ListSays(h, subs, 0, a)
  BY <1>3 DEF ListSays
<1>5. ASSUME Wrong # {} PROVE FALSE
  <2>1. PICK n \in Wrong : \A k \in Wrong : n <= k
    <3>1. Wrong \subseteq Nat
      OBVIOUS
    <3>. HIDE DEF Wrong
    <3>. QED  BY <1>5, <3>1, Least
  <2>2. n \in 0 .. Len(subs) /\ n # 0 /\ \E a \in F[n] : ~ListSays(h, subs, n, a)
    BY <1>4
  <2>3. n - 1 \in 0 .. Len(subs) /\ n - 1 \in Nat /\ (n - 1) + 1 = n /\ n \in DOMAIN subs /\ ~(n <= n - 1)
    BY <1>1, <2>2
  <2>4. \A a \in F[n - 1] : ListSays(h, subs, n - 1, a)
    BY <2>1, <2>3
  <2>5. F[n] = Item(subs, n, F[n - 1])
    BY <1>2, <2>2, Zenon DEF After
  <2>6. Fits(subs, n) /\ ~Swallowed(subs, n)
    BY <2>3, CompleteFits
  <2>7. PICK a \in F[n - 1] : \E new \in SubOption(a, subs[n]) : ~ListSays(h, subs, n, new)
    BY <2>2, <2>5, <2>6 DEF Item
  <2>. PICK new \in SubOption(a, subs[n]) : ~ListSays(h, subs, n, new)
    BY <2>7
  <2>8. SetBy(a, subs[n], new)
    <3>1. DOMAIN a = Fields
      BY <2>4 DEF ListSays
    <3>2. subs[n] \in SubOpt
      BY <2>3
    <3>3. subs[n].num # <<>>
      BY <2>3, Zenon DEF Complete
    <3>. QED  BY <3>1, <3>2, <3>3, OneFieldSet
  <2>9. ListSays(h, subs, (n - 1) + 1, new)
    BY <2>3, <2>4, <2>8, OneMoreSays, Zenon
  <2>. QED  BY <2>3, <2>7, <2>9
<1>6. Len(subs) \in 0 .. Len(subs)
  BY <1>1
<1>. QED  BY <1>2, <1>5, <1>6

(* All lists, up to the n-th option of the command line.                   *)
AskedUpTo(n, p, f) ==
  /\ (\A i \in 1 .. n : \A j \in DOMAIN line[i].subs : ~Asks(i, j, p, f)) => hists[p][f] = {}
  /\ \A i \in 1 .. n : \A j \in DOMAIN line[i].subs :
       /\ Asks(i, j, p, f)
       /\ \A k \in i .. n : \A m \in DOMAIN line[k].subs : Asks(k, m, p, f) => k = i /\ m <= j
       /\ FitsWord(line[i].subs[j])
       => hists[p][f] = {Value(line[i].subs[j])}

ListsComplete(n) == \A i \in 1 .. n : line[i].key = "rsched" => WellFormed(line[i])

Lists ==
  ListsComplete(Parsed) =>
    /\ DOMAIN hists = Profiles
    /\ \A p \in Profiles : DOMAIN hists[p] = Fields /\ \A f \in Fields : AskedUpTo(Parsed, p, f)

Configured ==
  argpc = "ready" => /\ opts["run_hist"] = HistOf("run_hist") /\ opts["task_hist"] = HistOf("task_hist")
                     /\ opts["payload_hist"] = HistOf("task_hist")

Overran == argpc = "overrun" => ~ListsWellFormed

HistsInv == Lists /\ Configured /\ Overran

(* What one option more says of a histogram's field.                       *)
Says(n, p, f) ==
  /\ (\A m \in DOMAIN line[n].subs : ~Asks(n, m, p, f)) => hists'[p][f] = hists[p][f]
  /\ \A j \in DOMAIN line[n].subs :
       /\ Asks(n, j, p, f)
       /\ \A m \in DOMAIN line[n].subs : Asks(n, m, p, f) => m <= j
       /\ FitsWord(line[n].subs[j])
       => hists'[p][f] = {Value(line[n].subs[j])}

(* One option more: the last to ask is in it, or is the one it was.        *)
LEMMA AskedGrows ==
  ASSUME NEW n \in Nat, NEW p, NEW f, AskedUpTo(n, p, f), Says(n + 1, p, f), line' = line
  PROVE  AskedUpTo(n + 1, p, f)'
<1>1. n + 1 \in 1 .. n + 1 /\ \A i \in 1 .. n : i \in 1 .. n + 1
  OBVIOUS
<1>2. (\A i \in 1 .. n + 1 : \A j \in DOMAIN line[i].subs : ~Asks(i, j, p, f)) => hists'[p][f] = {}
  BY <1>1, Zenon DEF AskedUpTo, Says
<1>3. ASSUME NEW i \in 1 .. n + 1, NEW j \in DOMAIN line[i].subs, Asks(i, j, p, f),
             \A k \in i .. n + 1 : \A m \in DOMAIN line[k].subs : Asks(k, m, p, f) => k = i /\ m <= j,
             FitsWord(line[i].subs[j])
      PROVE  hists'[p][f] = {Value(line[i].subs[j])}
  <2>1. n + 1 \in i .. n + 1
    OBVIOUS
  <2>2. CASE i = n + 1
    BY <1>3, <2>1, <2>2, Zenon DEF Says
  <2>3. CASE i # n + 1
    <3>1. i \in 1 .. n /\ \A k \in i .. n : k \in i .. n + 1
      BY <2>3
    <3>2. hists[p][f] = {Value(line[i].subs[j])}
      BY <1>3, <3>1, Zenon DEF AskedUpTo
    <3>3. \A m \in DOMAIN line[n + 1].subs : ~Asks(n + 1, m, p, f)
      BY <1>3, <2>1, <2>3, Zenon
    <3>4. hists'[p][f] = hists[p][f]
      BY <3>3, Zenon DEF Says
    <3>. QED  BY <3>2, <3>4
  <2>. QED  BY <2>2, <2>3
<1>4. \A i, j : Asks(i, j, p, f)' <=> Asks(i, j, p, f)
  BY DEF Asks
<1>5. \A i \in 1 .. n + 1 : \A j \in DOMAIN line[i].subs :
        /\ Asks(i, j, p, f)
        /\ \A k \in i .. n + 1 : \A m \in DOMAIN line[k].subs : Asks(k, m, p, f) => k = i /\ m <= j
        /\ FitsWord(line[i].subs[j])
        => hists'[p][f] = {Value(line[i].subs[j])}
  BY <1>3, Zenon
<1>6. AskedUpTo(n + 1, p, f)' <=>
        /\ (\A i \in 1 .. n + 1 : \A j \in DOMAIN line[i].subs : ~Asks(i, j, p, f)) => hists'[p][f] = {}
        /\ \A i \in 1 .. n + 1 : \A j \in DOMAIN line[i].subs :
             /\ Asks(i, j, p, f)
             /\ \A k \in i .. n + 1 : \A m \in DOMAIN line[k].subs : Asks(k, m, p, f) => k = i /\ m <= j
             /\ FitsWord(line[i].subs[j])
             => hists'[p][f] = {Value(line[i].subs[j])}
  BY <1>4 DEF AskedUpTo
<1>. QED  BY <1>2, <1>5, <1>6, Zenon

(* What is not for the scheduler says nothing of a histogram...            *)
LEMMA NothingSaid ==
  ASSUME NEW n, line[n].key # "rsched", UNCHANGED hists, NEW p, NEW f
  PROVE  Says(n, p, f)
<1>1. \A j : ~Asks(n, j, p, f)
  BY DEF Asks
<1>. QED  BY <1>1, Zenon DEF Says

(* ...and what is says it of the one that it names.                        *)
LEMMA SaidOfOne ==
  ASSUME NEW n, line[n] \in Option, line[n].key = "rsched", WellFormed(line[n]), ParseRsched(line[n]),
         DOMAIN hists = Profiles, \A p \in Profiles : DOMAIN hists[p] = Fields
  PROVE  /\ DOMAIN hists' = Profiles
         /\ \A p \in Profiles : DOMAIN hists'[p] = Fields /\ \A f \in Fields : Says(n, p, f)
<1>. DEFINE subs == line[n].subs
<1>1. PICK q \in Profiles \cap {line[n].word}, s \in SubOpts(line[n]) :
        \E h \in ParseHist(hists[q], s) : hists' = [hists EXCEPT ![q] = h]
  BY DEF ParseRsched, ParsedHists
<1>2. s = subs /\ subs \in Seq(SubOpt) /\ Complete(subs)
  BY <1>1 DEF WellFormed, SubOpts, Option, Complete
<1>3. PICK h \in ParseHist(hists[q], subs) : hists' = [hists EXCEPT ![q] = h]
  BY <1>1, <1>2
<1>4. q \in Profiles /\ q = line[n].word
  BY <1>1
<1>5. ListSays(hists[q], subs, Len(subs), h)
  BY <1>2, <1>4, ListIsSaid
<1>6. \A p \in Profiles : hists'[p] = IF p = q THEN h ELSE hists[p]
  BY <1>3
<1>7. DOMAIN hists' = Profiles /\ \A p \in Profiles : DOMAIN hists'[p] = Fields
  BY <1>3, <1>5, <1>6 DEF ListSays
<1>8. ASSUME NEW p \in Profiles, NEW f \in Fields PROVE Says(n, p, f)
  <2>1. CASE p # q
    <3>1. hists'[p] = hists[p] /\ \A j : ~Asks(n, j, p, f)
      BY <1>4, <1>6, <2>1 DEF Asks
    <3>. QED  BY <3>1, Zenon DEF Says
  <2>2. CASE p = q
    <3>1. hists'[p] = h
      BY <1>6, <2>2
    <3>2. \A j : Asks(n, j, p, f) <=> line[n].subs[j].name = f
      BY <1>4, <2>2 DEF Asks
    <3>3. DOMAIN subs = 1 .. Len(subs) /\ Len(subs) \in Nat
      BY <1>2
    <3>4. (\A m \in DOMAIN subs : subs[m].name # f) => h[f] = hists[p][f]
      BY <1>5, <2>2, <3>3, Zenon DEF ListSays
    <3>5. ASSUME NEW j \in DOMAIN subs, subs[j].name = f, \A m \in DOMAIN subs : subs[m].name = f => m <= j,
                 FitsWord(subs[j])
          PROVE  h[f] = {Value(subs[j])}
      <4>. HIDE DEF subs
      <4>1. \A m \in j + 1 .. Len(subs) : m \in DOMAIN subs /\ ~(m <= j)
        BY <3>3
      <4>2. \A m \in j + 1 .. Len(subs) : subs[m].name # f
        BY <3>5, <4>1, Zenon
      <4>3. j \in 1 .. Len(subs)
        BY <3>3
      <4>. QED  BY <1>5, <3>5, <4>2, <4>3, Zenon DEF ListSays
    <3>. QED  BY <3>1, <3>2, <3>4, <3>5, Zenon DEF Says
  <2>. QED  BY <2>1, <2>2
<1>. QED  BY <1>7, <1>8

(* Nothing is asked for at first.                                          *)
LEMMA HistsStart == Init => HistsInv
<1>. SUFFICES ASSUME Init PROVE HistsInv
  OBVIOUS
<1>1. Parsed = 0 /\ hists = [p \in Profiles |-> NoHist] /\ argpc = "parse"
  BY ArgsAssumption DEF Init, ArgsInit, Parsed
<1>2. \A p \in Profiles : DOMAIN hists[p] = Fields /\ \A f \in Fields : hists[p][f] = {}
  BY <1>1 DEF Fields, NoHist
<1>3. \A p \in Profiles : \A f \in Fields : AskedUpTo(0, p, f)
  BY <1>2 DEF AskedUpTo
<1>4. DOMAIN hists = Profiles
  BY <1>1
<1>. QED  BY <1>1, <1>2, <1>3, <1>4 DEF HistsInv, Lists, Configured, Overran

(* A step of the parser keeps the histograms' lists.                       *)
LEMMA OptionKeepsLists ==
  ASSUME ArgsInv, HistsInv, NEW o, ParseOpt(o) \/ ParseRsched(o)
  PROVE  HistsInv'
<1>1. Parsing(o) /\ argv' = Tail(argv) /\ line' = line /\ argpc' = argpc /\ argpc = "parse"
  BY DEF ParseOpt, ParseRsched, Parsing
<1>2. /\ Parsed' = Parsed + 1 /\ Parsed \in Nat /\ o = line[Parsed + 1] /\ o \in Option
  BY <1>1, OneParsed DEF ArgsInv, CommandLine
<1>. PICK n \in Nat : n = Parsed
  BY <1>2
<1>3. ASSUME ListsComplete(n + 1)
      PROVE  /\ DOMAIN hists' = Profiles
             /\ \A p \in Profiles : DOMAIN hists'[p] = Fields /\ \A f \in Fields : AskedUpTo(n + 1, p, f)'
  <2>1. ListsComplete(n)
    BY <1>2, <1>3 DEF ListsComplete
  <2>2. /\ DOMAIN hists = Profiles
        /\ \A p \in Profiles : DOMAIN hists[p] = Fields /\ \A f \in Fields : AskedUpTo(n, p, f)
    BY <2>1, Zenon DEF HistsInv, Lists
  <2>3. /\ DOMAIN hists' = Profiles
        /\ \A p \in Profiles : DOMAIN hists'[p] = Fields /\ \A f \in Fields : Says(n + 1, p, f)
    <3>1. CASE ParseOpt(o)
      <4>1. hists' = hists /\ line[n + 1].key # "rsched"
        BY <1>2, <3>1 DEF ParseOpt
      <4>2. \A p, f : Says(n + 1, p, f)
        BY <4>1, NothingSaid
      <4>. QED  BY <2>2, <4>1, <4>2
    <3>2. CASE ParseRsched(o)
      <4>1. o.key = "rsched"
        BY <3>2 DEF ParseRsched
      <4>2. WellFormed(o)
        BY <1>2, <1>3, <4>1 DEF ListsComplete
      <4>. QED  BY <1>2, <2>2, <3>2, <4>1, <4>2, SaidOfOne
    <3>. QED  BY <3>1, <3>2
  <2>4. \A p \in Profiles : \A f \in Fields : AskedUpTo(n + 1, p, f)'
    <3>. TAKE p \in Profiles
    <3>. TAKE f \in Fields
    <3>1. AskedUpTo(n, p, f) /\ Says(n + 1, p, f)
      BY <2>2, <2>3
    <3>. QED  BY <1>1, <1>2, <3>1, AskedGrows
  <2>. QED  BY <2>3, <2>4
<1>4. Configured' /\ Overran'
  BY <1>1 DEF Configured, Overran
<1>5. Lists'
  <2>1. Parsed' = n + 1
    BY <1>2
  <2>2. ListsComplete(n + 1)' <=> ListsComplete(n + 1)
    BY <1>1 DEF ListsComplete
  <2>. QED  BY <1>3, <2>1, <2>2 DEF Lists
<1>. QED  BY <1>4, <1>5 DEF HistsInv

(* A step that parses nothing keeps the lists.                             *)
LEMMA ListsStay ==
  ASSUME HistsInv, UNCHANGED <<line, argv, hists>>
  PROVE  Lists'
<1>1. Parsed' = Parsed
  BY DEF Parsed
<1>2. \A i, j, p, f : Asks(i, j, p, f)' <=> Asks(i, j, p, f)
  BY DEF Asks
<1>3. \A n, p, f : AskedUpTo(n, p, f)' <=> AskedUpTo(n, p, f)
  BY <1>2 DEF AskedUpTo
<1>4. \A n : ListsComplete(n)' <=> ListsComplete(n)
  BY DEF ListsComplete
<1>. QED  BY <1>1, <1>3, <1>4 DEF HistsInv, Lists

(* A step of the file changes nothing of the command line.                 *)
LEMMA HistsStay ==
  ASSUME HistsInv, UNCHANGED argVars
  PROVE  HistsInv'
<1>1. UNCHANGED <<line, argv, hists, opts, argpc>>
  BY DEF argVars
<1>2. Configured' /\ Overran'
  BY <1>1 DEF HistsInv, Configured, HistOf, Overran, ListsWellFormed
<1>. QED  BY <1>1, <1>2, ListsStay DEF HistsInv

(* What overruns a buffer is no well-formed list.                          *)
LEMMA OverrunKeeps ==
  ASSUME ArgsInv, HistsInv, NEW o, Overrun(o)
  PROVE  HistsInv'
<1>1. UNCHANGED <<line, argv, hists>> /\ argpc' = "overrun"
  BY DEF Overrun
<1>2. o.key = "rsched" /\ o \in Option /\ \E i \in DOMAIN line : line[i] = o
  <2>1. argv \in Seq(Option) /\ argv # <<>> /\ o = argv[1] /\ o.key = "rsched"
    BY DEF Overrun, Parsing, ArgsInv, CommandLine
  <2>2. 1 \in 1 .. Len(argv) /\ Parsed + 1 \in DOMAIN line
    <3>1. line \in Seq(Option) /\ Parsed \in Nat /\ Len(argv) \in Nat \ {0}
      BY <2>1 DEF ArgsInv, CommandLine
    <3>. QED  BY <3>1 DEF Parsed
  <2>3. line[Parsed + 1] = argv[1]
    BY <2>2 DEF ArgsInv, CommandLine
  <2>. QED  BY <2>1, <2>2, <2>3
<1>3. ASSUME WellFormed(o) PROVE FALSE
  <2>1. SubOpts(o) = {o.subs} /\ o.subs \in Seq(SubOpt) /\ Complete(o.subs)
    BY <1>2, <1>3 DEF WellFormed, SubOpts, Option, Complete
  <2>2. \E h : Overruns(h, o.subs)
    BY <2>1 DEF Overrun, OverrunBy
  <2>. QED  BY <2>1, <2>2, CompleteFits DEF Overruns
<1>4. ~ListsWellFormed'
  BY <1>1, <1>2, <1>3 DEF ListsWellFormed
<1>. QED  BY <1>1, <1>4, ListsStay DEF HistsInv, Configured, Overran

(* Every step of the program keeps the histograms' invariant.              *)
LEMMA HistsStep == ArgsInv /\ HistsInv /\ [Next]_vars => HistsInv'
<1>. SUFFICES ASSUME ArgsInv, HistsInv, [Next]_vars PROVE HistsInv'
  OBVIOUS
<1>1. ASSUME NEW o, ParseOpt(o) \/ ParseRsched(o) PROVE HistsInv'
  BY <1>1, OptionKeepsLists
<1>2. ASSUME NEW o, Leave(o) PROVE HistsInv'
  <2>1. UNCHANGED <<line, argv, hists>> /\ argpc' = "left"
    BY <1>2 DEF Leave
  <2>. QED  BY <2>1, ListsStay DEF HistsInv, Configured, Overran
<1>3. ASSUME NEW n \in Cores, Configure(n) PROVE HistsInv'
  <2>1. UNCHANGED <<line, argv, hists>>
    BY <1>3 DEF Configure
  <2>2. /\ opts'["run_hist"] = HistOf("run_hist") /\ opts'["task_hist"] = HistOf("task_hist")
        /\ opts'["payload_hist"] = HistOf("task_hist")
    BY <1>3 DEF Configure
  <2>3. Configured' /\ Overran'
    BY <1>3, <2>1, <2>2 DEF Configure, Configured, HistOf, Overran
  <2>. QED  BY <2>1, <2>3, ListsStay DEF HistsInv
<1>4. CASE Parse
  BY <1>1, <1>2, <1>3, <1>4, OverrunKeeps DEF Parse, ArgsNext
<1>5. CASE Saving
  BY <1>5, HistsStay DEF Saving, Save, OpenFails, Open, RowBegin, RowOutside, FlatPixel, FindRun, Dump, FindRunEnd, Run,
                         RunsWritten, NextComponent, RowEnd, Close
<1>6. CASE UNCHANGED vars \/ Ended
  BY <1>6, HistsStay DEF Ended, vars
<1>. QED  BY <1>4, <1>5, <1>6 DEF Next

(* When the options are made, those parsed up to now are all of them.      *)
LEMMA MadeAsAsked == ArgsInv /\ HistsInv => HistsAsAsked
<1>0. ArgsInv /\ HistsInv /\ ListsWellFormed => argpc # "overrun"
  BY DEF HistsInv, Overran
<1>p. ArgsInv /\ HistsInv /\ argpc = "ready" => opts["payload_hist"] = opts["task_hist"]
  BY DEF HistsInv, Configured
<1>. SUFFICES ASSUME ArgsInv, HistsInv, argpc = "ready", ListsWellFormed,
                     NEW p \in {"run_hist", "task_hist"}, NEW f \in DOMAIN NoHist
              PROVE  /\ (\A i \in DOMAIN line : \A j \in DOMAIN line[i].subs : ~Asks(i, j, p, f))
                          => opts[p][f] = HistDefaults[p][f]
                     /\ \A i \in DOMAIN line : \A j \in DOMAIN line[i].subs :
                          LastToAsk(i, j, p, f) /\ FitsWord(line[i].subs[j])
                            => opts[p][f] = Value(line[i].subs[j])
  BY <1>0, <1>p, Zenon DEF HistsAsAsked, AsAsked
<1>1. line \in Seq(Option) /\ argv = <<>> /\ Parsed = Len(line)
  BY DEF ArgsInv, CommandLine, Ready, Parsed
<1>2. DOMAIN line = 1 .. Parsed
  BY <1>1
<1>3. p \in Profiles /\ f \in Fields
  BY DEF Profiles, Fields
<1>4. ListsComplete(Parsed)
  BY <1>2 DEF ListsComplete, ListsWellFormed
<1>5. AskedUpTo(Parsed, p, f)
  BY <1>3, <1>4, Zenon DEF HistsInv, Lists
<1>6. opts[p][f] = OptionalGet(hists[p][f], HistDefaults[p][f])
  <2>1. opts[p] = HistOf(p)
    BY DEF HistsInv, Configured
  <2>. QED  BY <2>1 DEF HistOf
<1>7. (\A i \in DOMAIN line : \A j \in DOMAIN line[i].subs : ~Asks(i, j, p, f))
        => opts[p][f] = HistDefaults[p][f]
  <2>. HAVE \A i \in DOMAIN line : \A j \in DOMAIN line[i].subs : ~Asks(i, j, p, f)
  <2>1. hists[p][f] = {}
    BY <1>2, <1>5, Zenon DEF AskedUpTo
  <2>. QED  BY <1>6, <2>1 DEF OptionalGet
<1>8. ASSUME NEW i \in DOMAIN line, NEW j \in DOMAIN line[i].subs, LastToAsk(i, j, p, f),
             FitsWord(line[i].subs[j])
      PROVE  opts[p][f] = Value(line[i].subs[j])
  <2>1. Asks(i, j, p, f) /\ \A k \in i .. Parsed : \A m \in DOMAIN line[k].subs :
                              Asks(k, m, p, f) => k = i /\ m <= j
    BY <1>1, <1>8, Zenon DEF LastToAsk
  <2>2. hists[p][f] = {Value(line[i].subs[j])}
    BY <1>2, <1>5, <1>8, <2>1, Zenon DEF AskedUpTo
  <2>3. \A v, d : OptionalGet({v}, d) = v
    BY DEF OptionalGet
  <2>. QED  BY <1>6, <2>2, <2>3
<1>. QED  BY <1>7, <1>8

(* Each field of the two histograms is what the last key=value of a whole  *)
(* command line says of it, if its word can say it, or the default: when   *)
(* no key or value is longer than its buffer, which then is not overrun.   *)
THEOREM HistsAreAsAsked == Spec => []HistsAsAsked
<1>1. Init => ArgsInv /\ HistsInv
  BY ArgsStart, HistsStart
<1>2. ArgsInv /\ HistsInv /\ [Next]_vars => (ArgsInv /\ HistsInv)'
  BY ArgsStep, HistsStep
<1>. QED  BY <1>1, <1>2, MadeAsAsked, PTL DEF Spec

-----------------------------------------------------------------------------
(* The reader.  A function that decodes, from every position on.           *)
Byte == 0 .. Bytes - 1

Decoder(F, code) ==
  F = [i \in 1 .. Len(code) + Bytes + 1 |->
         IF i > Len(code) THEN <<>>
         ELSE IF code[i] > Half
              THEN [k \in 1 .. code[i] - Half |-> code[i + 1]] \o F[i + 2]
              ELSE SubSeq(code, i + 1, i + code[i]) \o F[i + 1 + code[i]]]

(* It exists: one position after the other, from the end.                  *)
Tailed(code, n) ==
  \E F : F = [i \in Len(code) - n + 1 .. Len(code) + Bytes + 1 |->
                IF i > Len(code) THEN <<>>
                ELSE IF code[i] > Half
                     THEN [k \in 1 .. code[i] - Half |-> code[i + 1]] \o F[i + 2]
                     ELSE SubSeq(code, i + 1, i + code[i]) \o F[i + 1 + code[i]]]

(* A function that decodes from n positions before the end extends to one  *)
(* more.                                                                   *)
LEMMA OneMorePosition ==
  ASSUME NEW code \in Seq(Byte), NEW n \in 0 .. Len(code) - 1, Tailed(code, n)
  PROVE  Tailed(code, n + 1)
<1>. DEFINE N == Len(code)
            From == N - n .. N + Bytes + 1
            Rest == N - n + 1 .. N + Bytes + 1
            Rhs(F, i) == IF i > N THEN <<>>
                         ELSE IF code[i] > Half
                              THEN [k \in 1 .. code[i] - Half |-> code[i + 1]] \o F[i + 2]
                              ELSE SubSeq(code, i + 1, i + code[i]) \o F[i + 1 + code[i]]
<1>1. PICK F : F = [i \in Rest |-> Rhs(F, i)]
  BY DEF Tailed
<1>. DEFINE G == [i \in From |-> IF i = N - n THEN Rhs(F, i) ELSE F[i]]
<1>2. Half \in Nat \ {0, 1} /\ Bytes \in Nat /\ Bytes = 2 * Half /\ N \in Nat
  BY OneshotAssumption DEF Bytes
<1>3. \A i \in Rest : G[i] = F[i] /\ i # N - n /\ i \in From
  BY <1>2
<1>4. \A i \in From : i <= N => /\ code[i] \in Byte /\ i + 2 \in Rest
                                /\ i + 1 + code[i] \in Rest
  <2>. TAKE i \in From
  <2>. HAVE i <= N
  <2>1. i \in 1 .. N /\ i >= N - n
    BY <1>2
  <2>2. code[i] \in Byte
    BY <2>1
  <2>3. code[i] \in Int /\ 0 <= code[i] /\ code[i] <= Bytes - 1
    BY <2>2, <1>2 DEF Byte
  <2>. QED  BY <1>2, <2>1, <2>2, <2>3
<1>5. \A i \in From : i <= N => G[i + 2] = F[i + 2] /\ G[i + 1 + code[i]] = F[i + 1 + code[i]]
  BY <1>3, <1>4
<1>6. \A i \in From : ~(i > N) => i <= N
  BY <1>2
<1>7. \A i \in From : Rhs(G, i) = Rhs(F, i)
  <2>. HIDE DEF G, From, Rest, N
  <2>. QED  BY <1>5, <1>6, Zenon
<1>8. \A i \in From : G[i] = Rhs(F, i)
  <2>1. \A i \in From : i = N - n \/ i \in Rest
    BY <1>2
  <2>2. \A i \in Rest : F[i] = Rhs(F, i)
    <3>. HIDE DEF Rhs, Rest
    <3>. QED  BY <1>1
  <2>. HIDE DEF Rhs, Rest
  <2>. QED  BY <1>3, <2>1, <2>2
<1>9. G = [i \in From |-> Rhs(G, i)]
  <2>1. G = [i \in From |-> G[i]]
    OBVIOUS
  <2>. HIDE DEF G, Rhs, From
  <2>. QED  BY <1>7, <1>8, <2>1
<1>10. From = Len(code) - (n + 1) + 1 .. Len(code) + Bytes + 1
  BY <1>2
<1>. HIDE DEF G
<1>. QED  BY <1>9, <1>10 DEF Tailed

(* There is no least n from which no function decodes: one decodes the     *)
(* whole code.                                                             *)
LEMMA DecoderExists ==
  ASSUME NEW code \in Seq(Byte)
  PROVE  \E F : Decoder(F, code)
<1>. DEFINE N == Len(code)
            Missing == {n \in 0 .. N : ~Tailed(code, n)}
<1>1. N \in Nat
  OBVIOUS
<1>2. Half \in Nat \ {0, 1} /\ Bytes \in Nat /\ Bytes = 2 * Half
  BY OneshotAssumption DEF Bytes
<1>3. Tailed(code, 0)
  <2>. DEFINE F == [i \in N + 1 .. N + Bytes + 1 |-> <<>>]
  <2>1. \A i \in N - 0 + 1 .. N + Bytes + 1 : i > N
    BY <1>1, <1>2
  <2>2. N - 0 + 1 = N + 1
    BY <1>1
  <2>3. F = [i \in N - 0 + 1 .. N + Bytes + 1 |->
               IF i > N THEN <<>>
               ELSE IF code[i] > Half
                    THEN [k \in 1 .. code[i] - Half |-> code[i + 1]] \o F[i + 2]
                    ELSE SubSeq(code, i + 1, i + code[i]) \o F[i + 1 + code[i]]]
    BY <2>1, <2>2
  <2>. QED  BY <2>3, Zenon DEF Tailed
<1>4. ASSUME Missing # {} PROVE FALSE
  <2>1. Missing \subseteq Nat
    OBVIOUS
  <2>2. PICK n \in Missing : \A m \in Missing : n <= m
    <3>. HIDE DEF Missing
    <3>. QED  BY <1>4, <2>1, Least
  <2>3. n \in 0 .. N /\ n # 0
    BY <1>3
  <2>4. n - 1 \in 0 .. N - 1 /\ n - 1 \in 0 .. N /\ ~(n <= n - 1)
    BY <1>1, <2>3
  <2>5. Tailed(code, n - 1)
    BY <2>2, <2>4
  <2>6. Tailed(code, (n - 1) + 1)
    BY <2>4, <2>5, OneMorePosition, Zenon
  <2>. QED  BY <2>2, <2>3, <2>6
<1>5. Tailed(code, N)
  BY <1>1, <1>4
<1>6. N - N + 1 = 1
  BY <1>1
<1>. QED  BY <1>5, <1>6, Zenon DEF Tailed, Decoder

(* Decoded is what any such function makes of the first position.          *)
LEMMA DecodedIs ==
  ASSUME NEW code \in Seq(Byte)
  PROVE  \E F : Decoder(F, code) /\ Decoded(code) = F[1]
  BY DecoderExists, Zenon DEF Decoded, Decoder

Repeated(n, b) == [k \in 1 .. n |-> b]

(* What a decoder makes of one record of the format.                       *)
LEMMA DecoderUnfolds ==
  ASSUME NEW code \in Seq(Byte), NEW F, Decoder(F, code), NEW i \in 1 .. Len(code)
  PROVE  /\ code[i] > Half => F[i] = Repeated(code[i] - Half, code[i + 1]) \o F[i + 2]
         /\ ~(code[i] > Half) => F[i] = SubSeq(code, i + 1, i + code[i]) \o F[i + 1 + code[i]]
<1>1. i \in 1 .. Len(code) + Bytes + 1 /\ ~(i > Len(code))
  BY OneshotAssumption DEF Bytes
<1>. QED  BY <1>1, Zenon DEF Decoder, Repeated

(* Behind the code nothing is decoded.                                     *)
LEMMA DecoderEnds ==
  ASSUME NEW code \in Seq(Byte), NEW F, Decoder(F, code)
  PROVE  F[Len(code) + 1] = <<>>
<1>1. Len(code) + 1 \in 1 .. Len(code) + Bytes + 1 /\ Len(code) + 1 > Len(code)
  BY OneshotAssumption DEF Bytes
<1>. QED  BY <1>1, Zenon DEF Decoder

(* code stands for done: however it goes on, a reader has read done when   *)
(* it comes to the end of code.                                            *)
StandsFor(code, done) ==
  \A more \in Seq(Byte) : \A F :
    /\ Len(more) >= Len(code) /\ \A i \in 1 .. Len(code) : more[i] = code[i]
    /\ Decoder(F, more)
    /\ F[Len(code) + 1] \in Seq(Byte)
    => F[1] = done \o F[Len(code) + 1]

(* An encoder that has written nothing has passed nothing.                 *)
LEMMA NothingStandsForNothing == StandsFor(<<>>, <<>>)
<1>1. Len(<<>>) + 1 = 1
  OBVIOUS
<1>2. \A s \in Seq(Byte) : s = <<>> \o s
  OBVIOUS
<1>. QED  BY <1>1, <1>2, Zenon DEF StandsFor

(* A code that ends where it is decodes to what it stands for.             *)
LEMMA ReadsBack ==
  ASSUME NEW code \in Seq(Byte), NEW done \in Seq(Byte), StandsFor(code, done)
  PROVE  Decoded(code) = done
<1>1. PICK F : Decoder(F, code) /\ Decoded(code) = F[1]
  BY DecodedIs
<1>2. F[Len(code) + 1] = <<>> /\ <<>> \in Seq(Byte)
  BY <1>1, DecoderEnds
<1>3. Len(code) >= Len(code)
  OBVIOUS
<1>4. F[1] = done \o <<>>
  BY <1>1, <1>2, <1>3 DEF StandsFor
<1>5. done \o <<>> = done
  OBVIOUS
<1>. QED  BY <1>1, <1>4, <1>5

(* Appending is associative.                                               *)
LEMMA Associative == \A a, b, d \in Seq(Byte) : (a \o b) \o d = a \o (b \o d)
<1>. SUFFICES ASSUME NEW a \in Seq(Byte), NEW b \in Seq(Byte), NEW d \in Seq(Byte)
              PROVE  (a \o b) \o d = a \o (b \o d)
  OBVIOUS
<1>. QED  BY ConcatAssociative, SMTT(30)

(* A record of some bytes, and one of a run.                               *)
LEMMA OneMoreRecord ==
  ASSUME NEW code \in Seq(Byte), NEW done \in Seq(Byte), StandsFor(code, done),
         NEW record \in Seq(Byte), NEW bytes \in Seq(Byte),
         \A more \in Seq(Byte) : \A F :
           /\ Len(more) >= Len(code) + Len(record)
           /\ \A i \in 1 .. Len(record) : more[Len(code) + i] = record[i]
           /\ Decoder(F, more)
           => F[Len(code) + 1] = bytes \o F[Len(code) + Len(record) + 1]
  PROVE  StandsFor(code \o record, done \o bytes)
<1>0. \A d \in Seq(Byte) : done \o (bytes \o d) = (done \o bytes) \o d
  BY Associative, Zenon
<1>1. /\ code \o record \in Seq(Byte)
      /\ Len(code \o record) = Len(code) + Len(record)
      /\ Len(code) \in Nat /\ Len(record) \in Nat
      /\ \A i \in 1 .. Len(code) : (code \o record)[i] = code[i]
      /\ \A i \in 1 .. Len(record) : (code \o record)[Len(code) + i] = record[i]
  OBVIOUS
<1>. SUFFICES ASSUME NEW more \in Seq(Byte), NEW F, Len(more) >= Len(code \o record),
                     \A i \in 1 .. Len(code \o record) : more[i] = (code \o record)[i],
                     Decoder(F, more), F[Len(code \o record) + 1] \in Seq(Byte)
              PROVE  F[1] = (done \o bytes) \o F[Len(code \o record) + 1]
  BY DEF StandsFor
<1>. DEFINE rest == F[Len(code) + Len(record) + 1]
<1>2. rest \in Seq(Byte) /\ rest = F[Len(code \o record) + 1]
  BY <1>1
<1>3. \A i \in 1 .. Len(code) : more[i] = code[i]
  <2>1. \A i \in 1 .. Len(code) : i \in 1 .. Len(code \o record)
    BY <1>1
  <2>. QED  BY <1>1, <2>1
<1>4. \A i \in 1 .. Len(record) : more[Len(code) + i] = record[i]
  <2>1. \A i \in 1 .. Len(record) : Len(code) + i \in 1 .. Len(code \o record)
    BY <1>1
  <2>. QED  BY <1>1, <2>1
<1>5. Len(more) >= Len(code) /\ Len(more) >= Len(code) + Len(record)
  BY <1>1
<1>6. F[Len(code) + 1] = bytes \o rest
  BY <1>4, <1>5
<1>. HIDE DEF rest
<1>7. rest \in Seq(Byte) => bytes \o rest \in Seq(Byte)
  OBVIOUS
<1>8. F[1] = done \o F[Len(code) + 1]
  <2>1. F[Len(code) + 1] \in Seq(Byte)
    BY <1>2, <1>6, <1>7
  <2>. QED  BY <1>3, <1>5, <2>1, Zenon DEF StandsFor
<1>. QED  BY <1>2, <1>6, <1>8, <1>0

(* A dump: a length of at most Half and that many bytes.                   *)
LEMMA DumpRecord ==
  ASSUME NEW code \in Seq(Byte), NEW done \in Seq(Byte), StandsFor(code, done),
         NEW bytes \in Seq(Byte), Len(bytes) <= Half
  PROVE  /\ code \o (<<Len(bytes)>> \o bytes) \in Seq(Byte)
         /\ StandsFor(code \o (<<Len(bytes)>> \o bytes), done \o bytes)
<1>. DEFINE record == <<Len(bytes)>> \o bytes
<1>1. Half \in Nat \ {0, 1} /\ Bytes \in Nat /\ Bytes = 2 * Half /\ Len(code) \in Nat /\ Len(bytes) \in Nat
  BY OneshotAssumption DEF Bytes
<1>2. Len(bytes) \in Byte
  BY <1>1 DEF Byte
<1>3. /\ record \in Seq(Byte) /\ Len(record) = Len(bytes) + 1
      /\ record[1] = Len(bytes) /\ \A i \in 1 .. Len(bytes) : record[i + 1] = bytes[i]
  BY <1>2
<1>. HIDE DEF record
<1>4. ASSUME NEW more \in Seq(Byte), NEW F, Len(more) >= Len(code) + Len(record),
             \A i \in 1 .. Len(record) : more[Len(code) + i] = record[i], Decoder(F, more)
      PROVE  F[Len(code) + 1] = bytes \o F[Len(code) + Len(record) + 1]
  <2>. DEFINE i == Len(code) + 1
  <2>1. i \in 1 .. Len(more) /\ 1 \in 1 .. Len(record)
    BY <1>1, <1>3, <1>4
  <2>2. more[i] = Len(bytes)
    BY <1>3, <1>4, <2>1
  <2>3. ~(more[i] > Half)
    BY <1>1, <2>2
  <2>4. F[i] = SubSeq(more, i + 1, i + Len(bytes)) \o F[i + 1 + Len(bytes)]
    <3>. HIDE DEF i
    <3>1. F[i] = SubSeq(more, i + 1, i + more[i]) \o F[i + 1 + more[i]]
      BY <2>1, <2>3, <1>4, DecoderUnfolds, Zenon
    <3>. QED  BY <2>2, <3>1
  <2>5. \A k \in 1 .. Len(bytes) : more[i + k] = bytes[k]
    <3>. TAKE k \in 1 .. Len(bytes)
    <3>1. k + 1 \in 1 .. Len(record) /\ Len(code) + (k + 1) = i + k
      BY <1>1, <1>3
    <3>. QED  BY <1>3, <1>4, <3>1
  <2>6. SubSeq(more, i + 1, i + Len(bytes)) = bytes
    <3>1. i + Len(bytes) <= Len(more) /\ i \in Nat
      BY <1>1, <1>3, <1>4
    <3>2. SubSeq(more, i + 1, i + Len(bytes)) \in Seq(Byte)
          /\ Len(SubSeq(more, i + 1, i + Len(bytes))) = Len(bytes)
          /\ \A k \in 1 .. Len(bytes) : SubSeq(more, i + 1, i + Len(bytes))[k] = more[i + k]
      BY <1>1, <3>1
    <3>. QED  BY <2>5, <3>2
  <2>7. i + 1 + Len(bytes) = Len(code) + Len(record) + 1
    BY <1>1, <1>3
  <2>. QED  BY <2>4, <2>6, <2>7
<1>5. StandsFor(code \o record, done \o bytes)
  BY <1>3, <1>4, OneMoreRecord
<1>. QED  BY <1>3, <1>5 DEF record

(* A run: a length above Half and the byte that is repeated.               *)
LEMMA RunRecord ==
  ASSUME NEW code \in Seq(Byte), NEW done \in Seq(Byte), StandsFor(code, done),
         NEW n \in 1 .. Half - 1, NEW b \in Byte
  PROVE  /\ code \o <<n + Half, b>> \in Seq(Byte)
         /\ StandsFor(code \o <<n + Half, b>>, done \o Repeated(n, b))
<1>. DEFINE record == <<n + Half, b>>
            bytes == Repeated(n, b)
<1>1. Half \in Nat \ {0, 1} /\ Bytes \in Nat /\ Bytes = 2 * Half /\ Len(code) \in Nat
  BY OneshotAssumption DEF Bytes
<1>2. n + Half \in Byte
  BY <1>1 DEF Byte
<1>3. record \in Seq(Byte) /\ Len(record) = 2 /\ record[1] = n + Half /\ record[2] = b
  BY <1>2
<1>4. bytes \in Seq(Byte)
  BY <1>1 DEF Repeated
<1>5. ASSUME NEW more \in Seq(Byte), NEW F, Len(more) >= Len(code) + Len(record),
             \A i \in 1 .. Len(record) : more[Len(code) + i] = record[i], Decoder(F, more)
      PROVE  F[Len(code) + 1] = bytes \o F[Len(code) + Len(record) + 1]
  <2>. DEFINE i == Len(code) + 1
  <2>1. i \in 1 .. Len(more) /\ 1 \in 1 .. Len(record) /\ 2 \in 1 .. Len(record)
    BY <1>1, <1>3, <1>5
  <2>2. more[i] = n + Half /\ more[i + 1] = b
    <3>1. Len(code) + 2 = i + 1
      BY <1>1
    <3>. QED  BY <1>3, <1>5, <2>1, <3>1
  <2>3. more[i] > Half /\ more[i] - Half = n
    BY <1>1, <2>2
  <2>4. F[i] = Repeated(n, b) \o F[i + 2]
    <3>. HIDE DEF i, record, bytes
    <3>1. F[i] = Repeated(more[i] - Half, more[i + 1]) \o F[i + 2]
      <4>1. more[i] > Half
        BY <2>3
      <4>2. i \in 1 .. Len(more) /\ Decoder(F, more)
        BY <2>1, <1>5
      <4>. QED  BY <4>1, <4>2, DecoderUnfolds, Zenon
    <3>. QED  BY <2>2, <2>3, <3>1
  <2>5. i + 2 = Len(code) + Len(record) + 1
    BY <1>1, <1>3
  <2>. QED  BY <2>4, <2>5
<1>. HIDE DEF record, bytes
<1>6. StandsFor(code \o record, done \o bytes)
  BY <1>3, <1>4, <1>5, OneMoreRecord
<1>. QED  BY <1>3, <1>6 DEF record, bytes

-----------------------------------------------------------------------------
(* A value below a power of two, scaled by it, fits a byte; and it comes   *)
(* back when nothing of it was cut.                                        *)
LEMMA Scaled ==
  ASSUME NEW v \in Nat, NEW p \in Int, v < p, NEW b \in Nat \ {0}
  PROVE  /\ (v * b) \div p \in 0 .. b - 1
         /\ (v * b) % p = 0 => (((v * b) \div p) * p) \div b = v
<1>1. v * b \in Nat
  OBVIOUS
<1>2. PICK q \in Int, u \in 0 .. p - 1 : q = (v * b) \div p /\ u = (v * b) % p /\ v * b = p * q + u
  <2>1. PICK q \in Int, u \in 0 .. p - 1 : q = (v * b) \div p /\ u = (v * b) % p
    BY <1>1, SMT
  <2>2. v * b = p * q + u
    BY <1>1, <2>1, SMT
  <2>. QED  BY <2>1, <2>2
<1>3. v * b <= p * b - b
  <2>1. v <= p - 1
    OBVIOUS
  <2>2. v * b <= (p - 1) * b
    BY <2>1, SMT
  <2>3. (p - 1) * b = p * b - b
    BY SMT
  <2>. QED  BY <2>2, <2>3, <1>1, SMT
<1>4. q < b
  <2>1. q >= b => p * q >= p * b
    BY SMT
  <2>. QED  BY <1>2, <1>3, <2>1, SMT
<1>5. q >= 0
  <2>1. q <= -1 => p * q <= -p
    BY SMT
  <2>. QED  BY <1>1, <1>2, <2>1, SMT
<1>6. u = 0 => (q * p) \div b = v
  <2>1. u = 0 => q * p = v * b
    BY <1>2, SMT
  <2>2. (v * b) \div b = v
    BY SMT
  <2>. QED  BY <2>1, <2>2
<1>. QED  BY <1>2, <1>4, <1>5, <1>6

(* Every value of the surface has an exponent that fits a byte.            *)
LEMMA ExponentFits ==
  ASSUME NEW v \in Values
  PROVE  Exponent(v) \in 0 .. Half - 1 /\ v < 2 ^ Exponent(v) /\ 2 ^ Exponent(v) \in Int
<1>. DEFINE S == {e \in 0 .. Half - 1 : v < 2 ^ e}
<1>1. S \subseteq Nat /\ S # {}
  <2>1. \E e \in 0 .. Half - 1 : v < 2 ^ e
    BY OneshotAssumption, Zenon
  <2>2. 0 .. Half - 1 \subseteq Nat
    BY OneshotAssumption
  <2>. QED  BY <2>1, <2>2, Zenon
<1>2. Exponent(v) \in S
  BY <1>1, Least DEF Exponent
<1>3. \A e \in Nat : 2 ^ e \in Int
  OBVIOUS
<1>. QED  BY <1>1, <1>2, <1>3

(* The four bytes of a pixel are bytes.                                    *)
LEMMA RgbeBytes ==
  ASSUME NEW v \in Values
  PROVE  Rgbe(v) \in Seq(Byte) /\ Len(Rgbe(v)) = 4 /\ \A k \in 1 .. 4 : Rgbe(v)[k] \in Byte
<1>1. Half \in Nat \ {0, 1} /\ Bytes \in Nat \ {0} /\ Bytes = 2 * Half /\ v \in Nat
  BY OneshotAssumption DEF Bytes
<1>. DEFINE m == (v * Bytes) \div 2 ^ Exponent(v)
            e == Exponent(v) + Half
<1>2. m \in Byte
  BY <1>1, ExponentFits, Scaled DEF Byte
<1>3. e \in Byte /\ 0 \in Byte
  BY <1>1, ExponentFits DEF Byte
<1>4. Rgbe(v) = IF v = 0 THEN <<0, 0, 0, 0>> ELSE <<m, m, m, e>>
  BY DEF Rgbe
<1>. HIDE DEF m, e
<1>. QED  BY <1>2, <1>3, <1>4

(* If nothing was cut, the reader's pixel is the writer's value.           *)
LEMMA PixelIsBack ==
  ASSUME NothingCut, NEW v \in Values
  PROVE  Pixel(Rgbe(v)) = v
<1>1. Half \in Nat \ {0, 1} /\ Bytes \in Nat \ {0} /\ v \in Nat
  BY OneshotAssumption DEF Bytes
<1>. DEFINE m == (v * Bytes) \div 2 ^ Exponent(v)
            e == Exponent(v) + Half
<1>2. e >= Half /\ e - Half = Exponent(v)
  BY <1>1, ExponentFits
<1>3. (m * 2 ^ Exponent(v)) \div Bytes = v
  BY <1>1, ExponentFits, Scaled DEF NothingCut
<1>4. CASE v = 0
  <2>1. Rgbe(v) = <<0, 0, 0, 0>>
    BY <1>4 DEF Rgbe
  <2>. QED  BY <1>1, <1>4, <2>1 DEF Pixel
<1>5. CASE v # 0
  <2>1. Rgbe(v) = <<m, m, m, e>>
    BY <1>5 DEF Rgbe
  <2>. HIDE DEF m, e
  <2>2. Rgbe(v)[1] = m /\ Rgbe(v)[4] = e
    BY <2>1
  <2>3. ~(e < Half)
    BY <1>1, <1>2, ExponentFits DEF e
  <2>. QED  BY <1>2, <1>3, <2>2, <2>3 DEF Pixel
<1>. QED  BY <1>4, <1>5

-----------------------------------------------------------------------------
(* The writer.  At the encoder, the code of the row stands for what is     *)
(* behind x; of a row that is not encoded, four bytes for each pixel.      *)
Behind(done) ==
  /\ out \in Seq(Int) /\ Len(out) >= 4
  /\ done \in Seq(Byte) /\ Code \in Seq(Byte) /\ StandsFor(Code, done)
  /\ Len(done) = c * width + x
  /\ \A k \in 0 .. c : \A i \in 1 .. width :
       k * width + i <= Len(done) => done[k * width + i] = Component(k)[i]

Plain ==
  /\ out \in Seq(Byte) /\ Len(out) = 4 * x
  /\ \A i \in 0 .. x - 1 : \A k \in 1 .. 4 : out[4 * i + k] = Rgbe(scan[i])[k]

Writing == pc \in {"search", "dump", "run"}

Places ==
  /\ pc # "start" => argpc = "ready"
  /\ full \in BOOLEAN
  /\ pc = "flat" \/ Writing => scan \in [Columns -> Values] /\ c \in 0 .. 3 /\ x \in 0 .. width
  /\ pc = "flat" => ~Encoded
  /\ Writing => Encoded
  /\ pc \in {"dump", "run"} => r \in x .. width

(* A run is of equal bytes, up to its end. *)
SameBytes == pc = "run" => \A i \in x .. r - 1 : comp[i] = comp[x]

SaveInv ==
  /\ Places /\ SameBytes
  /\ pc = "flat" /\ ~full => Plain
  /\ Writing /\ ~full => \E done : Behind(done)

(* The width that was parsed is in range.                                  *)
LEMMA Width == ArgsInv => width \in Nat /\ width \in MinSize .. MaxSize
<1>1. ArgsInv => args["width"] \in MinSize .. MaxSize
  BY DEF ArgsInv, Arguments, InRange, Defaults
<1>. QED  BY <1>1, ArgsAssumption DEF width

(* The header of a row has four bytes.                                     *)
LEMMA CodeIs == Code = SubSeq(out, 5, Len(out))
<1>1. Len(ScanlineHeader) = 4
  BY DEF ScanlineHeader
<1>. QED  BY <1>1 DEF Code

(* What is written goes behind the code.                                   *)
LEMMA Concat ==
  ASSUME NEW S, NEW s \in Seq(S), NEW t \in Seq(S)
  PROVE  /\ s \o t \in Seq(S) /\ Len(s \o t) = Len(s) + Len(t)
         /\ Len(s) \in Nat /\ Len(t) \in Nat
         /\ \A i \in 1 .. Len(s) : (s \o t)[i] = s[i]
         /\ \A i \in 1 .. Len(t) : (s \o t)[Len(s) + i] = t[i]
  OBVIOUS

(* A part of a sequence.                                                   *)
LEMMA Slice ==
  ASSUME NEW S, NEW s \in Seq(S), NEW m \in Nat, NEW n \in Nat, m + n <= Len(s)
  PROVE  /\ SubSeq(s, m + 1, m + n) \in Seq(S) /\ Len(SubSeq(s, m + 1, m + n)) = n
         /\ \A i \in 1 .. n : SubSeq(s, m + 1, m + n)[i] = s[m + i]
  OBVIOUS

(* A row's code without its header...                                      *)
LEMMA Rest ==
  ASSUME NEW s \in Seq(Int), Len(s) >= 4
  PROVE  /\ SubSeq(s, 5, Len(s)) \in Seq(Int) /\ Len(SubSeq(s, 5, Len(s))) = Len(s) - 4
         /\ \A i \in 1 .. Len(s) - 4 : SubSeq(s, 5, Len(s))[i] = s[4 + i]
<1>1. Len(s) - 4 \in Nat /\ 4 + (Len(s) - 4) = Len(s) /\ 4 + 1 = 5 /\ 4 \in Nat /\ 4 + (Len(s) - 4) <= Len(s)
  OBVIOUS
<1>2. /\ SubSeq(s, 4 + 1, 4 + (Len(s) - 4)) \in Seq(Int) /\ Len(SubSeq(s, 4 + 1, 4 + (Len(s) - 4))) = Len(s) - 4
      /\ \A i \in 1 .. Len(s) - 4 : SubSeq(s, 4 + 1, 4 + (Len(s) - 4))[i] = s[4 + i]
  BY <1>1, Slice
<1>. QED  BY <1>1, <1>2

(* ... when something is written behind it.                                *)
LEMMA RestOfConcat ==
  ASSUME NEW s \in Seq(Int), Len(s) >= 4, NEW t \in Seq(Int)
  PROVE  SubSeq(s \o t, 5, Len(s \o t)) = SubSeq(s, 5, Len(s)) \o t
<1>. DEFINE old == SubSeq(s, 5, Len(s))
            both == s \o t
            new == SubSeq(both, 5, Len(both))
<1>1. /\ both \in Seq(Int) /\ Len(both) = Len(s) + Len(t)
      /\ Len(s) \in Nat /\ Len(t) \in Nat
      /\ \A i \in 1 .. Len(s) : both[i] = s[i]
      /\ \A i \in 1 .. Len(t) : both[Len(s) + i] = t[i]
  BY Concat
<1>2. /\ old \in Seq(Int) /\ Len(old) = Len(s) - 4
      /\ \A i \in 1 .. Len(s) - 4 : old[i] = s[4 + i]
  BY Rest
<1>. HIDE DEF both
<1>3. /\ new \in Seq(Int) /\ Len(new) = Len(both) - 4
      /\ \A i \in 1 .. Len(both) - 4 : new[i] = both[4 + i]
  BY <1>1, Rest
<1>. HIDE DEF old, new
<1>4. /\ old \o t \in Seq(Int) /\ Len(old \o t) = Len(old) + Len(t)
      /\ \A i \in 1 .. Len(old) : (old \o t)[i] = old[i]
      /\ \A i \in 1 .. Len(t) : (old \o t)[Len(old) + i] = t[i]
  <2>1. old \in Seq(Int) /\ t \in Seq(Int)
    BY <1>2
  <2>. QED  BY <2>1, Concat
<1>5. ASSUME NEW i \in 1 .. Len(new)
      PROVE  new[i] = (old \o t)[i]
  <2>1. CASE i <= Len(old)
    <3>1. i \in 1 .. Len(old) /\ 4 + i \in 1 .. Len(s) /\ i \in 1 .. Len(s) - 4 /\ i \in 1 .. Len(both) - 4
      BY <1>1, <1>2, <1>3, <2>1
    <3>. QED  BY <1>1, <1>2, <1>3, <1>4, <3>1
  <2>2. CASE ~(i <= Len(old))
    <3>. DEFINE k == i - Len(old)
    <3>1. k \in 1 .. Len(t) /\ 4 + i = Len(s) + k /\ i = Len(old) + k /\ i \in 1 .. Len(both) - 4
      BY <1>1, <1>2, <1>3, <2>2
    <3>. HIDE DEF k
    <3>2. new[i] = both[Len(s) + k] /\ (old \o t)[i] = t[k]
      BY <1>3, <1>4, <3>1
    <3>. QED  BY <1>1, <3>1, <3>2
  <2>. QED  BY <2>1, <2>2
<1>6. Len(new) = Len(old \o t)
  BY <1>1, <1>2, <1>3, <1>4
<1>7. new = old \o t
  BY <1>3, <1>4, <1>5, <1>6, SeqEqual, Zenon
<1>. QED  BY <1>7 DEF both, old, new

(* So a record that is written is at the end of the code.                  *)
LEMMA CodeGrows ==
  ASSUME out \in Seq(Int), Len(out) >= 4, NEW record \in Seq(Int), out' = out \o record
  PROVE  out' \in Seq(Int) /\ Len(out') >= 4 /\ Code' = Code \o record
<1>1. out \o record \in Seq(Int) /\ Len(out \o record) >= 4
  BY Concat
<1>2. Code' = SubSeq(out', 5, Len(out'))
  BY DEF Code, ScanlineHeader
<1>. QED  BY <1>1, <1>2, RestOfConcat, CodeIs

(* The bytes of a component.                                               *)
LEMMA CompIs ==
  ASSUME scan \in [Columns -> Values], c \in 0 .. 3, NEW i \in Columns
  PROVE  comp[i] \in Byte /\ comp[i] = Rgbe(scan[i])[c + 1]
<1>1. comp[i] = Rgbe(scan[i])[c + 1]
  BY DEF comp
<1>2. scan[i] \in Values /\ c + 1 \in 1 .. 4
  OBVIOUS
<1>. QED  BY <1>1, <1>2, RgbeBytes

(* One more record, which stands for what x passes.                        *)
LEMMA BehindGrows ==
  ASSUME NEW done, Behind(done), width \in Nat, c \in 0 .. 3, x \in 0 .. width,
         NEW bytes \in Seq(Byte), x + Len(bytes) <= width,
         \A k \in 1 .. Len(bytes) : bytes[k] = comp[x + k - 1],
         UNCHANGED <<args, scan, c>>, x' = x + Len(bytes),
         out' \in Seq(Int), Len(out') >= 4, Code' \in Seq(Byte), StandsFor(Code', done \o bytes)
  PROVE  Behind(done \o bytes)'
<1>. DEFINE new == done \o bytes
<1>0. width' = width /\ c * width \in Nat
  BY DEF width
<1>1. /\ done \in Seq(Byte) /\ Len(done) = c * width + x
      /\ \A k \in 0 .. c : \A i \in 1 .. width : k * width + i <= Len(done) => done[k * width + i] = Component(k)[i]
  BY DEF Behind
<1>2. /\ new \in Seq(Byte) /\ Len(new) = Len(done) + Len(bytes) /\ Len(bytes) \in Nat /\ Len(done) \in Nat
      /\ \A i \in 1 .. Len(done) : new[i] = done[i]
      /\ \A i \in 1 .. Len(bytes) : new[Len(done) + i] = bytes[i]
  <2>1. done \in Seq(Byte) /\ bytes \in Seq(Byte)
    BY <1>1
  <2>. QED  BY <2>1, Concat
<1>. HIDE DEF new
<1>3. Len(new) = c * width + x'
  <2>. DEFINE cw == c * width
  <2>1. cw \in Nat /\ Len(done) = cw + x
    BY <1>0, <1>1
  <2>. HIDE DEF cw
  <2>2. Len(new) = cw + (x + Len(bytes))
    BY <1>2, <2>1
  <2>. QED  BY <2>2 DEF cw
<1>4. ASSUME NEW k \in 0 .. c, NEW i \in 1 .. width, k * width + i <= Len(new)
      PROVE  new[k * width + i] = Component(k)[i]
  <2>. DEFINE kw == k * width
              cw == c * width
  <2>0. kw \in Nat /\ cw \in Nat /\ Len(done) = cw + x /\ kw + i <= Len(new)
    <3>1. k \in Nat /\ c \in Nat
      BY <1>0
    <3>2. kw \in Nat /\ cw \in Nat
      BY <1>0, <3>1
    <3>. QED  BY <1>1, <1>4, <3>2, Zenon
  <2>1. k < c => kw + width <= cw
    <3>1. k < c => (k + 1) * width <= c * width
      BY SMT
    <3>2. (k + 1) * width = k * width + width
      BY SMT
    <3>. QED  BY <3>1, <3>2
  <2>2. k = c => kw = cw
    OBVIOUS
  <2>. HIDE DEF kw, cw
  <2>3. CASE kw + i <= Len(done)
    <3>1. kw + i \in 1 .. Len(done)
      BY <1>2, <2>0, <2>3
    <3>2. done[kw + i] = Component(k)[i]
      BY <1>1, <2>3 DEF kw
    <3>. QED  BY <1>2, <3>1, <3>2 DEF kw
  <2>4. CASE ~(kw + i <= Len(done))
    <3>1. k = c
      <4>1. ~(k < c)
        BY <1>2, <2>0, <2>1, <2>4
      <4>. QED  BY <4>1
    <3>. DEFINE j == i - x
    <3>2. j \in 1 .. Len(bytes) /\ kw + i = Len(done) + j /\ x + j - 1 = i - 1
      BY <1>2, <2>0, <2>2, <2>4, <3>1
    <3>. HIDE DEF j
    <3>3. new[kw + i] = bytes[j] /\ bytes[j] = comp[i - 1]
      BY <1>2, <3>2
    <3>4. i - 1 \in Columns /\ Component(k)[i] = Rgbe(scan[i - 1])[k + 1]
      BY DEF Columns, Component
    <3>5. comp[i - 1] = Rgbe(scan[i - 1])[c + 1]
      BY <3>4 DEF comp
    <3>. QED  BY <3>1, <3>3, <3>4, <3>5 DEF kw
  <2>. QED  BY <2>3, <2>4
<1>5. \A k : Component(k)' = Component(k)
  BY <1>0 DEF Component
<1>6. \A k \in 0 .. c' : \A i \in 1 .. width' :
         k * width' + i <= Len(new) => new[k * width' + i] = Component(k)'[i]
  BY <1>0, <1>4, <1>5
<1>7. Len(new) = c' * width' + x'
  BY <1>0, <1>3
<1>. QED  BY <1>2, <1>6, <1>7 DEF Behind, new

(* The actions, one after the other.                                       *)
LEMMA SaveStart == Init => SaveInv
  BY DEF Init, ArgsInit, SaveInv, Places, SameBytes, Writing

(* While options are parsed nothing is written.                            *)
LEMMA ParseKeeps ==
  ASSUME SaveInv, Parse
  PROVE  SaveInv'
<1>1. argpc = "parse"
  BY DEF Parse, ArgsNext, ParseOpt, ParseRsched, Leave, Overrun, Configure, Parsing
<1>2. pc = "start" /\ pc' = "start" /\ full' \in BOOLEAN
  BY <1>1 DEF SaveInv, Places, Parse, rowVars
<1>. QED  BY <1>2 DEF SaveInv, Places, SameBytes, Writing

(* Outside the rows there is nothing to keep.                              *)
LEMMA FileKeeps ==
  ASSUME SaveInv, Save \/ OpenFails \/ Open \/ RowOutside \/ RowEnd \/ Close
  PROVE  SaveInv'
<1>1. pc' \in {"open", "row", "end", "crashed"} /\ full' \in BOOLEAN /\ argpc' = "ready"
  BY DEF SaveInv, Places, Save, OpenFails, Open, RowOutside, RowEnd, RowWritten, Close, Write, rowVars, argVars
<1>. QED  BY <1>1 DEF SaveInv, Places, SameBytes, Writing

(* The header of a row is not part of its code.                            *)
LEMMA HeaderStandsForNothing ==
  ASSUME width \in Nat, width' = width, out' = <<>> \o ScanlineHeader, c' = 0, x' = 0
  PROVE  Behind(<<>>)'
<1>1. Bytes \in Nat \ {0}
  BY OneshotAssumption DEF Bytes
<1>2. PICK q \in Int, u \in 0 .. Bytes - 1 : q = width \div Bytes /\ u = width % Bytes
  BY <1>1, SMT
<1>3. ScanlineHeader = <<2, 2, q, u>>
  BY <1>2 DEF ScanlineHeader
<1>4. out' \in Seq(Int) /\ Len(out') = 4
  BY <1>3
<1>5. Code' = SubSeq(out', 5, Len(out'))
  BY DEF Code, ScanlineHeader
<1>6. Code' = <<>>
  BY <1>4, <1>5, SubSeqEmpty
<1>7. StandsFor(Code', <<>>)
  BY <1>6, NothingStandsForNothing
<1>8. <<>> \in Seq(Byte) /\ Len(<<>>) = 0
  OBVIOUS
<1>9. \A k \in 0 .. 0, i \in 1 .. width' : ~(k * width' + i <= 0)
  BY SMT
<1>10. \A k \in 0 .. c' : \A i \in 1 .. width' : ~(k * width' + i <= Len(<<>>))
  BY <1>8, <1>9
<1>11. Len(<<>>) = c' * width' + x'
  BY <1>8
<1>12. out' \in Seq(Int) /\ Len(out') >= 4
  <2>1. 4 >= 4
    OBVIOUS
  <2>. QED  BY <1>4, <2>1, Zenon
<1>13. <<>> \in Seq(Byte) /\ Code' \in Seq(Byte)
  BY <1>6, <1>8, Zenon
<1>. QED  BY <1>7, <1>10, <1>11, <1>12, <1>13, Zenon DEF Behind

(* A row begins with its header, or without one if it is not encoded.      *)
LEMMA RowBeginKeeps ==
  ASSUME ArgsInv, SaveInv, NEW s \in [Columns -> Values], RowBegin(s)
  PROVE  SaveInv'
<1>1. /\ scan' = s /\ c' = 0 /\ x' = 0 /\ args' = args /\ argpc' = argpc /\ pc = "row" /\ full \in BOOLEAN
      /\ argpc = "ready"
  BY DEF RowBegin, argVars, SaveInv, Places
<1>2. width' = width /\ width \in Nat /\ Columns' = Columns /\ Encoded' = Encoded
  BY <1>1, Width DEF width, Columns, Encoded
<1>3. CASE Encoded
  <2>1. pc' = "search" /\ Write(<<>>, ScanlineHeader)
    BY <1>3 DEF RowBegin
  <2>2. full' \in BOOLEAN /\ (~full' => out' = <<>> \o ScanlineHeader)
    BY <1>1, <2>1 DEF Write
  <2>3. ~full' => Behind(<<>>)'
    BY <1>1, <1>2, <2>2, HeaderStandsForNothing
  <2>. QED  BY <1>1, <1>2, <1>3, <2>1, <2>2, <2>3 DEF SaveInv, Places, SameBytes, Writing
<1>4. CASE ~Encoded
  <2>1. pc' = "flat" /\ out' = <<>> /\ full' = full
    BY <1>4 DEF RowBegin
  <2>2. Plain'
    BY <1>1, <2>1 DEF Plain
  <2>. QED  BY <1>1, <1>2, <1>4, <2>1, <2>2 DEF SaveInv, Places, SameBytes, Writing
<1>. QED  BY <1>3, <1>4

(* Four bytes more, of the next pixel.                                     *)
LEMMA FlatPixelKeeps ==
  ASSUME ArgsInv, SaveInv, FlatPixel
  PROVE  SaveInv'
<1>1. /\ pc = "flat" /\ pc' = pc /\ x' = x + 1 /\ UNCHANGED <<args, argpc, scan, c>>
      /\ x < width /\ Write(out, Rgbe(scan[x])) /\ full \in BOOLEAN /\ argpc = "ready" /\ ~Encoded
  BY DEF FlatPixel, argVars, SaveInv, Places
<1>2. width' = width /\ width \in Nat /\ Columns' = Columns /\ Encoded' = Encoded
  BY <1>1, Width DEF width, Columns, Encoded
<1>3. scan \in [Columns -> Values] /\ c \in 0 .. 3 /\ x \in 0 .. width
  BY <1>1 DEF SaveInv, Places
<1>4. x \in Columns /\ x + 1 \in 0 .. width
  BY <1>1, <1>2, <1>3 DEF Columns
<1>. DEFINE p == Rgbe(scan[x])
<1>5. p \in Seq(Byte) /\ Len(p) = 4
  BY <1>3, <1>4, RgbeBytes
<1>6. full' \in BOOLEAN /\ (~full' => ~full /\ out' = out \o p)
  BY <1>1 DEF Write
<1>. HIDE DEF p
<1>7. ASSUME ~full' PROVE Plain'
  <2>1. out \in Seq(Byte) /\ Len(out) = 4 * x
        /\ \A i \in 0 .. x - 1 : \A k \in 1 .. 4 : out[4 * i + k] = Rgbe(scan[i])[k]
    BY <1>1, <1>6, <1>7 DEF SaveInv, Plain
  <2>2. /\ out' \in Seq(Byte) /\ Len(out') = Len(out) + Len(p)
        /\ \A i \in 1 .. Len(out) : out'[i] = out[i]
        /\ \A i \in 1 .. Len(p) : out'[Len(out) + i] = p[i]
    <3>1. p \in Seq(Byte) /\ out \in Seq(Byte)
      BY <1>5, <2>1
    <3>2. /\ out \o p \in Seq(Byte) /\ Len(out \o p) = Len(out) + Len(p)
          /\ \A i \in 1 .. Len(out) : (out \o p)[i] = out[i]
          /\ \A i \in 1 .. Len(p) : (out \o p)[Len(out) + i] = p[i]
      BY <3>1, Concat
    <3>. QED  BY <1>6, <1>7, <3>2
  <2>3. Len(out') = 4 * x'
    BY <1>1, <1>3, <1>5, <2>1, <2>2
  <2>4. ASSUME NEW i \in 0 .. x, NEW k \in 1 .. 4
        PROVE  out'[4 * i + k] = Rgbe(scan[i])[k]
    <3>1. CASE i < x
      <4>1. i \in 0 .. x - 1 /\ 4 * i + k \in 1 .. Len(out)
        BY <1>3, <2>1, <3>1
      <4>. QED  BY <2>1, <2>2, <4>1
    <3>2. CASE i = x
      <4>1. 4 * i + k = Len(out) + k /\ k \in 1 .. Len(p)
        BY <1>5, <2>1, <3>2
      <4>. QED  BY <2>2, <3>2, <4>1 DEF p
    <3>. QED  BY <1>3, <3>1, <3>2
  <2>5. x' - 1 = x
    BY <1>1, <1>3
  <2>. QED  BY <1>1, <2>2, <2>3, <2>4, <2>5 DEF Plain
<1>. QED  BY <1>1, <1>2, <1>3, <1>4, <1>6, <1>7 DEF SaveInv, Places, SameBytes, Writing

(* The encoder's places stay those of the row.                             *)
LEMMA RowStays ==
  ASSUME ArgsInv, SaveInv, Writing, UNCHANGED <<args, argpc, scan>>
  PROVE  /\ width' = width /\ width \in Nat /\ Columns' = Columns /\ Encoded' = Encoded /\ Encoded
         /\ argpc' = "ready" /\ scan \in [Columns -> Values] /\ scan' \in [Columns -> Values]'
         /\ c \in 0 .. 3 /\ x \in 0 .. width /\ full \in BOOLEAN
<1>1. /\ argpc = "ready" /\ scan \in [Columns -> Values] /\ c \in 0 .. 3 /\ x \in 0 .. width
      /\ full \in BOOLEAN /\ Encoded
  BY DEF SaveInv, Places, Writing
<1>2. width' = width /\ Columns' = Columns /\ Encoded' = Encoded /\ width \in Nat
  BY Width DEF width, Columns, Encoded
<1>. QED  BY <1>1, <1>2

(* Where nothing is written, what is behind x stays, with the component.   *)
LEMMA BehindStays ==
  ASSUME NEW done, Behind(done), UNCHANGED <<args, scan, c, x, out>>
  PROVE  Behind(done)'
<1>1. width' = width /\ Code' = Code /\ \A k : Component(k)' = Component(k)
  BY DEF width, Code, ScanlineHeader, Component
<1>. QED  BY <1>1, Zenon DEF Behind

(* The search ends at a run, or at the row's end: r is not behind it.      *)
LEMMA FindRunKeeps ==
  ASSUME ArgsInv, SaveInv, FindRun
  PROVE  SaveInv'
<1>1. /\ pc = "search" /\ pc' = "dump" /\ r' = Min(RunStarts \cup {width}) /\ x < width
      /\ UNCHANGED <<args, argpc, scan, c, x, out, full>>
  BY DEF FindRun, argVars
<1>2. /\ width' = width /\ width \in Nat /\ Columns' = Columns /\ Encoded' = Encoded /\ Encoded
      /\ argpc' = "ready" /\ scan \in [Columns -> Values] /\ scan' \in [Columns -> Values]'
      /\ c \in 0 .. 3 /\ x \in 0 .. width /\ full \in BOOLEAN
  BY <1>1, RowStays DEF Writing
<1>3. r' \in x .. width
  <2>. DEFINE S == RunStarts \cup {width}
  <2>1. S \subseteq x .. width /\ S # {} /\ S \subseteq Nat
    BY <1>1, <1>2 DEF RunStarts
  <2>. HIDE DEF S
  <2>2. Min(S) \in S
    BY <2>1, Least
  <2>. QED  BY <1>1, <2>1, <2>2 DEF S
<1>4. ~full' => \E done : Behind(done)'
  BY <1>1, BehindStays DEF SaveInv, Writing
<1>. QED  BY <1>1, <1>2, <1>3, <1>4 DEF SaveInv, Places, SameBytes, Writing

(* The run goes up to r, and its bytes are equal.                          *)
LEMMA FindRunEndKeeps ==
  ASSUME ArgsInv, SaveInv, FindRunEnd
  PROVE  SaveInv'
<1>1. /\ pc = "dump" /\ pc' \in {"run", "search"} /\ x >= r
      /\ pc' = "run" => r' = Min({width} \cup {i \in r .. width - 1 : comp[i] # comp[x]})
      /\ UNCHANGED <<args, argpc, scan, c, x, out, full>>
  BY DEF FindRunEnd, argVars
<1>2. /\ width' = width /\ width \in Nat /\ Columns' = Columns /\ Encoded' = Encoded /\ Encoded
      /\ argpc' = "ready" /\ scan \in [Columns -> Values] /\ scan' \in [Columns -> Values]'
      /\ c \in 0 .. 3 /\ x \in 0 .. width /\ full \in BOOLEAN
  BY <1>1, RowStays DEF Writing
<1>3. r = x
  BY <1>1, <1>2 DEF SaveInv, Places
<1>4. pc' = "run" => r' \in x .. width /\ \A i \in x .. r' - 1 : comp[i] = comp[x]
  <2>. HAVE pc' = "run"
  <2>. DEFINE S == {width} \cup {i \in x .. width - 1 : comp[i] # comp[x]}
  <2>1. S \subseteq x .. width /\ S # {} /\ S \subseteq Nat /\ r' = Min(S)
    BY <1>1, <1>2, <1>3
  <2>2. Min(S) \in S /\ \A i \in S : Min(S) <= i
    <3>. HIDE DEF S
    <3>. QED  BY <2>1, Least
  <2>3. r' \in x .. width
    <3>. HIDE DEF S
    <3>. QED  BY <2>1, <2>2
  <2>4. \A i \in x .. r' - 1 : i \in x .. width - 1 /\ ~(r' <= i)
    <3>1. x \in Int /\ r' \in Int /\ width \in Int /\ r' <= width
      BY <1>2, <2>3
    <3>2. \A a, b, w \in Int : b <= w => \A i \in a .. b - 1 : i \in a .. w - 1 /\ ~(b <= i)
      OBVIOUS
    <3>. QED  BY <3>1, <3>2, Zenon
  <2>5. \A i \in x .. width - 1 : comp[i] # comp[x] => i \in S
    OBVIOUS
  <2>. HIDE DEF S
  <2>. QED  BY <2>1, <2>2, <2>3, <2>4, <2>5
<1>5. comp' = comp
  BY <1>1, <1>2 DEF comp
<1>6. SameBytes'
  BY <1>1, <1>4, <1>5 DEF SameBytes
<1>7. ~full' => \E done : Behind(done)'
  BY <1>1, BehindStays DEF SaveInv, Writing
<1>8. Places'
  BY <1>1, <1>2, <1>4 DEF Places, Writing
<1>. QED  BY <1>1, <1>6, <1>7, <1>8 DEF SaveInv, Writing

(* The next search begins where the run ended.                             *)
LEMMA RunsWrittenKeeps ==
  ASSUME ArgsInv, SaveInv, RunsWritten
  PROVE  SaveInv'
<1>1. pc = "run" /\ pc' = "search" /\ UNCHANGED <<args, argpc, scan, c, x, out, full>>
  BY DEF RunsWritten, argVars, rowVars
<1>2. /\ width' = width /\ width \in Nat /\ Columns' = Columns /\ Encoded' = Encoded /\ Encoded
      /\ argpc' = "ready" /\ scan \in [Columns -> Values] /\ scan' \in [Columns -> Values]'
      /\ c \in 0 .. 3 /\ x \in 0 .. width /\ full \in BOOLEAN
  BY <1>1, RowStays DEF Writing
<1>3. ~full' => \E done : Behind(done)'
  BY <1>1, BehindStays DEF SaveInv, Writing
<1>. QED  BY <1>1, <1>2, <1>3 DEF SaveInv, Places, SameBytes, Writing

(* A component is behind the encoder as a whole when the next one begins.  *)
LEMMA NextComponentKeeps ==
  ASSUME ArgsInv, SaveInv, NextComponent
  PROVE  SaveInv'
<1>1. /\ pc = "search" /\ pc' = pc /\ x = width /\ c < 3 /\ c' = c + 1 /\ x' = 0
      /\ UNCHANGED <<args, argpc, scan, out, full>>
  BY DEF NextComponent, argVars
<1>2. /\ width' = width /\ width \in Nat /\ Columns' = Columns /\ Encoded' = Encoded /\ Encoded
      /\ argpc' = "ready" /\ scan \in [Columns -> Values] /\ scan' \in [Columns -> Values]'
      /\ c \in 0 .. 3 /\ x \in 0 .. width /\ full \in BOOLEAN
  BY <1>1, RowStays DEF Writing
<1>3. ASSUME NEW done, Behind(done) PROVE Behind(done)'
  <2>1. Code' = Code /\ \A k : Component(k)' = Component(k)
    BY <1>1, <1>2 DEF Code, ScanlineHeader, Component
  <2>2. (c + 1) * width = c * width + width
    BY <1>2
  <2>3. Len(done) = (c + 1) * width + 0
    BY <1>1, <1>2, <1>3, <2>2 DEF Behind
  <2>4. \A i \in 1 .. width : ~((c + 1) * width + i <= Len(done))
    <3>. DEFINE w == (c + 1) * width
    <3>1. w \in Nat /\ Len(done) = w
      BY <1>2, <2>2, <2>3
    <3>. HIDE DEF w
    <3>2. \A i \in 1 .. width : ~(w + i <= Len(done))
      BY <1>2, <3>1
    <3>. QED  BY <3>2 DEF w
  <2>5. \A k \in 0 .. c + 1 : k = c + 1 \/ k \in 0 .. c
    BY <1>2
  <2>6. \A k \in 0 .. c + 1 : \A i \in 1 .. width :
          k * width + i <= Len(done) => done[k * width + i] = Component(k)[i]
    BY <1>3, <2>4, <2>5, Zenon DEF Behind
  <2>7. out' = out /\ width' = width /\ c' = c + 1 /\ x' = 0
    BY <1>1, <1>2
  <2>. QED  BY <1>3, <2>1, <2>3, <2>6, <2>7, Zenon DEF Behind
<1>4. ~full' => \E done : Behind(done)'
  BY <1>1, <1>3 DEF SaveInv, Writing
<1>. QED  BY <1>1, <1>2, <1>4 DEF SaveInv, Places, SameBytes, Writing

(* A dump stands for the bytes that it holds.                              *)
LEMMA DumpKeeps ==
  ASSUME ArgsInv, SaveInv, Dump
  PROVE  SaveInv'
<1>. DEFINE m == DumpLen
<1>0. PICK bytes : bytes = [i \in 1 .. m |-> comp[x + i - 1]]
  OBVIOUS
<1>1. /\ pc = "dump" /\ pc' = pc /\ x < r /\ x' = x + m /\ Write(out, <<m>> \o bytes)
      /\ UNCHANGED <<args, argpc, scan, c, r>>
  BY <1>0 DEF Dump, argVars
<1>2. /\ width' = width /\ width \in Nat /\ Columns' = Columns /\ Encoded' = Encoded /\ Encoded
      /\ argpc' = "ready" /\ scan \in [Columns -> Values] /\ scan' \in [Columns -> Values]'
      /\ c \in 0 .. 3 /\ x \in 0 .. width /\ full \in BOOLEAN
  BY <1>1, RowStays DEF Writing
<1>3. r \in x .. width
  BY <1>1 DEF SaveInv, Places
<1>4. m \in 1 .. Half /\ x + m <= r
  <2>1. Half \in Nat \ {0, 1}
    BY OneshotAssumption
  <2>2. {r - x, Half} \subseteq Nat /\ {r - x, Half} # {}
    BY <1>2, <1>3, <2>1
  <2>3. m \in {r - x, Half} /\ \A j \in {r - x, Half} : m <= j
    BY <2>2, Least DEF DumpLen
  <2>4. m <= r - x /\ m <= Half
    BY <2>3
  <2>. HIDE DEF m
  <2>. QED  BY <1>1, <1>2, <1>3, <2>1, <2>3, <2>4
<1>. HIDE DEF m
<1>5. m \in Nat /\ x + m \in x' .. width /\ x' \in 0 .. width
  BY <1>1, <1>2, <1>3, <1>4
<1>6. bytes \in Seq(Byte) /\ Len(bytes) = m
  <2>1. \A i \in 1 .. m : x + i - 1 \in Columns
    BY <1>2, <1>5, <1>1 DEF Columns
  <2>2. \A i \in 1 .. m : comp[x + i - 1] \in Byte
    BY <1>2, <2>1, CompIs
  <2>. QED  BY <1>0, <1>5, <2>2
<1>7. \A k \in 1 .. Len(bytes) : bytes[k] = comp[x + k - 1]
  BY <1>0, <1>6
<1>8. full' \in BOOLEAN /\ (~full' => ~full /\ out' = out \o (<<m>> \o bytes))
  BY <1>1, <1>2 DEF Write
<1>9. ASSUME ~full', NEW done, Behind(done)
      PROVE  Behind(done \o bytes)'
  <2>. DEFINE record == <<m>> \o bytes
  <2>1. out \in Seq(Int) /\ Len(out) >= 4 /\ done \in Seq(Byte) /\ Code \in Seq(Byte) /\ StandsFor(Code, done)
    BY <1>9 DEF Behind
  <2>2. Len(bytes) <= Half /\ record = <<Len(bytes)>> \o bytes
    BY <1>4, <1>6, OneshotAssumption
  <2>3. Code \o record \in Seq(Byte) /\ StandsFor(Code \o record, done \o bytes)
    BY <1>6, <2>1, <2>2, DumpRecord
  <2>4. record \in Seq(Int)
    <3>1. bytes \in Seq(Int)
      BY <1>6, OneshotAssumption DEF Byte, Bytes
    <3>. QED  BY <1>5, <3>1
  <2>a. ~full /\ out' = out \o record
    BY <1>8, <1>9
  <2>. HIDE DEF record
  <2>5. out' \in Seq(Int) /\ Len(out') >= 4 /\ Code' = Code \o record
    BY <2>a, <2>1, <2>4, CodeGrows
  <2>6. x + Len(bytes) <= width /\ x' = x + Len(bytes)
    BY <1>1, <1>2, <1>5, <1>6
  <2>7. Code' \in Seq(Byte) /\ StandsFor(Code', done \o bytes)
    BY <2>3, <2>5
  <2>8. UNCHANGED <<args, scan, c>>
    BY <1>1
  <2>9. width \in Nat /\ c \in 0 .. 3 /\ x \in 0 .. width /\ bytes \in Seq(Byte)
    BY <1>2, <1>6, <1>7
  <2>10. \A k \in 1 .. Len(bytes) : bytes[k] = comp[x + k - 1]
    BY <1>7
  <2>. QED  BY <1>9, <2>5, <2>6, <2>7, <2>8, <2>9, <2>10, BehindGrows, Zenon
<1>10. ~full' => \E done : Behind(done)'
  BY <1>1, <1>8, <1>9 DEF SaveInv, Writing
<1>11. r' \in x' .. width'
  BY <1>1, <1>2, <1>3, <1>4
<1>. QED  BY <1>1, <1>2, <1>5, <1>8, <1>10, <1>11 DEF SaveInv, Places, SameBytes, Writing

(* And a run for as many equal ones: its length byte does not wrap.        *)
LEMMA RunKeeps ==
  ASSUME ArgsInv, SaveInv, Run
  PROVE  SaveInv'
<1>. DEFINE m == RunLen
            b == comp[x]
            record == <<(m + Half) % Bytes, b>>
<1>0. PICK bytes : bytes = Repeated(m, b)
  OBVIOUS
<1>1. /\ pc = "run" /\ pc' = pc /\ x < r /\ x' = x + m /\ Write(out, record)
      /\ UNCHANGED <<args, argpc, scan, c, r>>
  BY DEF Run, argVars
<1>2. /\ width' = width /\ width \in Nat /\ Columns' = Columns /\ Encoded' = Encoded /\ Encoded
      /\ argpc' = "ready" /\ scan \in [Columns -> Values] /\ scan' \in [Columns -> Values]'
      /\ c \in 0 .. 3 /\ x \in 0 .. width /\ full \in BOOLEAN
  BY <1>1, RowStays DEF Writing
<1>3. r \in x .. width /\ \A i \in x .. r - 1 : comp[i] = b
  BY <1>1 DEF SaveInv, Places, SameBytes
<1>a. Half \in Nat \ {0, 1}
  BY OneshotAssumption
<1>4. m \in 1 .. Half - 1 /\ x + m <= r
  <2>2. {r - x, Half - 1} \subseteq Nat /\ {r - x, Half - 1} # {}
    BY <1>2, <1>3, <1>a
  <2>3. m \in {r - x, Half - 1} /\ \A j \in {r - x, Half - 1} : m <= j
    BY <2>2, Least DEF RunLen
  <2>4. m <= r - x /\ m <= Half - 1
    BY <2>3
  <2>. HIDE DEF m
  <2>. QED  BY <1>1, <1>2, <1>3, <1>a, <2>3, <2>4
<1>. HIDE DEF m
<1>5. m \in Nat /\ x' \in 0 .. width
  BY <1>1, <1>2, <1>3, <1>4, <1>a
<1>b. b \in Byte
  <2>1. x \in Columns
    BY <1>1, <1>2, <1>3 DEF Columns
  <2>. QED  BY <1>2, <2>1, CompIs
<1>6. \A i \in 1 .. m : comp[x + i - 1] = b
  <2>1. \A i \in 1 .. m : x + i - 1 \in x .. r - 1
    BY <1>2, <1>3, <1>4, <1>5
  <2>. QED  BY <1>3, <2>1
<1>. HIDE DEF b
<1>c. (m + Half) % Bytes = m + Half /\ m + Half \in Int
  <2>1. m + Half \in Nat /\ Bytes \in Nat /\ m + Half < Bytes
    BY <1>4, <1>a DEF Bytes
  <2>2. \A i, j \in Nat : i < j => i % j = i
    OBVIOUS
  <2>. QED  BY <2>1, <2>2
<1>7. /\ bytes \in Seq(Byte) /\ Len(bytes) = m
      /\ \A k \in 1 .. Len(bytes) : bytes[k] = comp[x + k - 1]
  BY <1>0, <1>5, <1>6, <1>b DEF Repeated
<1>8. full' \in BOOLEAN /\ (~full' => ~full /\ out' = out \o record)
  BY <1>1, <1>2 DEF Write
<1>9. ASSUME ~full', NEW done, Behind(done)
      PROVE  Behind(done \o bytes)'
  <2>1. out \in Seq(Int) /\ Len(out) >= 4 /\ done \in Seq(Byte) /\ Code \in Seq(Byte) /\ StandsFor(Code, done)
    BY <1>9 DEF Behind
  <2>2. record = <<m + Half, b>>
    BY <1>c
  <2>3. Code \o record \in Seq(Byte) /\ StandsFor(Code \o record, done \o bytes)
    BY <1>0, <1>4, <1>b, <2>1, <2>2, RunRecord
  <2>4. record \in Seq(Int)
    <3>1. b \in Int
      BY <1>b, <1>a DEF Byte, Bytes
    <3>. QED  BY <1>c, <2>2, <3>1
  <2>. HIDE DEF record
  <2>5. out' \in Seq(Int) /\ Len(out') >= 4 /\ Code' = Code \o record
    BY <1>8, <1>9, <2>1, <2>4, CodeGrows
  <2>6. x + Len(bytes) <= width /\ x' = x + Len(bytes)
    BY <1>1, <1>2, <1>3, <1>4, <1>5, <1>7
  <2>7. Code' \in Seq(Byte) /\ StandsFor(Code', done \o bytes)
    BY <2>3, <2>5
  <2>8. UNCHANGED <<args, scan, c>>
    BY <1>1
  <2>9. width \in Nat /\ c \in 0 .. 3 /\ x \in 0 .. width /\ bytes \in Seq(Byte)
    BY <1>2, <1>7
  <2>10. \A k \in 1 .. Len(bytes) : bytes[k] = comp[x + k - 1]
    BY <1>7
  <2>. QED  BY <1>9, <2>5, <2>6, <2>7, <2>8, <2>9, <2>10, BehindGrows, Zenon
<1>10. ~full' => \E done : Behind(done)'
  BY <1>1, <1>8, <1>9 DEF SaveInv, Writing
<1>11. r' \in x' .. width'
  BY <1>1, <1>2, <1>3, <1>4
<1>12. SameBytes'
  <2>1. comp' = comp
    BY <1>1, <1>2 DEF comp
  <2>2. ASSUME NEW i \in x' .. r' - 1 PROVE comp[i] = comp[x']
    <3>1. i \in x .. r - 1 /\ x' \in x .. r - 1
      BY <1>1, <1>2, <1>3, <1>4, <1>5
    <3>. QED  BY <1>3, <3>1
  <2>. QED  BY <2>1, <2>2 DEF SameBytes
<1>. QED  BY <1>1, <1>2, <1>5, <1>8, <1>10, <1>11, <1>12 DEF SaveInv, Places, Writing

(* Every step of the program keeps the encoder's invariant.                *)
LEMMA SaveStep == ArgsInv /\ SaveInv /\ [Next]_vars => SaveInv'
<1>. SUFFICES ASSUME ArgsInv, SaveInv, [Next]_vars PROVE SaveInv'
  OBVIOUS
<1>1. ASSUME UNCHANGED vars PROVE SaveInv'
  <2>1. UNCHANGED <<args, argpc, pc, scan, c, x, r, out, full>>
    BY <1>1 DEF vars, argVars, rowVars
  <2>2. /\ Encoded' = Encoded /\ Columns' = Columns /\ width' = width /\ comp' = comp
        /\ (Plain <=> Plain')
    BY <2>1 DEF Encoded, Columns, width, comp, Plain
  <2>3. Places' /\ SameBytes'
    BY <2>1, <2>2 DEF SaveInv, Places, SameBytes, Writing
  <2>4. Writing' /\ ~full' => \E done : Behind(done)'
    BY <2>1, BehindStays DEF SaveInv, Writing
  <2>. QED  BY <2>1, <2>2, <2>3, <2>4 DEF SaveInv
<1>2. CASE Parse
  BY <1>2, ParseKeeps
<1>3. CASE Save \/ OpenFails \/ Open \/ RowOutside \/ RowEnd \/ Close
  BY <1>3, FileKeeps
<1>4. CASE \E s \in [Columns -> Values] : RowBegin(s)
  BY <1>4, RowBeginKeeps
<1>5. CASE FlatPixel
  BY <1>5, FlatPixelKeeps
<1>6. CASE FindRun
  BY <1>6, FindRunKeeps
<1>7. CASE Dump
  BY <1>7, DumpKeeps
<1>8. CASE FindRunEnd
  BY <1>8, FindRunEndKeeps
<1>9. CASE Run
  BY <1>9, RunKeeps
<1>10. CASE RunsWritten
  BY <1>10, RunsWrittenKeeps
<1>11. CASE NextComponent
  BY <1>11, NextComponentKeeps
<1>12. CASE Ended
  BY <1>12, <1>1 DEF Ended
<1>. QED
  BY <1>1, <1>2, <1>3, <1>4, <1>5, <1>6, <1>7, <1>8, <1>9, <1>10, <1>11, <1>12 DEF Next, Saving

(* Both invariants hold together, as the encoder needs the width.          *)
LEMMA SaveHolds == Spec => [](ArgsInv /\ SaveInv)
<1>1. Init => ArgsInv /\ SaveInv
  BY ArgsStart, SaveStart
<1>2. ArgsInv /\ SaveInv /\ [Next]_vars => (ArgsInv /\ SaveInv)'
  BY ArgsStep, SaveStep
<1>. QED  BY <1>1, <1>2, PTL DEF Spec

(* At every write the code stands for exactly what is behind it, for every *)
(* row of every width, whatever runs and dumps it was made of.             *)
THEOREM PrefixesReadBack == Spec => []PrefixReadsBack
<1>1. ArgsInv /\ SaveInv => PrefixReadsBack
  <2>. SUFFICES ASSUME SaveInv, Writing, ~full
                PROVE  /\ Len(Decoded(Code)) = c * width + x
                       /\ \A k \in 0 .. c : \A i \in 1 .. width :
                            k * width + i <= Len(Decoded(Code)) => Decoded(Code)[k * width + i] = Component(k)[i]
    BY DEF PrefixReadsBack, Writing
  <2>1. PICK done : Behind(done)
    BY DEF SaveInv
  <2>2. Decoded(Code) = done
    BY <2>1, ReadsBack DEF Behind
  <2>. QED  BY <2>1, <2>2, Zenon DEF Behind
<1>. QED  BY <1>1, SaveHolds, PTL

(* Of four bytes that are a pixel's, a reader makes its value.             *)
LEMMA FourBytes ==
  ASSUME NothingCut, NEW v \in Values, NEW p, \A k \in 1 .. 4 : p[k] = Rgbe(v)[k]
  PROVE  Pixel(p) = v
<1>1. p[1] = Rgbe(v)[1] /\ p[4] = Rgbe(v)[4]
  OBVIOUS
<1>. QED  BY <1>1, PixelIsBack DEF Pixel

(* Where a row is read.  While it is written it is a row of the surface.   *)
BaseInv ==
  /\ row \in Nat
  /\ pc = "flat" \/ Writing => row < args.height /\ base \in RowBases
  /\ pc = "crashed" => row < args.height /\ \E b \in RowBases : b < 0

(* Every step of the program keeps it: only a row's beginning sets it.     *)
LEMMA BaseStep == ArgsInv /\ SaveInv /\ BaseInv /\ [Next]_vars => BaseInv'
<1>. SUFFICES ASSUME ArgsInv, SaveInv, BaseInv, [Next]_vars PROVE BaseInv'
  OBVIOUS
<1>1. ASSUME UNCHANGED <<args, row, base>>, pc' \in {"open", "row", "end"} \/ pc' = pc
             \/ (pc \in {"flat", "search", "dump", "run"} /\ pc' \in {"flat", "search", "dump", "run"})
      PROVE  BaseInv'
  <2>1. RowBases' = RowBases
    BY <1>1 DEF RowBases, width
  <2>. QED  BY <1>1, <2>1 DEF BaseInv, Writing
<1>2. CASE UNCHANGED vars \/ Ended
  BY <1>1, <1>2 DEF Ended, vars, argVars, rowVars
<1>3. CASE Parse
  <2>1. pc = "start" /\ pc' = "start" /\ row' = row
    BY <1>3 DEF Parse, ArgsNext, ParseOpt, ParseRsched, Leave, Overrun, Configure, Parsing, SaveInv, Places
  <2>. QED  BY <2>1 DEF BaseInv, Writing
<1>4. CASE \E s \in [Columns -> Values] : RowBegin(s)
  <2>1. /\ row < args.height /\ base' \in RowBases /\ UNCHANGED <<args, row>>
        /\ pc' \in {"search", "flat"}
    BY <1>4 DEF RowBegin, argVars
  <2>2. RowBases' = RowBases
    BY <2>1 DEF RowBases, width
  <2>. QED  BY <2>1, <2>2 DEF BaseInv, Writing
<1>5. CASE RowOutside
  <2>1. /\ row < args.height /\ (\E b \in RowBases : b < 0) /\ UNCHANGED <<args, row>>
        /\ pc' = "crashed"
    BY <1>5 DEF RowOutside, argVars
  <2>2. RowBases' = RowBases
    BY <2>1 DEF RowBases, width
  <2>. QED  BY <2>1, <2>2 DEF BaseInv, Writing
<1>6. CASE RowEnd
  BY <1>6 DEF RowEnd, BaseInv, Writing
<1>7. CASE Save \/ OpenFails \/ Open \/ FlatPixel \/ FindRun \/ Dump \/ FindRunEnd \/ Run \/ RunsWritten
           \/ NextComponent \/ Close
  BY <1>1, <1>7 DEF Save, OpenFails, Open, FlatPixel, FindRun, Dump, FindRunEnd, Run, RunsWritten,
                    NextComponent, Close, argVars, rowVars
<1>. QED  BY <1>2, <1>3, <1>4, <1>5, <1>6, <1>7 DEF Next, Saving

(* A product grows with its factors.                                       *)
LEMMA Product ==
  ASSUME NEW a \in Nat, NEW b \in Nat, NEW A \in Nat, NEW B \in Nat, a <= A, b <= B
  PROVE  a * b <= A * B
<1>1. PICK d \in Nat : A = a + d
  BY SMT
<1>2. PICK e \in Nat : B = b + e
  BY SMT
<1>3. A * B = a * b + (a * e + d * b + d * e)
  BY <1>1, <1>2
<1>4. a * e \in Nat /\ d * b \in Nat /\ d * e \in Nat /\ a * b \in Nat
  OBVIOUS
<1>. QED  BY <1>3, <1>4

(* A number that fits an int is not changed by the conversion.             *)
LEMMA NotCut ==
  ASSUME NEW n \in Nat, n <= MaxInt
  PROVE  ToInt(n) = n
<1>1. MaxInt \in Nat
  BY ArgsAssumption
<1>2. \A a, b \in Nat : a < b => a % b = a
  OBVIOUS
<1>. DEFINE k == n + MaxInt + 1
            m == 2 * MaxInt + 2
<1>3. k \in Nat /\ m \in Nat /\ k < m
  BY <1>1
<1>4. k % m = k
  <2>. HIDE DEF k, m
  <2>. QED  BY <1>2, <1>3
<1>. QED  BY <1>1, <1>4 DEF ToInt

(* The offset of an encoded row fits an int, and one that does is right.   *)
LEMMA RowIsTheOne ==
  ASSUME ArgsInv, SaveInv, BaseInv
  PROVE  /\ pc = "crashed" => ~Encoded /\ ~RowFits
         /\ RowWritten /\ (Encoded \/ RowFits) => base = row * width
<1>. SUFFICES ASSUME pc = "crashed" \/ RowWritten, Encoded \/ RowFits
              PROVE  pc # "crashed" /\ base = row * width
  BY DEF RowWritten
<1>1. row < args.height /\ row \in Nat /\ width \in Nat
  BY Width DEF BaseInv, RowWritten, Writing
<1>2. RowFits
  <2>. SUFFICES ASSUME Encoded PROVE RowFits
    OBVIOUS
  <2>1. args["height"] \in MinSize .. MaxSize
    BY DEF ArgsInv, Arguments, InRange, Defaults
  <2>2. MaxSize - 1 \in Nat /\ row <= MaxSize - 1
    BY <1>1, <2>1, ArgsAssumption
  <2>3. RleMax - 1 \in Nat /\ width <= RleMax - 1
    BY <1>1, OneshotAssumption DEF Encoded
  <2>4. width * row <= (RleMax - 1) * (MaxSize - 1)
    BY <1>1, <2>2, <2>3, Product
  <2>. DEFINE most == (RleMax - 1) * (MaxSize - 1)
              offset == row * width
  <2>5. width * row = row * width /\ offset \in Int /\ most \in Int
    BY <1>1, <2>2, <2>3
  <2>6. offset \in Int /\ most \in Int /\ MaxInt \in Int /\ offset <= most /\ most <= MaxInt
    <3>1. most <= MaxInt
      BY OneshotAssumption, Zenon
    <3>2. offset <= most
      BY <2>4, <2>5, Zenon
    <3>3. MaxInt \in Int
      BY ArgsAssumption
    <3>. QED  BY <2>5, <3>1, <3>2, <3>3, Zenon
  <2>7. offset <= MaxInt
    <3>. HIDE DEF most, offset
    <3>. QED  BY <2>6
  <2>. QED  BY <2>7, Zenon DEF RowFits
<1>3. row * width \in Nat
  BY <1>1
<1>4. RowBases = {row * width}
  BY <1>2, <1>3, NotCut DEF RowFits, RowBases
<1>5. pc # "crashed"
  BY <1>3, <1>4 DEF BaseInv
<1>6. base \in RowBases
  BY <1>5 DEF BaseInv, RowWritten, Writing
<1>. QED  BY <1>4, <1>5, <1>6

(* A row that was written is read back, encoded or plain.                  *)
LEMMA RowIsBack ==
  ASSUME NothingCut, ArgsInv, SaveInv, BaseInv
  PROVE  RowReadsBack
<1>. SUFFICES ASSUME RowWritten, ~full PROVE
       LET code == IF Encoded THEN Decoded(Code) ELSE out
           byte(k, i) == IF Encoded THEN code[k * width + i + 1] ELSE code[4 * i + k + 1]
       IN /\ Len(code) = 4 * width
          /\ \A i \in Columns : Pixel([k \in 1 .. 4 |-> byte(k - 1, i)]) = scan[i]
  BY RowIsTheOne, Zenon DEF RowReadsBack
<1>0. width \in Nat
  BY Width
<1>1. CASE pc = "flat"
  <2>1. ~Encoded /\ x = width /\ scan \in [Columns -> Values] /\ Plain
    BY <1>1 DEF SaveInv, Places, RowWritten
  <2>2. Len(out) = 4 * width
    BY <2>1 DEF Plain
  <2>3. ASSUME NEW i \in Columns
        PROVE  Pixel([k \in 1 .. 4 |-> out[4 * i + (k - 1) + 1]]) = scan[i]
    <3>1. i \in 0 .. x - 1 /\ i \in Int
      BY <1>0, <2>1 DEF Columns
    <3>2. \A k \in 1 .. 4 : 4 * i + (k - 1) + 1 = 4 * i + k
      BY <3>1
    <3>. DEFINE p == [k \in 1 .. 4 |-> out[4 * i + (k - 1) + 1]]
    <3>3. \A k \in 1 .. 4 : out[4 * i + k] = Rgbe(scan[i])[k]
      BY <2>1, <3>1, Zenon DEF Plain
    <3>4. \A k \in 1 .. 4 : p[k] = out[4 * i + (k - 1) + 1]
      BY Zenon
    <3>5. \A k \in 1 .. 4 : p[k] = Rgbe(scan[i])[k]
      <4>. HIDE DEF p
      <4>. QED  BY <3>2, <3>3, <3>4
    <3>. QED  BY <2>1, <3>5, FourBytes
  <2>. QED  BY <2>1, <2>2, <2>3
<1>2. CASE pc = "search" /\ c = 3
  <2>1. Encoded /\ x = width /\ scan \in [Columns -> Values]
    BY <1>2 DEF SaveInv, Places, RowWritten, Writing
  <2>2. PICK done : Behind(done)
    BY <1>2 DEF SaveInv, Writing
  <2>3. Decoded(Code) = done
    BY <2>2, ReadsBack DEF Behind
  <2>4. Len(done) = 3 * width + width
    BY <1>2, <2>1, <2>2 DEF Behind
  <2>5. ASSUME NEW i \in Columns
        PROVE  Pixel([k \in 1 .. 4 |-> done[(k - 1) * width + i + 1]]) = scan[i]
    <3>1. i \in 0 .. width - 1 /\ i \in Int /\ i + 1 \in 1 .. width /\ i + 1 - 1 = i
      BY <1>0 DEF Columns
    <3>2. ASSUME NEW k \in 1 .. 4
          PROVE  done[(k - 1) * width + i + 1] = Rgbe(scan[i])[k]
      <4>. DEFINE kw == (k - 1) * width
      <4>1. kw \in Nat /\ kw <= 3 * width
        <5>1. k \in {1, 2, 3, 4}
          OBVIOUS
        <5>. QED  BY <1>0, <5>1
      <4>2. k - 1 \in 0 .. c /\ (k - 1) + 1 = k
        BY <1>2
      <4>. HIDE DEF kw
      <4>3. kw + (i + 1) <= Len(done) /\ kw + i + 1 = kw + (i + 1)
        BY <1>0, <2>4, <3>1, <4>1
      <4>4. done[kw + (i + 1)] = Component(k - 1)[i + 1]
        BY <2>2, <3>1, <4>2, <4>3 DEF Behind, kw
      <4>5. Component(k - 1)[i + 1] = Rgbe(scan[i])[k]
        BY <3>1, <4>2 DEF Component
      <4>. QED  BY <4>3, <4>4, <4>5 DEF kw
    <3>. DEFINE p == [k \in 1 .. 4 |-> done[(k - 1) * width + i + 1]]
    <3>3. \A k \in 1 .. 4 : p[k] = done[(k - 1) * width + i + 1]
      BY Zenon
    <3>4. \A k \in 1 .. 4 : p[k] = Rgbe(scan[i])[k]
      <4>. HIDE DEF p
      <4>. QED  BY <3>2, <3>3, Zenon
    <3>. QED  BY <2>1, <3>4, FourBytes
  <2>6. Len(done) = 4 * width
    BY <1>0, <2>4
  <2>. QED  BY <2>1, <2>3, <2>5, <2>6
<1>. QED  BY <1>1, <1>2 DEF RowWritten

(* Whoever reads the file finds the surface in it, if nothing of a value   *)
(* had to be cut to make a byte of it: in each encoded row, and in a plain *)
(* one whose place in the surface fits an int.                             *)
THEOREM RowsReadBack == NothingCut => (Spec => []RowReadsBack)
<1>. SUFFICES ASSUME NothingCut PROVE Spec => []RowReadsBack
  OBVIOUS
<1>1. Init => BaseInv
  BY DEF Init, BaseInv, Writing
<1>2. ArgsInv /\ SaveInv /\ BaseInv => RowReadsBack
  BY RowIsBack
<1>3. ArgsInv /\ SaveInv /\ BaseInv /\ [Next]_vars => BaseInv'
  BY BaseStep
<1>. QED  BY <1>1, <1>2, <1>3, SaveHolds, PTL DEF Spec

=============================================================================
