------------------------------ MODULE Oneshot ------------------------------
(***************************************************************************)
(* --mode oneshot from its two ends: the command line (Args), and          *)
(* surface_save_image_hdr, which writes the drawn surface row by row with  *)
(* the run-length encoder of tools/image_hdr.c.  What is drawn in between  *)
(* is the matter of Program and TileQueue: here a row holds anything.      *)
(*                                                                         *)
(* A byte has 2 * Half values, Half being 128.  A gray value is a natural  *)
(* number; linear_to_rgbe makes of it one mantissa, three times, and an    *)
(* exponent.                                                               *)
(***************************************************************************)
EXTENDS Args

CONSTANTS RleMin, RleMax,    \* 8 and 32768: smaller or larger rows are not encoded
          Half,              \* 128
          Values             \* of the surface

ASSUME OneshotAssumption ==
  /\ Half \in Nat \ {0, 1}
  /\ {RleMin, RleMax} \subseteq Nat
  /\ (RleMax - 1) * (MaxSize - 1) <= MaxInt     \* 32767 * 65534
  /\ Values \subseteq Nat
  /\ \A v \in Values : \E e \in 0 .. Half - 1 : v < 2 ^ e

VARIABLES pc,          \* where surface_save_image_hdr is
          row,         \* rows written
          base,        \* where in the surface's data the current row is read
          scan,        \* the current row
          c, x, r,     \* of stbiw__write_hdr_scanline
          out,         \* the bytes of the current row
          full,        \* has a write of the file failed?
          saved        \* what surface_save_image_hdr returned

rowVars == <<base, scan, c, x, r, out, full>>
vars == <<argVars, pc, row, rowVars, saved>>

width == args.width
Bytes == 2 * Half
Columns == 0 .. width - 1
Encoded == RleMin <= width /\ width < RleMax

Init ==
  /\ ArgsInit
  /\ pc = "start"
  /\ row = 0
  /\ base = 0 /\ scan = <<>> /\ c = 0 /\ x = 0 /\ r = 0
  /\ out = <<>> /\ full = FALSE
  /\ saved = "no"

(* stbiw__linear_to_rgbe of three equal components; frexp's mantissa lies  *)
(* between a half and one.                                                 *)
Exponent(v) == Min({e \in 0 .. Half - 1 : v < 2 ^ e})

RgbeMutant(v) ==                                     \* the exponent without its bias
  IF v = 0 THEN <<0, 0, 0, 0>>
  ELSE LET m == (v * Bytes) \div 2 ^ Exponent(v) IN <<m, m, m, Exponent(v)>>

Rgbe(v) ==
  IF v = 0 THEN <<0, 0, 0, 0>>
  ELSE LET m == (v * Bytes) \div 2 ^ Exponent(v) IN <<m, m, m, Exponent(v) + Half>>

comp == [i \in Columns |-> Rgbe(scan[i])[c + 1]]

(* s->func: fwrite, whose result nobody looks at.  What a broken file      *)
(* holds does not matter.                                                  *)
Write(before, bytes) ==
  \/ ~full /\ out' = before \o bytes /\ UNCHANGED full
  \/ full' = TRUE /\ out' = <<>>

-----------------------------------------------------------------------------
Parse == ArgsNext /\ UNCHANGED <<pc, row, rowVars, saved>>

(* The other modes save nothing. *)
Save ==
  /\ argpc = "ready" /\ pc = "start" /\ args.mode = "oneshot"
  /\ pc' = "open"
  /\ UNCHANGED <<argVars, row, rowVars, saved>>

OpenFails ==
  /\ pc = "open"
  /\ saved' = "failed" /\ pc' = "end"
  /\ UNCHANGED <<argVars, row, rowVars>>

Open ==                  \* and the header with the surface's width and height
  /\ pc = "open"
  /\ Write(<<>>, <<>>) /\ pc' = "row"
  /\ UNCHANGED <<argVars, row, base, scan, c, x, r, saved>>

ScanlineHeader == <<2, 2, width \div Bytes, width % Bytes>>

(* data + comp * i * x with a comp of one: the product is an int.  One     *)
(* that is larger is undefined, and what a build makes of it wraps, or is  *)
(* right where it was made in the width of a pointer.                      *)
RowFits == row * width <= MaxInt

RowBases == {row * width, ToInt(row * width)}

RowBegin(s) ==           \* memory that is not the surface's holds anything, too
  /\ pc = "row" /\ row < args.height
  /\ base' \in RowBases
  /\ scan' = s
  /\ c' = 0 /\ x' = 0 /\ r' = 0
  /\ IF Encoded
     THEN Write(<<>>, ScanlineHeader) /\ pc' = "search"
     ELSE out' = <<>> /\ pc' = "flat" /\ UNCHANGED full
  /\ UNCHANGED <<argVars, row, saved>>

RowOutside ==            \* or there is no such memory
  /\ pc = "row" /\ row < args.height
  /\ \E b \in RowBases : b < 0
  /\ pc' = "crashed"
  /\ UNCHANGED <<argVars, row, rowVars, saved>>

FlatPixel ==
  /\ pc = "flat" /\ x < width
  /\ Write(out, Rgbe(scan[x])) /\ x' = x + 1
  /\ UNCHANGED <<argVars, pc, row, base, scan, c, r, saved>>

(* Where the next three equal bytes start. *)
RunStarts == {i \in x .. width - 3 : comp[i] = comp[i + 1] /\ comp[i] = comp[i + 2]}

FindRunMutant ==                                     \* without `r = width'
  /\ pc = "search" /\ x < width
  /\ r' = Min(RunStarts \cup {Max({x, width - 2})}) /\ pc' = "dump"
  /\ UNCHANGED <<argVars, row, base, scan, c, x, out, full, saved>>

FindRun ==
  /\ pc = "search" /\ x < width
  /\ r' = Min(RunStarts \cup {width}) /\ pc' = "dump"
  /\ UNCHANGED <<argVars, row, base, scan, c, x, out, full, saved>>

DumpLen == Min({r - x, Half})

Dump ==
  /\ pc = "dump" /\ x < r
  /\ Write(out, <<DumpLen>> \o [i \in 1 .. DumpLen |-> comp[x + i - 1]])
  /\ x' = x + DumpLen
  /\ UNCHANGED <<argVars, pc, row, base, scan, c, r, saved>>

FindRunEndMutant ==                                  \* do ++r while the byte before is equal
  /\ pc = "dump" /\ x >= r
  /\ IF r + 2 < width
     THEN r' = Min({width} \cup {i \in r + 1 .. width - 1 : comp[i - 1] # comp[x]}) /\ pc' = "run"
     ELSE r' = r /\ pc' = "search"
  /\ UNCHANGED <<argVars, row, base, scan, c, x, out, full, saved>>

(* The first byte behind the run; no run, back to the search. *)
FindRunEnd ==
  /\ pc = "dump" /\ x >= r
  /\ IF r + 2 < width
     THEN r' = Min({width} \cup {i \in r .. width - 1 : comp[i] # comp[x]}) /\ pc' = "run"
     ELSE r' = r /\ pc' = "search"
  /\ UNCHANGED <<argVars, row, base, scan, c, x, out, full, saved>>

RunLen == Min({r - x, Half - 1})

Run ==
  /\ pc = "run" /\ x < r
  /\ Write(out, <<(RunLen + Half) % Bytes, comp[x]>>)
  /\ x' = x + RunLen
  /\ UNCHANGED <<argVars, pc, row, base, scan, c, r, saved>>

RunsWritten ==
  /\ pc = "run" /\ x >= r
  /\ pc' = "search"
  /\ UNCHANGED <<argVars, row, rowVars, saved>>

NextComponent ==
  /\ pc = "search" /\ x = width /\ c < 3
  /\ c' = c + 1 /\ x' = 0
  /\ UNCHANGED <<argVars, pc, row, base, scan, r, out, full, saved>>

RowWritten == x = width /\ (pc = "flat" \/ (pc = "search" /\ c = 3))

RowEnd ==                \* what the scanline held is dead
  /\ RowWritten
  /\ row' = row + 1 /\ pc' = "row"
  /\ base' = 0 /\ scan' = <<>> /\ c' = 0 /\ x' = 0 /\ r' = 0 /\ out' = <<>>
  /\ UNCHANGED <<argVars, full, saved>>

Close ==                 \* stbi_write_hdr_core returns 1, also of a full disk
  /\ pc = "row" /\ row = args.height
  /\ saved' = "ok" /\ pc' = "end"
  /\ UNCHANGED <<argVars, row, rowVars>>

Saving ==
  \/ Save \/ OpenFails \/ Open
  \/ (\E s \in [Columns -> Values] : RowBegin(s)) \/ RowOutside
  \/ FlatPixel \/ FindRun \/ Dump \/ FindRunEnd \/ Run \/ RunsWritten
  \/ NextComponent \/ RowEnd \/ Close

(* As far as this module goes. *)
ProgramOver ==
  \/ argpc \in {"left", "overrun"}
  \/ argpc = "ready" /\ args.mode # "oneshot"
  \/ pc \in {"end", "crashed"}

Ended ==
  /\ ProgramOver
  /\ UNCHANGED vars

Next == Parse \/ Saving \/ Ended

(* One thread, which nothing keeps waiting. *)
Spec == Init /\ [][Next]_vars /\ WF_vars(Parse) /\ WF_vars(Saving)

-----------------------------------------------------------------------------
(* The arguments in the ranges that parse_opt allows, the encoder's        *)
(* indices inside the row, and every byte a byte.                          *)
TypeOK ==
  /\ ArgsTypeOK
  /\ pc \in {"start", "open", "row", "flat", "search", "dump", "run", "end", "crashed"}
  /\ row \in 0 .. args.height
  /\ base = 0 \/ base \in RowBases
  /\ scan = <<>> \/ scan \in [Columns -> Values]
  /\ c \in 0 .. 3 /\ x \in 0 .. width /\ r \in 0 .. width
  /\ \A i \in DOMAIN out : out[i] \in 0 .. Bytes - 1
  /\ full \in BOOLEAN
  /\ saved \in {"no", "failed", "ok"}

(* The reader of the format: a length byte above Half announces a run, any *)
(* other one that many bytes.                                              *)
Decoded(code) ==
  LET from[i \in 1 .. Len(code) + Bytes + 1] ==
        IF i > Len(code) THEN <<>>
        ELSE IF code[i] > Half
             THEN [k \in 1 .. code[i] - Half |-> code[i + 1]] \o from[i + 2]
             ELSE SubSeq(code, i + 1, i + code[i]) \o from[i + 1 + code[i]]
  IN from[1]

Code == SubSeq(out, Len(ScanlineHeader) + 1, Len(out))

Component(k) == [i \in 1 .. width |-> Rgbe(scan[i - 1])[k + 1]]

(* At every write of the encoder its bytes stand for exactly the part of   *)
(* the row that is behind it: whatever mixture of runs and dumps, each cut *)
(* at its largest length, it took to get there.                            *)
PrefixReadsBack ==
  pc \in {"search", "dump", "run"} /\ ~full =>
    LET done == Decoded(Code)
    IN /\ Len(done) = c * width + x
       /\ \A k \in 0 .. c : \A i \in 1 .. width :
            k * width + i <= Len(done) => done[k * width + i] = Component(k)[i]

(* No mantissa is cut: the surface holds only what a byte of one can say.  *)
NothingCut == \A v \in Values : (v * Bytes) % 2 ^ Exponent(v) = 0

Pixel(rgbe) == IF rgbe[4] < Half THEN 0 ELSE (rgbe[1] * 2 ^ (rgbe[4] - Half)) \div Bytes

(* A reader that knows the width from the file's header, and so whether    *)
(* rows are encoded, finds the surface in the file: the i-th row is the    *)
(* surface's i-th, for every encoded size that the command line accepts    *)
(* and for plain rows up to where an int still holds i * width.            *)
RowReadsBack ==
  /\ pc = "crashed" => ~Encoded /\ ~RowFits
  /\ RowWritten /\ ~full =>
       LET code == IF Encoded THEN Decoded(Code) ELSE out
           byte(k, i) == IF Encoded THEN code[k * width + i + 1] ELSE code[4 * i + k + 1]
       IN /\ Encoded \/ RowFits => base = row * width
          /\ Len(code) = 4 * width
          /\ \A i \in Columns : Pixel([k \in 1 .. 4 |-> byte(k - 1, i)]) = scan[i]

(* The program gets to the end of its command line and of its file, or to  *)
(* where what it does is undefined: it does not loop for ever.             *)
Ends == <>ProgramOver
=============================================================================
