------------------------------ MODULE TileQueue ------------------------------
(***************************************************************************)
(* rsched_create_tasks: the task array is sized from the areas of the      *)
(* surface and of a block, then rsched_split_task walks the rectangle      *)
(* [0, width-1) x [0, height-1) and pushes one tile per step.  The kernels *)
(* of kernel_modules/ turn the tiles back into pixels, each with loop      *)
(* bounds of its own.                                                      *)
(***************************************************************************)
EXTENDS Integers, FiniteSets, Sequences

CONSTANTS Widths, Heights,        \* surface sizes (--width, --height)
          GrainX, GrainY,         \* block sizes (--block-size)
          Lanes                   \* pixels of one vector step, 8 in every kernel

ASSUME TileAssumption ==
  /\ Widths \subseteq Nat \ {0, 1} /\ Heights \subseteq Nat \ {0, 1}     \* at least 512
  /\ GrainX \subseteq Nat \ {0} /\ GrainY \subseteq Nat \ {0}
  /\ Lanes \in Nat \ {0}

VARIABLES width, height, gx, gy,  \* the arguments of the call
          phase,                  \* "idle", "split", "done", "destroyed"
          x, y,                   \* the corner of the next tile
          tasks,                  \* the tiles pushed; queue->length is its length
          capacity                \* elements allocated for queue->tasks

args == <<width, height, gx, gy>>
vars == <<args, phase, x, y, tasks, capacity>>

(* A corner of a tile is a pixel of the surface. *)
Columns == 0 .. width - 1
Rows == 0 .. height - 1
Tile == [x0 : Columns, x1 : Columns, y0 : Rows, y1 : Rows]

TypeOK ==
  /\ width \in Widths /\ height \in Heights /\ gx \in GrainX /\ gy \in GrainY
  /\ phase \in {"idle", "split", "done", "destroyed"}
  /\ x \in Columns /\ y \in Rows
  /\ tasks \in Seq(Tile)
  /\ capacity \in Nat

Lesser(a, b) == IF a <= b THEN a ELSE b

CeilDiv(a, b) == a \div b + (IF a % b # 0 THEN 1 ELSE 0)

Init ==
  /\ width \in Widths /\ height \in Heights /\ gx \in GrainX /\ gy \in GrainY
  /\ phase = "idle"
  /\ x = 0 /\ y = 0
  /\ tasks = <<>>
  /\ capacity = 0

(* rsched_queue_resize.  RS_QUE_DISCARD frees the array and allocates one  *)
(* of n elements, RS_QUE_EXTEND appends n to it (RS_QUE_ZERO only clears   *)
(* them); both, or neither, are an error and change nothing.               *)
ResizeMutant(n, flags) ==                            \* n is the new size in both cases
  IF "discard" \in flags THEN [tasks |-> <<>>, capacity |-> n] ELSE [tasks |-> tasks, capacity |-> n]
Resize(n, flags) ==
  CASE flags \cap {"discard", "extend"} = {"discard"} -> [tasks |-> <<>>, capacity |-> n]
    [] flags \cap {"discard", "extend"} = {"extend"} -> [tasks |-> tasks, capacity |-> capacity + n]
    [] OTHER -> [tasks |-> tasks, capacity |-> capacity]

CreateTasks ==
  /\ phase = "idle"
  /\ phase' = "split"
  /\ LET queue == Resize(CeilDiv(width * height, gx * gy), {"discard"})
     IN tasks' = queue.tasks /\ capacity' = queue.capacity
  /\ x' = 0 /\ y' = 0
  /\ UNCHANGED args

(* rsched_queue_push.  When the array is full it grows by a quarter, which *)
(* is nothing if it has fewer than four elements; the tile is stored       *)
(* either way.                                                             *)
Extension(c) == c \div 4

Push(t) ==
  LET queue == IF Len(tasks) >= capacity
               THEN Resize(Extension(capacity), {"extend", "zero"})
               ELSE Resize(0, {})
  IN /\ tasks' = Append(queue.tasks, t)
     /\ capacity' = queue.capacity

(* One turn of the inner loop of rsched_split_task; y moves on when the    *)
(* row of tiles is complete.                                               *)
RightEdge == Lesser(x + gx, width - 1)

BottomEdge == Lesser(y + gy, height - 1)

NextRowMutant == y + gy + 1                          \* steps past the row's end

NextRow == BottomEdge

SplitTile ==
  /\ phase = "split" /\ y < height - 1 /\ x < width - 1
  /\ Push([x0 |-> x, x1 |-> RightEdge, y0 |-> y, y1 |-> BottomEdge])
  /\ x' = RightEdge
  /\ UNCHANGED <<args, phase, y>>

SplitNextRow ==
  /\ phase = "split" /\ y < height - 1 /\ x >= width - 1
  /\ x' = 0 /\ y' = NextRow
  /\ UNCHANGED <<args, phase, tasks, capacity>>

SplitDone ==
  /\ phase = "split" /\ y >= height - 1
  /\ phase' = "done"
  /\ UNCHANGED <<args, x, y, tasks, capacity>>

(* rsched_queue_destroy, of rsched_shutdown. *)
Destroy ==
  /\ phase = "done"
  /\ phase' = "destroyed"
  /\ tasks' = <<>> /\ capacity' = 0
  /\ UNCHANGED <<args, x, y>>

Destroyed == phase = "destroyed" /\ UNCHANGED vars

Next == CreateTasks \/ SplitTile \/ SplitNextRow \/ SplitDone \/ Destroy \/ Destroyed

Spec == Init /\ [][Next]_vars

-----------------------------------------------------------------------------
(* What the kernels write for a tile.  All of them run y0 .. y1; the       *)
(* vector kernels take Lanes pixels a step, and surface_set_pixels drops   *)
(* the ones outside the surface.                                           *)
Pixels == Columns \X Rows

Steps(t, last) == {i \in t.x0 .. last : (i - t.x0) % Lanes = 0}

ScalarPixels(t) == ((t.x0 .. t.x1) \X (t.y0 .. t.y1)) \cap Pixels

VectorPixelsMutant(t, last) ==                       \* one pixel a step
  (Steps(t, last) \X (t.y0 .. t.y1)) \cap Pixels

VectorPixels(t, last) ==
  ((UNION {i .. i + Lanes - 1 : i \in Steps(t, last)}) \X (t.y0 .. t.y1)) \cap Pixels

Tiles == {tasks[i] : i \in DOMAIN tasks}

GenericWrites == UNION {ScalarPixels(t) : t \in Tiles}          \* x <= x1
NativeWrites == UNION {VectorPixels(t, t.x1) : t \in Tiles}     \* x <= x1, x += 8
Avx2Writes == UNION {VectorPixels(t, t.x1 - 1) : t \in Tiles}   \* x < x1, x += 8

(* The assembler kernel tests x only after a step: it takes one where the  *)
(* others take none.  (So with y, but no tile is without rows.)            *)
AsmWrites == UNION {VectorPixels(t, IF t.x0 <= t.x1 THEN t.x1 ELSE t.x0) : t \in Tiles}

(* The kernel with fused multiply-adds has a loop of its own, with the     *)
(* bounds of the AVX2 kernel's.                                            *)
FmaWrites == UNION {VectorPixels(t, t.x1 - 1) : t \in Tiles}    \* x < x1, x += 8

-----------------------------------------------------------------------------
(* The tiles partition the split rectangle: no two overlap and none of it  *)
(* is left out, however the block size divides the surface.                *)
Interior(t) == (t.x0 .. t.x1 - 1) \X (t.y0 .. t.y1 - 1)

TilesPartition ==
  phase = "done" =>
    /\ UNION {Interior(t) : t \in Tiles} = (0 .. width - 2) \X (0 .. height - 2)
    /\ \A i, j \in DOMAIN tasks : i < j => Interior(tasks[i]) \cap Interior(tasks[j]) = {}

(* Every pixel of the surface is written by the kernels whose loops        *)
(* include the tile's last column and row.                                 *)
InclusiveKernelsCover ==
  phase = "done" => \A written \in {GenericWrites, NativeWrites, AsmWrites} : written = Pixels

(* The AVX2 kernels stop before the last column of a tile.  The next tile  *)
(* or the slack of the last vector makes up for it, except at the right    *)
(* edge when the last tile's width is a multiple of the vector: then, and  *)
(* only then, exactly the last column of the surface is never written.     *)
LastTileWidth == LET full == (width - 1) % gx IN IF full = 0 THEN gx ELSE full

Avx2MissesLastColumn ==
  phase = "done" =>
    \A written \in {Avx2Writes, FmaWrites} :
      Pixels \ written = IF LastTileWidth % Lanes = 0
                         THEN {width - 1} \X (0 .. height - 1) ELSE {}

(* An array that starts with four elements or more grows before it would   *)
(* be overrun, as often as there are more tiles than the areas suggest.    *)
GrownInTime == CeilDiv(width * height, gx * gy) >= 4 => Len(tasks) <= capacity

(* The message of rsched_queue_push (rsched_queue.c:78-81) says that the   *)
(* queue is extended when a push is out of range; the store must then be   *)
(* inside it.                                                              *)
PushInBounds == Len(tasks) <= capacity
=============================================================================
