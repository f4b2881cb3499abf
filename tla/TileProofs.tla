----------------------------- MODULE TileProofs -----------------------------
(***************************************************************************)
(* rsched_create_tasks for every surface and every block size: the tiles   *)
(* partition the rectangle that is split, an array of at least four        *)
(* elements is never overrun, and which pixels the kernels write.          *)
(***************************************************************************)
EXTENDS TileQueue, SequenceTheorems, TLAPS

(* The pixels that have their tile when the loop stands at (x, y): the     *)
(* rows of tiles above, and of this row the part to the left.              *)
Passed(c, r) ==
  /\ c \in 0 .. width - 2
  /\ r \in 0 .. y - 1 \/ (r \in y .. BottomEdge - 1 /\ c < x)

Within(t, c, r) == c \in t.x0 .. t.x1 - 1 /\ r \in t.y0 .. t.y1 - 1

(* Exactly the passed pixels are in a tile, and none is in two.            *)
SplitInv ==
  /\ phase = "split" => x <= width - 1 /\ y <= height - 1
  /\ phase = "done" => y = height - 1
  /\ phase \in {"split", "done"} =>
       \A c, r \in Int : Passed(c, r) <=> \E i \in DOMAIN tasks : Within(tasks[i], c, r)
  /\ \A c, r \in Int : \A i, j \in DOMAIN tasks :
       Within(tasks[i], c, r) /\ Within(tasks[j], c, r) => i = j

(* A quarter of four elements is at least one: the array keeps growing.    *)
RoomInv ==
  CeilDiv(width * height, gx * gy) >= 4 =>
    /\ phase \in {"split", "done"} => capacity >= 4
    /\ Len(tasks) <= capacity

-----------------------------------------------------------------------------
LEMMA Arguments ==
  ASSUME TypeOK
  PROVE  /\ width \in Nat \ {0} /\ height \in Nat \ {0} /\ gx \in Nat \ {0} /\ gy \in Nat \ {0}
         /\ x \in 0 .. width - 1 /\ y \in 0 .. height - 1
         /\ RightEdge \in x .. width - 1 /\ BottomEdge \in y .. height - 1
         /\ x < width - 1 => RightEdge > x
         /\ y < height - 1 => BottomEdge > y
  BY TileAssumption DEF TileAssumption, TypeOK, Columns, Rows, RightEdge, BottomEdge, Lesser

(* What a push leaves in the queue: the tile at the end, and room for it   *)
(* if the array had four elements.                                         *)
LEMMA PushAppends ==
  ASSUME NEW t, Push(t), capacity \in Nat, Len(tasks) \in Nat
  PROVE  /\ tasks' = Append(tasks, t)
         /\ capacity' \in Nat /\ capacity' >= capacity
         /\ capacity >= 4 /\ Len(tasks) <= capacity => Len(tasks) + 1 <= capacity'
<1>1. CASE Len(tasks) >= capacity
  <2>1. /\ Resize(Extension(capacity), {"extend", "zero"}).tasks = tasks
        /\ Resize(Extension(capacity), {"extend", "zero"}).capacity = capacity + Extension(capacity)
    BY DEF Resize
  <2>2. Extension(capacity) \in Nat /\ (capacity >= 4 => Extension(capacity) >= 1)
    BY DEF Extension
  <2> QED
    BY <1>1, <2>1, <2>2 DEF Push
<1>2. CASE Len(tasks) < capacity
  <2>1. Resize(0, {}).tasks = tasks /\ Resize(0, {}).capacity = capacity
    BY DEF Resize
  <2> QED
    BY <1>2, <2>1 DEF Push
<1> QED
  BY <1>1, <1>2

LEMMA CreateAllocates ==
  ASSUME CreateTasks
  PROVE  /\ tasks' = <<>> /\ capacity' = CeilDiv(width * height, gx * gy)
         /\ x' = 0 /\ y' = 0 /\ phase' = "split" /\ UNCHANGED args
  BY DEF CreateTasks, Resize

LEMMA Sizes ==
  ASSUME NEW a \in Nat, NEW b \in Nat \ {0}
  PROVE  CeilDiv(a, b) \in Nat
  BY DEF CeilDiv

-----------------------------------------------------------------------------
LEMMA TypeStep ==
  ASSUME TypeOK, [Next]_vars
  PROVE  TypeOK'
<1> USE DEF args
<1>1. CASE CreateTasks
  <2>1. width * height \in Nat /\ gx * gy \in Nat \ {0}
    BY Arguments
  <2>2. CeilDiv(width * height, gx * gy) \in Nat
    BY <2>1, Sizes
  <2> QED
    BY <1>1, <2>2, CreateAllocates, Arguments DEF TypeOK, Columns, Rows, Tile
<1>2. CASE SplitTile
  <2> DEFINE t == [x0 |-> x, x1 |-> RightEdge, y0 |-> y, y1 |-> BottomEdge]
  <2>1. t \in Tile /\ RightEdge \in Columns
    BY Arguments DEF Tile, Columns, Rows
  <2>2. tasks' = Append(tasks, t) /\ capacity' \in Nat
    BY <1>2, PushAppends DEF SplitTile, TypeOK
  <2>3. tasks' \in Seq(Tile)
    BY <2>1, <2>2 DEF TypeOK
  <2> QED
    BY <1>2, <2>1, <2>2, <2>3 DEF SplitTile, TypeOK, Columns, Rows, Tile
<1>3. CASE SplitNextRow
  BY <1>3, Arguments DEF SplitNextRow, NextRow, TypeOK, Columns, Rows, Tile
<1>4. CASE SplitDone
  BY <1>4 DEF SplitDone, TypeOK, Columns, Rows, Tile
<1>5. CASE Destroy
  BY <1>5 DEF Destroy, TypeOK, Columns, Rows, Tile
<1>6. CASE Destroyed \/ UNCHANGED vars
  BY <1>6 DEF Destroyed, vars, TypeOK, Columns, Rows, Tile
<1> QED
  BY <1>1, <1>2, <1>3, <1>4, <1>5, <1>6 DEF Next

LEMMA RoomStep ==
  ASSUME TypeOK, RoomInv, [Next]_vars
  PROVE  RoomInv'
<1> USE DEF args
<1> DEFINE want == CeilDiv(width * height, gx * gy)
<1>1. CASE CreateTasks
  <2>1. want' = want /\ width * height \in Nat /\ gx * gy \in Nat \ {0}
    BY <1>1, CreateAllocates, Arguments
  <2>2. want \in Nat
    BY <2>1, Sizes
  <2> QED
    BY <1>1, <2>1, <2>2, CreateAllocates DEF RoomInv
<1>2. CASE SplitTile
  <2>1. want' = want
    BY <1>2 DEF SplitTile
  <2> DEFINE t == [x0 |-> x, x1 |-> RightEdge, y0 |-> y, y1 |-> BottomEdge]
  <2>2. /\ tasks' = Append(tasks, t)
        /\ capacity' \in Nat /\ capacity' >= capacity
        /\ capacity >= 4 /\ Len(tasks) <= capacity => Len(tasks) + 1 <= capacity'
    BY <1>2, PushAppends DEF SplitTile, TypeOK
  <2>3. Len(tasks') = Len(tasks) + 1 /\ capacity \in Nat
    BY <2>2 DEF TypeOK
  <2> QED
    BY <1>2, <2>1, <2>2, <2>3 DEF SplitTile, RoomInv
<1>3. CASE SplitNextRow
  BY <1>3 DEF SplitNextRow, RoomInv
<1>4. CASE SplitDone
  BY <1>4 DEF SplitDone, RoomInv
<1>5. CASE Destroy
  BY <1>5 DEF Destroy, RoomInv
<1>6. CASE Destroyed \/ UNCHANGED vars
  BY <1>6 DEF Destroyed, vars, RoomInv
<1> QED
  BY <1>1, <1>2, <1>3, <1>4, <1>5, <1>6 DEF Next

(* One more tile passes exactly its own pixels, which had none.            *)
LEMMA TileStep ==
  ASSUME TypeOK, SplitInv, SplitTile
  PROVE  SplitInv'
<1> DEFINE t == [x0 |-> x, x1 |-> RightEdge, y0 |-> y, y1 |-> BottomEdge]
<1> USE DEF args
<1>1. tasks' = Append(tasks, t) /\ tasks \in Seq(Tile) /\ t \in Tile
  BY PushAppends, Arguments DEF SplitTile, TypeOK, Tile, Columns, Rows
<1>2. /\ DOMAIN tasks' = 1 .. Len(tasks) + 1 /\ DOMAIN tasks = 1 .. Len(tasks)
      /\ Len(tasks) \in Nat
      /\ tasks'[Len(tasks) + 1] = t
      /\ \A i \in DOMAIN tasks : tasks'[i] = tasks[i]
  BY <1>1
<1>3. /\ UNCHANGED <<width, height, gx, gy, y>> /\ x' = RightEdge /\ phase' = phase /\ phase = "split"
      /\ y < height - 1 /\ x < width - 1
  BY DEF SplitTile
<1>4. BottomEdge' = BottomEdge
  BY <1>3 DEF BottomEdge
<1>5. ASSUME NEW c \in Int, NEW r \in Int
      PROVE  /\ Within(t, c, r) => ~Passed(c, r)
             /\ Passed(c, r)' <=> Passed(c, r) \/ Within(t, c, r)
  BY <1>3, <1>4, Arguments DEF Passed, Within
<1>6. ASSUME NEW c \in Int, NEW r \in Int
      PROVE  Passed(c, r)' <=> \E i \in DOMAIN tasks' : Within(tasks'[i], c, r)
  <2>1. Passed(c, r) <=> \E i \in DOMAIN tasks : Within(tasks[i], c, r)
    BY <1>3 DEF SplitInv
  <2>2. (\E i \in DOMAIN tasks' : Within(tasks'[i], c, r))
          <=> (\E i \in DOMAIN tasks : Within(tasks[i], c, r)) \/ Within(t, c, r)
    BY <1>2
  <2> QED
    BY <2>1, <2>2, <1>5
<1>7. ASSUME NEW c \in Int, NEW r \in Int, NEW i \in DOMAIN tasks', NEW j \in DOMAIN tasks',
             Within(tasks'[i], c, r), Within(tasks'[j], c, r)
      PROVE  i = j
  <2>1. ASSUME NEW k \in DOMAIN tasks, Within(tasks[k], c, r) PROVE ~Within(t, c, r)
    BY <2>1, <1>3, <1>5 DEF SplitInv
  <2>2. CASE i \in DOMAIN tasks /\ j \in DOMAIN tasks
    BY <2>2, <1>2, <1>7 DEF SplitInv
  <2>3. CASE i \notin DOMAIN tasks \/ j \notin DOMAIN tasks
    BY <2>1, <2>3, <1>2, <1>7
  <2> QED
    BY <2>2, <2>3
<1>8. x' <= width' - 1 /\ y' <= height' - 1
  BY <1>3, Arguments
<1> QED
  BY <1>3, <1>6, <1>7, <1>8 DEF SplitInv, Within

LEMMA SplitStep ==
  ASSUME TypeOK, SplitInv, [Next]_vars
  PROVE  SplitInv'
<1> USE DEF args
<1>1. CASE CreateTasks
  <2>1. tasks' = <<>> /\ x' = 0 /\ y' = 0 /\ phase' = "split" /\ UNCHANGED <<width, height, gx, gy>>
    BY <1>1, CreateAllocates
  <2>2. DOMAIN tasks' = {}
    BY <2>1
  <2>3. ASSUME NEW c \in Int, NEW r \in Int PROVE ~Passed(c, r)'
    BY <2>1 DEF Passed
  <2>4. x' <= width' - 1 /\ y' <= height' - 1
    BY <2>1, Arguments
  <2> QED
    BY <2>1, <2>2, <2>3, <2>4 DEF SplitInv
<1>2. CASE SplitTile
  BY <1>2, TileStep
<1>3. CASE SplitNextRow
  <2>1. /\ UNCHANGED <<width, height, gx, gy, tasks, phase>> /\ x' = 0 /\ y' = BottomEdge
        /\ phase = "split" /\ y < height - 1 /\ x = width - 1
    <3>1. /\ UNCHANGED <<width, height, gx, gy, tasks, phase>> /\ x' = 0 /\ y' = BottomEdge
          /\ phase = "split" /\ y < height - 1 /\ x >= width - 1
      BY <1>3 DEF SplitNextRow, NextRow
    <3>2. x = width - 1
      BY <3>1, Arguments
    <3> QED
      BY <3>1, <3>2
  <2>2. BottomEdge' \in Int /\ BottomEdge' >= y' /\ BottomEdge \in Int /\ BottomEdge >= y
    <3>1. BottomEdge = IF y + gy <= height - 1 THEN y + gy ELSE height - 1
      BY DEF BottomEdge, Lesser
    <3>2. BottomEdge' = IF BottomEdge + gy <= height - 1 THEN BottomEdge + gy ELSE height - 1
      BY <2>1 DEF BottomEdge, Lesser
    <3> QED
      BY <2>1, <3>1, <3>2, Arguments
  <2>3. ASSUME NEW c \in Int, NEW r \in Int PROVE Passed(c, r)' <=> Passed(c, r)
    <3>1. Passed(c, r)' <=> c \in 0 .. width - 2 /\ r \in 0 .. BottomEdge - 1
      <4>1. /\ x' = 0 /\ y' = BottomEdge /\ width' = width
            /\ BottomEdge \in Int /\ BottomEdge' \in Int /\ width \in Int
        BY <2>1, <2>2, Arguments
      <4>2. Passed(c, r)' <=> /\ c \in 0 .. width' - 2
                              /\ r \in 0 .. y' - 1 \/ (r \in y' .. BottomEdge' - 1 /\ c < x')
        BY DEF Passed
      <4>3. ~(c \in 0 .. width - 2 /\ c < 0)
        BY <4>1
      <4> QED
        BY <4>1, <4>2, <4>3
    <3>2. Passed(c, r) <=> c \in 0 .. width - 2 /\ r \in 0 .. BottomEdge - 1
      <4>1. x = width - 1 /\ y \in Nat /\ width \in Int /\ BottomEdge \in Int /\ BottomEdge >= y
        BY <2>1, <2>2, Arguments
      <4> QED
        BY <4>1 DEF Passed
    <3> QED
      BY <3>1, <3>2
  <2>4. x' <= width' - 1 /\ y' <= height' - 1
    BY <2>1, Arguments
  <2> QED
    BY <2>1, <2>3, <2>4 DEF SplitInv, Within
<1>4. CASE SplitDone
  <2>1. /\ UNCHANGED <<width, height, gx, gy, tasks, x, y>>
        /\ phase = "split" /\ phase' = "done" /\ y = height - 1
    BY <1>4, Arguments DEF SplitDone
  <2>2. ASSUME NEW c \in Int, NEW r \in Int PROVE Passed(c, r)' <=> Passed(c, r)
    BY <2>1 DEF Passed, BottomEdge
  <2> QED
    BY <2>1, <2>2 DEF SplitInv, Within
<1>5. CASE Destroy
  <2>1. DOMAIN tasks' = {} /\ phase' = "destroyed"
    BY <1>5 DEF Destroy
  <2> QED
    BY <2>1 DEF SplitInv
<1>6. CASE Destroyed \/ UNCHANGED vars
  <2>1. UNCHANGED <<width, height, gx, gy, phase, x, y, tasks>>
    BY <1>6 DEF Destroyed, vars
  <2>2. ASSUME NEW c \in Int, NEW r \in Int PROVE Passed(c, r)' <=> Passed(c, r)
    BY <2>1 DEF Passed, BottomEdge
  <2> QED
    BY <2>1, <2>2 DEF SplitInv, Within
<1> QED
  BY <1>1, <1>2, <1>3, <1>4, <1>5, <1>6 DEF Next

-----------------------------------------------------------------------------
(* Every tile begins at a multiple of the block's width and ends where the *)
(* next one begins or at the last column.                                  *)
GridInv ==
  /\ x = width - 1 \/ \E k \in Nat : x = k * gx
  /\ \A i \in DOMAIN tasks : \E k \in Nat :
       /\ tasks[i].x0 = k * gx /\ tasks[i].x0 < width - 1
       /\ tasks[i].x1 = Lesser(tasks[i].x0 + gx, width - 1)

LEMMA GridStep ==
  ASSUME TypeOK, GridInv, [Next]_vars
  PROVE  GridInv'
<1> USE DEF args, GridInv
<1>1. CASE CreateTasks
  <2>1. tasks' = <<>> /\ x' = 0 /\ gx' = gx /\ width' = width
    BY <1>1, CreateAllocates
  <2>2. 0 \in Nat /\ x' = 0 * gx' /\ DOMAIN tasks' = {}
    BY <2>1, Arguments
  <2> QED
    BY <2>2
<1>2. CASE SplitTile
  <2> DEFINE t == [x0 |-> x, x1 |-> RightEdge, y0 |-> y, y1 |-> BottomEdge]
  <2>1. /\ UNCHANGED <<width, gx>> /\ x' = RightEdge /\ x < width - 1
        /\ tasks' = Append(tasks, t) /\ Len(tasks) \in Nat /\ DOMAIN tasks = 1 .. Len(tasks)
    BY <1>2, PushAppends DEF SplitTile, TypeOK
  <2>2. PICK k \in Nat : x = k * gx
    BY <2>1, Arguments
  <2>3. x' = width' - 1 \/ \E n \in Nat : x' = n * gx'
    <3>1. RightEdge = width - 1 \/ RightEdge = x + gx
      BY DEF RightEdge, Lesser
    <3>2. (k + 1) \in Nat /\ (k + 1) * gx = k * gx + gx
      BY <2>2, Arguments
    <3> QED
      BY <2>1, <2>2, <3>1, <3>2
  <2>4. ASSUME NEW i \in DOMAIN tasks'
        PROVE  \E n \in Nat : /\ tasks'[i].x0 = n * gx' /\ tasks'[i].x0 < width' - 1
                              /\ tasks'[i].x1 = Lesser(tasks'[i].x0 + gx', width' - 1)
    <3>1. CASE i \in DOMAIN tasks
      <4>1. tasks'[i] = tasks[i]
        BY <2>1, <3>1 DEF TypeOK
      <4> QED
        BY <2>1, <3>1, <4>1
    <3>2. CASE i \notin DOMAIN tasks
      <4>1. tasks'[i] = t
        BY <2>1, <3>2 DEF TypeOK
      <4> QED
        BY <2>1, <2>2, <4>1 DEF RightEdge
    <3> QED
      BY <3>1, <3>2
  <2> QED
    BY <2>3, <2>4
<1>3. CASE SplitNextRow
  <2>1. x' = 0 /\ UNCHANGED <<width, gx, tasks>>
    BY <1>3 DEF SplitNextRow
  <2>2. 0 \in Nat /\ x' = 0 * gx'
    BY <2>1, Arguments
  <2> QED
    BY <2>1, <2>2
<1>4. CASE SplitDone
  BY <1>4 DEF SplitDone
<1>5. CASE Destroy
  BY <1>5 DEF Destroy
<1>6. CASE Destroyed \/ UNCHANGED vars
  BY <1>6 DEF Destroyed, vars
<1> QED
  BY <1>1, <1>2, <1>3, <1>4, <1>5, <1>6 DEF Next

(* A pixel of the surface is in a tile, or beside one at its right or      *)
(* lower edge.                                                             *)
LEMMA PixelHasTile ==
  ASSUME TypeOK, SplitInv, phase = "done", NEW c \in Columns, NEW r \in Rows
  PROVE  \E t \in Tiles : /\ t \in Tile /\ t.x0 < t.x1
                          /\ c \in t.x0 .. t.x1 /\ r \in t.y0 .. t.y1
                          /\ c < width - 1 => c < t.x1
<1> DEFINE a == Lesser(c, width - 2)
<1> DEFINE b == Lesser(r, height - 2)
<1>1. width \in Nat /\ height \in Nat /\ width >= 2 /\ height >= 2 /\ y = height - 1
  BY TileAssumption DEF TileAssumption, TypeOK, SplitInv
<1>2. a \in 0 .. width - 2 /\ b \in 0 .. height - 2
      /\ (c = a \/ (c = width - 1 /\ a = width - 2)) /\ (r = b \/ (r = height - 1 /\ b = height - 2))
  BY <1>1 DEF Columns, Rows, Lesser
<1> HIDE DEF a, b
<1>3. Passed(a, b)
  BY <1>1, <1>2 DEF Passed
<1>4. PICK i \in DOMAIN tasks : Within(tasks[i], a, b)
  BY <1>2, <1>3 DEF SplitInv
<1>5. tasks[i] \in Tile /\ tasks[i] \in Tiles
  BY DEF TypeOK, Tiles
<1>6. /\ tasks[i].x0 < tasks[i].x1 /\ c \in tasks[i].x0 .. tasks[i].x1 /\ r \in tasks[i].y0 .. tasks[i].y1
      /\ c < width - 1 => c < tasks[i].x1
  BY <1>1, <1>2, <1>4, <1>5 DEF Within, Tile, Columns, Rows
<1> QED
  BY <1>5, <1>6

LEMMA Division ==
  ASSUME NEW a \in Nat, NEW b \in Nat \ {0}
  PROVE  \E q \in Nat, r \in 0 .. b - 1 : a = b * q + r /\ a % b = r
<1>1. PICK q \in Nat, r \in 0 .. b - 1 : q = a \div b /\ r = a % b
  BY SMT
<1>2. a = b * q + r
  BY <1>1, SMT
<1> QED
  BY <1>1, <1>2

LEMMA Remainder ==
  ASSUME NEW b \in Nat \ {0}, NEW q \in Nat, NEW r \in 0 .. b - 1
  PROVE  (b * q + r) % b = r /\ (b * q) % b = 0
<1>1. (b * q + r) % b = r
  BY SMTT(30)
<1>2. (b * q) % b = 0
  BY SMTT(30)
<1> QED
  BY <1>1, <1>2

LEMMA Multiple ==
  ASSUME NEW a \in Nat, NEW b \in Nat \ {0}, a % b = 0
  PROVE  \E q \in Nat : a = b * q
<1>1. PICK q \in Nat, r \in 0 .. b - 1 : a = b * q + r /\ a % b = r
  BY Division
<1>2. b * q \in Nat
  OBVIOUS
<1> QED
  BY <1>1, <1>2

(* A loop of vectors that reaches a column writes it.                      *)
LEMMA VectorReaches ==
  ASSUME NEW t, t.x0 \in Nat, NEW last \in Nat, NEW c \in t.x0 .. last
  PROVE  \E i \in Steps(t, last) : c \in i .. i + Lanes - 1
<1>1. Lanes \in Nat \ {0} /\ c - t.x0 \in Nat
  BY TileAssumption DEF TileAssumption
<1>2. PICK q \in Nat, r \in 0 .. Lanes - 1 : c - t.x0 = Lanes * q + r
  BY <1>1, Division
<1>3. Lanes * q \in Nat /\ (Lanes * q) % Lanes = 0
  BY <1>1, Remainder
<1> DEFINE m == Lanes * q
<1> HIDE DEF m
<1>4. m \in Nat /\ m % Lanes = 0 /\ c - t.x0 = m + r
  BY <1>2, <1>3 DEF m
<1>5. t.x0 + m \in t.x0 .. last /\ (t.x0 + m) - t.x0 = m /\ c \in (t.x0 + m) .. (t.x0 + m) + Lanes - 1
  BY <1>1, <1>2, <1>4
<1>6. t.x0 + m \in Steps(t, last)
  BY <1>4, <1>5 DEF Steps
<1> QED
  BY <1>5, <1>6

(* The last tile of a row has the width of that name; from the end of any  *)
(* other one it is at least as far to the last column.                     *)
LEMMA TileWidths ==
  ASSUME TypeOK, GridInv, NEW t \in Tiles
  PROVE  /\ LastTileWidth \in Nat \ {0}
         /\ t.x0 \in Nat /\ t.x1 \in Nat /\ t.x0 < t.x1 /\ t.x1 <= width - 1
         /\ t.x1 = width - 1 => t.x1 - t.x0 = LastTileWidth
         /\ t.x1 < width - 1 => t.x1 + LastTileWidth <= width - 1
<1>1. PICK k \in Nat : /\ t.x0 = k * gx /\ t.x0 < width - 1
                       /\ t.x1 = IF t.x0 + gx <= width - 1 THEN t.x0 + gx ELSE width - 1
  BY DEF Tiles, GridInv, Lesser
<1>2. gx \in Nat \ {0} /\ width - 1 \in Nat
  BY Arguments
<1>3. PICK q \in Nat, r \in 0 .. gx - 1 : width - 1 = gx * q + r /\ (width - 1) % gx = r
  BY <1>2, Division
<1>4. LastTileWidth = IF r = 0 THEN gx ELSE r
  BY <1>3 DEF LastTileWidth
<1>5. t.x0 \in Nat /\ t.x1 \in Nat /\ t.x0 < t.x1 /\ t.x1 <= width - 1
  BY <1>1, <1>2
<1>6. k * gx = gx * k /\ gx * k \in Nat /\ gx * q \in Nat /\ gx * (k + 1) = gx * k + gx
  BY <1>2, SMT
<1>7. CASE q = k
  BY <1>1, <1>2, <1>3, <1>4, <1>5, <1>6, <1>7
<1>8. CASE q <= k - 1
  <2>1. gx * q + gx <= gx * k
    <3>1. gx * (q + 1) = gx * q + gx
      BY <1>2
    <3>2. k - (q + 1) \in Nat /\ gx * (k - (q + 1)) \in Nat
      BY <1>2, <1>8
    <3>3. gx * k = gx * (q + 1) + gx * (k - (q + 1))
      BY <1>2, <3>2
    <3> QED
      BY <1>2, <1>6, <3>1, <3>2, <3>3
  <2> QED
    BY <1>1, <1>2, <1>3, <1>6, <2>1
<1>9. CASE q = k + 1
  BY <1>1, <1>2, <1>3, <1>4, <1>5, <1>6, <1>9
<1>10. CASE q >= k + 2
  <2>1. gx * q >= gx * k + 2 * gx
    <3>1. q - (k + 2) \in Nat /\ gx * (q - (k + 2)) \in Nat
      BY <1>2, <1>10
    <3>2. gx * q = gx * (k + 2) + gx * (q - (k + 2))
      BY <1>2, <3>1
    <3>3. gx * (k + 2) = gx * k + 2 * gx
      BY <1>2
    <3> QED
      BY <1>2, <1>6, <3>1, <3>2, <3>3
  <2>2. LastTileWidth \in Nat \ {0} /\ LastTileWidth <= gx
    BY <1>2, <1>3, <1>4
  <2>3. t.x1 = t.x0 + gx /\ t.x1 + gx <= width - 1
    BY <1>1, <1>2, <1>3, <1>6, <2>1
  <2> QED
    BY <1>2, <1>5, <2>2, <2>3
<1> QED
  BY <1>7, <1>8, <1>9, <1>10

(* When an AVX2 kernel's loop reaches the last column.                     *)
LEMMA LastColumnWritten ==
  ASSUME TypeOK, GridInv, NEW t \in Tiles, t.x1 = width - 1, LastTileWidth % Lanes # 0
  PROVE  \E i \in Steps(t, t.x1 - 1) : width - 1 \in i .. i + Lanes - 1
<1>1. Lanes \in Nat \ {0} /\ width \in Nat
  BY TileAssumption, Arguments DEF TileAssumption
<1>2. LastTileWidth \in Nat \ {0} /\ t.x0 \in Nat /\ t.x1 \in Nat /\ t.x1 - t.x0 = LastTileWidth
  BY TileWidths
<1>3. PICK q \in Nat, r \in 0 .. Lanes - 1 : LastTileWidth = Lanes * q + r /\ LastTileWidth % Lanes = r
  BY <1>1, <1>2, Division
<1>4. Lanes * q \in Nat /\ (Lanes * q) % Lanes = 0
  BY <1>1, Remainder
<1> DEFINE m == Lanes * q
<1> HIDE DEF m
<1>5. m \in Nat /\ m % Lanes = 0 /\ LastTileWidth = m + r
  BY <1>3, <1>4 DEF m
<1>6. /\ t.x0 + m \in t.x0 .. t.x1 - 1 /\ (t.x0 + m) - t.x0 = m
      /\ width - 1 \in (t.x0 + m) .. (t.x0 + m) + Lanes - 1
  BY <1>1, <1>2, <1>3, <1>5
<1>7. t.x0 + m \in Steps(t, t.x1 - 1)
  BY <1>5, <1>6 DEF Steps
<1> QED
  BY <1>6, <1>7

LEMMA LastColumnMissed ==
  ASSUME TypeOK, GridInv, NEW t \in Tiles, LastTileWidth % Lanes = 0,
         NEW i \in Steps(t, t.x1 - 1)
  PROVE  width - 1 \notin i .. i + Lanes - 1
<1>1. Lanes \in Nat \ {0} /\ width \in Nat
  BY TileAssumption, Arguments DEF TileAssumption
<1>2. /\ LastTileWidth \in Nat \ {0} /\ t.x0 \in Nat /\ t.x1 \in Nat
      /\ t.x1 = width - 1 => t.x1 - t.x0 = LastTileWidth
      /\ t.x1 < width - 1 => t.x1 + LastTileWidth <= width - 1
      /\ t.x1 <= width - 1
  BY TileWidths
<1>3. i \in t.x0 .. t.x1 - 1 /\ (i - t.x0) % Lanes = 0 /\ i - t.x0 \in Nat
  BY <1>2 DEF Steps
<1>4. PICK n \in Nat : LastTileWidth = Lanes * n
  BY <1>1, <1>2, Multiple, Zenon
<1>5. PICK s \in Nat : i - t.x0 = Lanes * s
  BY <1>1, <1>3, Multiple, Zenon
<1>6. Lanes * n \in Nat /\ Lanes * s \in Nat
  BY <1>1
<1>7. LastTileWidth >= Lanes
  <2>1. n >= 1
    BY <1>1, <1>2, <1>4
  <2>2. n - 1 \in Nat /\ Lanes * (n - 1) \in Nat /\ Lanes * n = Lanes * (n - 1) + Lanes
    BY <1>1, <2>1
  <2> QED
    BY <1>1, <1>4, <2>2
<1>8. CASE t.x1 = width - 1
  <2>1. Lanes * s < Lanes * n
    BY <1>2, <1>3, <1>4, <1>5, <1>6, <1>8
  <2>2. s < n
    <3> SUFFICES ASSUME s >= n PROVE FALSE
      OBVIOUS
    <3>1. s - n \in Nat /\ Lanes * (s - n) \in Nat /\ Lanes * s = Lanes * n + Lanes * (s - n)
      BY <1>1
    <3> QED
      BY <1>6, <2>1, <3>1
  <2>3. n - s - 1 \in Nat /\ Lanes * (n - s - 1) \in Nat
        /\ Lanes * n = Lanes * s + Lanes + Lanes * (n - s - 1)
    BY <1>1, <2>2
  <2> QED
    BY <1>1, <1>2, <1>3, <1>4, <1>5, <1>6, <1>8, <2>3
<1>9. CASE t.x1 < width - 1
  BY <1>1, <1>2, <1>3, <1>7, <1>9
<1> QED
  BY <1>2, <1>8, <1>9

-----------------------------------------------------------------------------
(* The corners of every tile lie on the surface, and the array's size is   *)
(* a number, also after it has grown.                                      *)
THEOREM TilesTyped == Spec => []TypeOK
<1>1. Init => TypeOK
  BY TileAssumption DEF TileAssumption, Init, TypeOK, Columns, Rows
<1>2. TypeOK /\ [Next]_vars => TypeOK'
  BY TypeStep
<1> QED
  BY <1>1, <1>2, PTL DEF Spec

(* rsched_queue_push stores inside the array whenever rsched_create_tasks  *)
(* asked for four elements or more, however many tiles there are.          *)
THEOREM ArrayGrowsInTime == Spec => []GrownInTime
<1>1. Init => RoomInv
  BY DEF Init, RoomInv
<1>2. TypeOK /\ RoomInv /\ [Next]_vars => RoomInv'
  BY RoomStep
<1>3. RoomInv => GrownInTime
  BY DEF RoomInv, GrownInTime
<1> QED
  BY <1>1, <1>2, <1>3, TilesTyped, PTL DEF Spec

(* rsched_split_task leaves no pixel of its rectangle out and puts none in *)
(* two tiles, for every surface and every block size.                      *)
THEOREM SplitPartitions == Spec => []TilesPartition
<1>1. Init => SplitInv
  BY DEF Init, SplitInv
<1>2. TypeOK /\ SplitInv /\ [Next]_vars => SplitInv'
  BY SplitStep
<1>3. TypeOK /\ SplitInv => TilesPartition
  <2> SUFFICES ASSUME TypeOK, SplitInv, phase = "done"
               PROVE  /\ UNION {Interior(t) : t \in Tiles} = (0 .. width - 2) \X (0 .. height - 2)
                      /\ \A i, j \in DOMAIN tasks :
                           i < j => Interior(tasks[i]) \cap Interior(tasks[j]) = {}
    BY DEF TilesPartition
  <2>1. \A i \in DOMAIN tasks : tasks[i] \in Tile
    BY DEF TypeOK
  <2>2. ASSUME NEW i \in DOMAIN tasks
        PROVE  /\ Interior(tasks[i]) \subseteq Int \X Int
               /\ \A c, r \in Int : <<c, r>> \in Interior(tasks[i]) <=> Within(tasks[i], c, r)
    BY <2>1 DEF Interior, Within
  <2>3. ASSUME NEW c \in Int, NEW r \in Int
        PROVE  Passed(c, r) <=> c \in 0 .. width - 2 /\ r \in 0 .. height - 2
    BY Arguments DEF SplitInv, Passed
  <2>4. ASSUME NEW c \in Int, NEW r \in Int
        PROVE  <<c, r>> \in UNION {Interior(t) : t \in Tiles}
                 <=> <<c, r>> \in (0 .. width - 2) \X (0 .. height - 2)
    <3>1. <<c, r>> \in UNION {Interior(t) : t \in Tiles}
            <=> \E i \in DOMAIN tasks : <<c, r>> \in Interior(tasks[i])
      BY DEF Tiles
    <3>2. (\E i \in DOMAIN tasks : <<c, r>> \in Interior(tasks[i])) <=> Passed(c, r)
      BY <2>2 DEF SplitInv
    <3> QED
      BY <3>1, <3>2, <2>3
  <2>5. UNION {Interior(t) : t \in Tiles} \subseteq Int \X Int
    BY <2>2 DEF Tiles
  <2>6. (0 .. width - 2) \X (0 .. height - 2) \subseteq Int \X Int
    BY Arguments
  <2>7. ASSUME NEW i \in DOMAIN tasks, NEW j \in DOMAIN tasks, i < j
        PROVE  Interior(tasks[i]) \cap Interior(tasks[j]) = {}
    <3>1. ASSUME NEW c \in Int, NEW r \in Int
          PROVE  ~(<<c, r>> \in Interior(tasks[i]) /\ <<c, r>> \in Interior(tasks[j]))
      <4>1. DOMAIN tasks = 1 .. Len(tasks) /\ Len(tasks) \in Nat
        BY DEF TypeOK
      <4>2. i # j
        BY <2>7, <4>1
      <4>3. ~(Within(tasks[i], c, r) /\ Within(tasks[j], c, r))
        BY <4>2 DEF SplitInv
      <4> QED
        BY <2>2, <4>3
    <3> QED
      BY <2>2, <3>1
  <2> QED
    BY <2>4, <2>5, <2>6, <2>7
<1> QED
  BY <1>1, <1>2, <1>3, TilesTyped, PTL DEF Spec

(* The kernels whose loops include the last column and row of a tile write *)
(* every pixel, for every surface, block size and length of a vector.      *)
THEOREM InclusiveCover == Spec => []InclusiveKernelsCover
<1>1. Init => SplitInv
  BY DEF Init, SplitInv
<1>2. TypeOK /\ SplitInv /\ [Next]_vars => SplitInv'
  BY SplitStep
<1>3. TypeOK /\ SplitInv => InclusiveKernelsCover
  <2> SUFFICES ASSUME TypeOK, SplitInv, phase = "done"
               PROVE  GenericWrites = Pixels /\ NativeWrites = Pixels /\ AsmWrites = Pixels
    BY DEF InclusiveKernelsCover
  <2>1. GenericWrites \subseteq Pixels /\ NativeWrites \subseteq Pixels /\ AsmWrites \subseteq Pixels
    BY DEF GenericWrites, NativeWrites, AsmWrites, ScalarPixels, VectorPixels
  <2>2. ASSUME NEW p \in Pixels
        PROVE  p \in GenericWrites /\ p \in NativeWrites /\ p \in AsmWrites
    <3>1. PICK c \in Columns, r \in Rows : p = <<c, r>>
      BY DEF Pixels
    <3>2. PICK t \in Tiles : /\ t \in Tile /\ t.x0 < t.x1
                             /\ c \in t.x0 .. t.x1 /\ r \in t.y0 .. t.y1
      BY PixelHasTile
    <3>3. t.x0 \in Nat /\ t.x1 \in Nat /\ t.x0 <= t.x1
      BY <3>2, Arguments DEF Tile, Columns
    <3>4. p \in ScalarPixels(t)
      BY <3>1, <3>2 DEF ScalarPixels
    <3>5. PICK i \in Steps(t, t.x1) : c \in i .. i + Lanes - 1
      BY <3>2, <3>3, VectorReaches
    <3>6. p \in VectorPixels(t, t.x1)
      BY <3>1, <3>2, <3>5 DEF VectorPixels
    <3> QED
      BY <3>2, <3>3, <3>4, <3>6 DEF GenericWrites, NativeWrites, AsmWrites
  <2> QED
    BY <2>1, <2>2
<1> QED
  BY <1>1, <1>2, <1>3, TilesTyped, PTL DEF Spec

(* The AVX2 kernels leave out the last column of the surface, all of it,   *)
(* exactly when the last tile's width is a multiple of the vector.         *)
THEOREM LastColumnAtStake == Spec => []Avx2MissesLastColumn
<1>1. Init => SplitInv /\ GridInv
  <2>1. Init => 0 = 0 * gx
    BY TileAssumption DEF TileAssumption, Init
  <2> QED
    BY <2>1 DEF Init, SplitInv, GridInv
<1>2. TypeOK /\ SplitInv /\ GridInv /\ [Next]_vars => SplitInv' /\ GridInv'
  BY SplitStep, GridStep
<1>3. TypeOK /\ SplitInv /\ GridInv => Avx2MissesLastColumn
  <2> DEFINE written == UNION {VectorPixels(t, t.x1 - 1) : t \in Tiles}
  <2> SUFFICES ASSUME TypeOK, SplitInv, GridInv, phase = "done"
               PROVE  Pixels \ written = IF LastTileWidth % Lanes = 0
                                         THEN {width - 1} \X (0 .. height - 1) ELSE {}
    BY DEF Avx2MissesLastColumn, Avx2Writes, FmaWrites
  <2>1. ASSUME NEW c \in Columns, NEW r \in Rows
        PROVE  <<c, r>> \in written <=> c < width - 1 \/ LastTileWidth % Lanes # 0
    <3>1. PICK t \in Tiles : /\ t \in Tile /\ t.x0 < t.x1
                             /\ c \in t.x0 .. t.x1 /\ r \in t.y0 .. t.y1
                             /\ c < width - 1 => c < t.x1
      BY PixelHasTile
    <3>2. t.x0 \in Nat /\ t.x1 \in Nat /\ t.x1 <= width - 1 /\ c \in Nat /\ c <= width - 1 /\ width \in Nat
      BY TileWidths, Arguments DEF Columns
    <3>3. (\E i \in Steps(t, t.x1 - 1) : c \in i .. i + Lanes - 1) => <<c, r>> \in written
      BY <3>1 DEF VectorPixels, Pixels
    <3>4. CASE c < width - 1
      <4>1. t.x1 - 1 \in Nat /\ c \in t.x0 .. t.x1 - 1
        BY <3>1, <3>2, <3>4
      <4> QED
        BY <3>2, <3>3, <3>4, <4>1, VectorReaches
    <3>5. CASE c = width - 1 /\ LastTileWidth % Lanes # 0
      <4>1. t.x1 = width - 1
        BY <3>1, <3>2, <3>5
      <4> QED
        BY <3>3, <3>5, <4>1, LastColumnWritten
    <3>6. CASE c = width - 1 /\ LastTileWidth % Lanes = 0
      <4>1. ASSUME NEW u \in Tiles PROVE <<c, r>> \notin VectorPixels(u, u.x1 - 1)
        BY <3>6, LastColumnMissed DEF VectorPixels
      <4> QED
        BY <3>2, <3>6, <4>1
    <3> QED
      BY <3>2, <3>4, <3>5, <3>6
  <2>2. Pixels = Columns \X Rows /\ {width - 1} \X (0 .. height - 1) \subseteq Pixels
    BY Arguments DEF Pixels, Columns, Rows
  <2> HIDE DEF written
  <2>3. \A c \in Columns, r \in Rows : c < width - 1 <=> <<c, r>> \notin {width - 1} \X (0 .. height - 1)
    BY Arguments DEF Columns, Rows
  <2> QED
    BY <2>1, <2>2, <2>3
<1> QED
  BY <1>1, <1>2, <1>3, TilesTyped, PTL DEF Spec
=============================================================================
