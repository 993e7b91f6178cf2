----------------------- MODULE UserFSRefinementProofs -----------------------
(***************************************************************************)
(* Proof that the file system of 3/userfs.c implements FlatFS: the bytes   *)
(* of a file are those of its blocks one after the other, the directory    *)
(* the files find_file finds, the handles the slots in use.                *)
(***************************************************************************)
EXTENDS UserFSRefinement, UserFSProofs

-----------------------------------------------------------------------------
(* The bytes of a file, one after the other, as FlatFS has them.           *)

Chunk(b) == [o \in 1..b.occupied |-> b.memory[o - 1]]

\* The bytes in use of one block.
LEMMA ChunkIs ==
    ASSUME NEW b \in Block
    PROVE  /\ Chunk(b) \in Seq(Bytes) /\ Len(Chunk(b)) = b.occupied /\ b.occupied \in Nat
           /\ \A o \in 1..b.occupied : Chunk(b)[o] = b.memory[o - 1]
  <1> DEFINE n == b.occupied
  <1>1. n \in Nat /\ n <= BLOCK_SIZE /\ b.memory \in [0..(BLOCK_SIZE - 1) -> Bytes]
    BY BlockIs
  <1>2. \A o \in 1..n : b.memory[o - 1] \in Bytes
    <2> TAKE o \in 1..n
    <2>1. o - 1 \in 0..(BLOCK_SIZE - 1)
      BY <1>1, BlockAssumption
    <2> QED BY <1>1, <2>1
  <1>3. Chunk(b) = [o \in 1..n |-> b.memory[o - 1]]
    BY DEF Chunk
  <1> HIDE DEF n
  <1>4. Chunk(b) \in Seq(Bytes)
    BY <1>1, <1>2, <1>3, IsASeq
  <1>5. Len(Chunk(b)) = n
    BY <1>1, <1>3
  <1> QED BY <1>1, <1>3, <1>4, <1>5 DEF n

\* Block after block.
LEMMA FlatIs ==
    ASSUME NEW bl \in Seq(Block)
    PROVE  \E a \in [0..Len(bl) -> Seq(Bytes)] :
              /\ a[0] = <<>> /\ a[Len(bl)] = Flat(bl)
              /\ \A k \in 1..Len(bl) : a[k] = a[k - 1] \o Chunk(bl[k])
  <1> DEFINE n == Len(bl)  V == Seq(Bytes)
             step == [x \in (1..n) \X V |-> x[2] \o Chunk(bl[x[1]])]
             F(g) == [t \in SUBSET (DOMAIN bl) |->
                         IF t = {} THEN <<>> ELSE g[t \ {Max(t)}] \o Chunk(bl[Max(t)])]
             G == CHOOSE g : g = F(g)
             a == [k \in 0..n |-> G[1..k]]
  <1>1. n \in Nat /\ DOMAIN bl = 1..n /\ \A k \in 1..n : bl[k] \in Block
    BY LenProperties, ElementOfSeq
  <1>2. Flat(bl) = G[1..n]
    <2>1. Flat(bl) = G[DOMAIN bl]
      BY DEF Flat, FoldLeft, MapThenFoldSet, Chunk
    <2> QED BY <1>1, <2>1
  <1>3. /\ step \in [(1..n) \X V -> V] /\ <<>> \in V
        /\ \A k \in 1..n, v \in V : step[<<k, v>>] = v \o Chunk(bl[k])
        /\ \A k \in 1..n, v \in V : v \o Chunk(bl[k]) \in V
    <2>1. \A k \in 1..n : Chunk(bl[k]) \in V
      BY <1>1, ChunkIs
    <2>2. \A k \in 1..n, v \in V : v \o Chunk(bl[k]) \in V
      BY <2>1, ConcatProperties
    <2>3. <<>> \in V
      BY EmptySeq
    <2> HIDE DEF V, n
    <2> QED BY <2>2, <2>3
  <1> HIDE DEF step, G, V, n
  <1>4. PICK g \in [SUBSET (1..n) -> V] : Folds(g, n, <<>>, step)
    BY <1>1, <1>3, FoldExists
  <1>5. g = F(g)
    <2>1. ASSUME NEW t \in SUBSET (1..n), t # {}
          PROVE  g[t] = g[t \ {Max(t)}] \o Chunk(bl[Max(t)])
      <3>1. Max(t) \in 1..n /\ t \ {Max(t)} \in SUBSET (1..n)
        BY <1>1, <2>1, MaxIn
      <3>2. g[t \ {Max(t)}] \in V
        BY <3>1
      <3> QED BY <1>3, <1>4, <2>1, <3>1, <3>2 DEF Folds
    <2>2. \A t \in SUBSET (1..n) : t = {} => g[t] = <<>>
      BY <1>4 DEF Folds
    <2>3. \A t \in SUBSET (1..n) : g[t] = F(g)[t]
      BY <1>1, <2>1, <2>2
    <2> QED BY <1>1, <2>3
  <1>6. G = F(G)
    <2> HIDE DEF F
    <2> QED BY <1>5 DEF G
  <1>7. ASSUME NEW t \in SUBSET (1..n)
        PROVE  G[t] = IF t = {} THEN <<>> ELSE G[t \ {Max(t)}] \o Chunk(bl[Max(t)])
    BY <1>1, <1>6
  <1> HIDE DEF F
  <1>8. a[0] = <<>> /\ a[n] = Flat(bl)
    <2>1. 1..0 = {} /\ 0 \in 0..n /\ n \in 0..n
      BY <1>1
    <2> QED BY <1>2, <1>7, <2>1
  <1>9. \A k \in 1..n : a[k] = a[k - 1] \o Chunk(bl[k])
    <2> TAKE k \in 1..n
    <2>1. k \in 0..n /\ k - 1 \in 0..n
      BY <1>1
    <2>2. G[1..k] = G[1..(k - 1)] \o Chunk(bl[k])
      <3>1. /\ 1..k \in SUBSET (1..n) /\ 1..k # {} /\ Max(1..k) = k
            /\ (1..k) \ {k} = 1..(k - 1)
        BY <1>1, Fewer
      <3> QED BY <1>7, <3>1
    <2> QED BY <2>1, <2>2
  <1> HIDE DEF a
  <1>10. \A k \in 0..n : a[k] \in V
    <2> DEFINE S == {k \in 0..n : a[k] \in V}
    <2>1. 0 \in S
      BY <1>1, <1>3, <1>8
    <2>2. \A k \in 1..n : k - 1 \in S => k \in S
      <3> SUFFICES ASSUME NEW k \in 1..n, k - 1 \in S PROVE k \in S
        OBVIOUS
      <3>1. a[k - 1] \o Chunk(bl[k]) \in V /\ k \in 0..n
        BY <1>1, <1>3
      <3> QED BY <1>9, <3>1
    <2>3. \A k \in 0..n : k \in S
      <3> HIDE DEF S
      <3> QED BY <1>1, <2>1, <2>2, Induct
    <2> QED BY <2>3
  <1>11. a \in [0..n -> V]
    BY <1>10 DEF a
  <1> QED BY <1>8, <1>9, <1>11 DEF V, n

\* A position inside a file of E bytes is in one of its blocks.
IsIn(q, i) ==
    /\ First(i) <= q /\ q < First(i) + BLOCK_SIZE
    /\ q - First(i) \in 0..(BLOCK_SIZE - 1) /\ First(i) \in Nat
    /\ \A b : ByteAt(b, q) = b[i].memory[q - First(i)]

\* Every byte of a file is in one of its blocks.
LEMMA BlockOf ==
    ASSUME NEW bl \in Seq(Block), NEW E, Shape(bl, E), NEW q \in Nat, q < E
    PROVE  \E i \in 1..Len(bl) : IsIn(q, i)
  <1> DEFINE d == q \div BLOCK_SIZE  i == d + 1  L == Len(bl)
  <1>1. /\ d \in Nat /\ q % BLOCK_SIZE \in 0..(BLOCK_SIZE - 1)
        /\ d * BLOCK_SIZE + (q % BLOCK_SIZE) = q
    BY Division, BlockAssumption
  <1>2. BLOCK_SIZE \in Nat \ {0} /\ L \in Nat /\ E \in Nat /\ E <= First(L + 1)
    BY LenProperties, BlockAssumption DEF Shape
  <1> HIDE DEF d, L
  <1>3. First(i) = d * BLOCK_SIZE
    BY <1>1 DEF First
  <1>4. i \in Nat \ {0} /\ i \in Int /\ L + 1 \in Int /\ i >= 1
    BY <1>1, <1>2
  <1>5. First(i) \in Nat /\ First(i + 1) = First(i) + BLOCK_SIZE
    BY <1>4, FirstIs
  <1>6. First(i) <= q /\ q < First(i) + BLOCK_SIZE /\ q - First(i) \in 0..(BLOCK_SIZE - 1)
    <2>1. \E m \in 0..(BLOCK_SIZE - 1) : First(i) + m = q
      BY <1>1, <1>3
    <2> HIDE DEF i
    <2> QED BY <1>2, <1>5, <2>1
  <1>7. i <= L
    <2> SUFFICES ASSUME L + 1 <= i PROVE FALSE
      BY <1>2, <1>4
    <2>1. First(L + 1) <= First(i) /\ First(L + 1) \in Int
      <3> HIDE DEF i
      <3> QED BY <1>4, FirstGrows
    <2> HIDE DEF i
    <2> QED BY <1>2, <1>5, <1>6, <2>1
  <1>8. \A b : ByteAt(b, q) = b[i].memory[q - First(i)]
    <2> HIDE DEF i
    <2> QED BY <1>4, <1>5, <1>6, InBlock
  <1>9. i \in 1..L
    BY <1>2, <1>4, <1>7
  <1> HIDE DEF i
  <1> QED BY <1>5, <1>6, <1>8, <1>9 DEF L, IsIn

\* The bytes of a file of E bytes.
LEMMA FlatBytes ==
    ASSUME NEW bl \in Seq(Block), NEW E, Shape(bl, E)
    PROVE  /\ Flat(bl) \in Seq(Bytes) /\ Len(Flat(bl)) = E
           /\ \A x \in 1..E : Flat(bl)[x] = ByteAt(bl, x - 1)
  <1> DEFINE n == Len(bl)
  <1>1. /\ n \in Nat /\ E \in Nat /\ E <= First(n + 1) /\ BLOCK_SIZE \in Nat \ {0}
        /\ \A k \in 1..n : bl[k] \in Block
    BY LenProperties, ElementOfSeq, BlockAssumption DEF Shape
  <1>2. PICK a \in [0..n -> Seq(Bytes)] :
              /\ a[0] = <<>> /\ a[n] = Flat(bl)
              /\ \A k \in 1..n : a[k] = a[k - 1] \o Chunk(bl[k])
    BY FlatIs
  <1> DEFINE Good(s, m) == Len(s) = m /\ \A x \in 1..m : s[x] = ByteAt(bl, x - 1)
             S == {k \in 0..n : Good(a[k], Less(E, First(k + 1)))}
  <1>3. 0 \in S
    <2>1. Less(E, First(0 + 1)) = 0
      BY <1>1, FirstIs DEF Less
    <2>2. Good(<<>>, 0)
      OBVIOUS
    <2> HIDE DEF Good
    <2> QED BY <1>1, <1>2, <2>1, <2>2
  <1>4. \A k \in 1..n : k - 1 \in S => k \in S
    <2> SUFFICES ASSUME NEW k \in 1..n, k - 1 \in S PROVE k \in S
      OBVIOUS
    <2> DEFINE c == First(k)  b == bl[k]  t == a[k - 1]  u == Chunk(b)  m == Less(E, First(k + 1))
    <2>1. k \in Nat \ {0} /\ k \in Int /\ k >= 1 /\ (k - 1) + 1 = k /\ k - 1 \in 0..n /\ k \in 0..n
      BY <1>1
    <2>2. c \in Nat /\ First(k + 1) = c + BLOCK_SIZE
      BY <2>1, FirstIs
    <2>3. c < E /\ b.occupied = Less(E - c, BLOCK_SIZE) /\ b \in Block
      BY <1>1 DEF Shape, Share
    <2>4. Len(t) = c /\ \A x \in 1..c : t[x] = ByteAt(bl, x - 1)
      <3>1. Good(t, Less(E, c))
        BY <2>1
      <3>2. Less(E, c) = c
        BY <1>1, <2>2, <2>3 DEF Less
      <3> QED BY <3>1, <3>2
    <2>5. /\ u \in Seq(Bytes) /\ Len(u) = b.occupied /\ b.occupied \in Nat
          /\ \A o \in 1..b.occupied : u[o] = b.memory[o - 1]
      BY <2>3, ChunkIs
    <2>6. t \in Seq(Bytes) /\ a[k] = t \o u
      BY <1>2, <2>1
    <2>7. c + b.occupied = m /\ m \in Nat /\ m <= c + BLOCK_SIZE
      <3> HIDE DEF c, b
      <3> QED BY <1>1, <2>2, <2>3 DEF Less
    <2> HIDE DEF t, u, c, b, m
    <2>8. Len(a[k]) = m /\ \A x \in 1..m : a[k][x] = IF x <= c THEN t[x] ELSE u[x - c]
      <3>1. t \in Seq(Bytes) /\ u \in Seq(Bytes) /\ Len(t) = c /\ Len(u) = b.occupied
        BY <2>4, <2>5, <2>6
      <3>2. /\ Len(t \o u) = Len(t) + Len(u)
            /\ \A x \in 1..(Len(t) + Len(u)) :
                  (t \o u)[x] = IF x <= Len(t) THEN t[x] ELSE u[x - Len(t)]
        BY <3>1, ConcatProperties
      <3> QED BY <2>6, <2>7, <3>1, <3>2
    <2>9. ASSUME NEW x \in 1..m PROVE a[k][x] = ByteAt(bl, x - 1)
      <3>1. CASE x <= c
        <4>1. x \in 1..c
          BY <2>2, <2>7, <3>1
        <4> QED BY <2>4, <2>8, <3>1, <4>1
      <3>2. CASE ~(x <= c)
        <4>1. x - c \in 1..b.occupied /\ x - 1 \in Nat /\ c <= x - 1 /\ x - 1 < c + BLOCK_SIZE
          BY <1>1, <2>2, <2>5, <2>7, <3>2
        <4>2. a[k][x] = b.memory[(x - c) - 1] /\ (x - c) - 1 = (x - 1) - c
          BY <2>2, <2>5, <2>7, <2>8, <3>2, <4>1
        <4>3. ByteAt(bl, x - 1) = bl[k].memory[(x - 1) - First(k)]
          BY <2>1, <2>2, <4>1, InBlock DEF c
        <4> QED BY <4>2, <4>3 DEF b, c
      <3> QED BY <3>1, <3>2
    <2> QED BY <2>1, <2>8, <2>9 DEF m
  <1>5. \A k \in 0..n : k \in S
    <2> HIDE DEF S
    <2> QED BY <1>1, <1>3, <1>4, Induct
  <1>6. n \in 0..n /\ First(n + 1) \in Int
    BY <1>1, FirstIs
  <1>7. Good(Flat(bl), Less(E, First(n + 1))) /\ Flat(bl) \in Seq(Bytes)
    <2> HIDE DEF Good
    <2> QED BY <1>2, <1>5, <1>6
  <1>8. Less(E, First(n + 1)) = E
    BY <1>1, <1>6 DEF Less
  <1> QED BY <1>7, <1>8

\* Functions on the first numbers that agree are equal.
LEMMA SameBytes ==
    ASSUME NEW s \in Seq(Bytes), NEW n \in Nat, Len(s) = n, NEW t, DOMAIN t = 1..n,
           t = [x \in 1..n |-> t[x]], \A x \in 1..n : s[x] = t[x]
    PROVE  s = t
  <1>1. DOMAIN s = 1..n /\ s \in [1..n -> Bytes]
    BY LenProperties
  <1> QED BY <1>1

\* What ufs_write leaves in a block.
MemoryAt(bl, p, buf, i, q) ==
    IF q \in p..((p + Len(buf)) - 1) THEN buf[q - p + 1] ELSE BlockAt(bl, i).memory[q - First(i)]
OccupiedAt(bl, p, buf, i) ==
    IF First(i) < p + Len(buf) /\ p < First(i) + BLOCK_SIZE /\ buf # <<>>
    THEN More(BlockAt(bl, i).occupied, Less((p + Len(buf)) - First(i), BLOCK_SIZE))
    ELSE BlockAt(bl, i).occupied

\* What ufs_write leaves at one place of one block.
LEMMA WrittenMemory ==
    ASSUME NEW bl \in Seq(Block), NEW p \in Nat, NEW buf \in Seq(Bytes),
           NEW w, w = Written(bl, p, buf), NEW i \in 1..Len(w), NEW o \in 0..(BLOCK_SIZE - 1)
    PROVE  /\ w[i].memory[o] = MemoryAt(bl, p, buf, i, First(i) + o)
           /\ w[i].occupied = OccupiedAt(bl, p, buf, i)
  <1> DEFINE n == IF buf = <<>> THEN Len(bl) ELSE Max({Len(bl), CeilDiv(p + Len(buf), BLOCK_SIZE)})
  <1>1. DOMAIN w = 1..n
    BY DEF Written
  <1>2. w \in Seq(Block)
    BY WrittenBlocks
  <1>3. i \in 1..n
    <2>1. DOMAIN w = 1..Len(w)
      BY <1>2, LenProperties
    <2> QED BY <1>1, <2>1
  <1>4. Len(buf) \in Nat /\ Len(w) \in Nat /\ BLOCK_SIZE \in Nat \ {0}
    BY <1>2, LenProperties, BlockAssumption
  <1>5. /\ First(i) \in Nat /\ BlockAt(bl, i).occupied \in Nat
        /\ Filled(BlockAt(bl, i).occupied, Min({(p + Len(buf)) - First(i), BLOCK_SIZE}))
              = More(BlockAt(bl, i).occupied, Less((p + Len(buf)) - First(i), BLOCK_SIZE))
    <2>1. i \in Nat \ {0} /\ i \in Int /\ i >= 1
      BY <1>4
    <2>2. First(i) \in Nat
      BY ONLY <2>1, FirstIs
    <2>3. BlockAt(bl, i) \in Block
      BY <2>1, BlockAtIs
    <2>4. BlockAt(bl, i).occupied \in Nat
      BY <2>3, BlockIs
    <2> DEFINE x == BlockAt(bl, i).occupied  z == (p + Len(buf)) - First(i)  y == Less(z, BLOCK_SIZE)
    <2>5. z \in Int /\ x \in Int
      BY <1>4, <2>2, <2>4
    <2>6. Min({z, BLOCK_SIZE}) = y
      <3> HIDE DEF z
      <3> QED BY <1>4, <2>5, MinMaxIs
    <2>7. y \in Int
      BY <1>4, <2>5 DEF Less
    <2>8. Max({x, y}) = More(x, y)
      <3> HIDE DEF x, y
      <3> QED BY <2>5, <2>7, MinMaxIs
    <2> QED BY <2>2, <2>4, <2>6, <2>8 DEF Filled
  <1>6. w[i].occupied = OccupiedAt(bl, p, buf, i)
    BY <1>3, <1>4, <1>5 DEF Written, First, OccupiedAt
  <1>7. w[i].memory[o] = MemoryAt(bl, p, buf, i, First(i) + o)
    <2> DEFINE Mem(j) == [x \in 0..(BLOCK_SIZE - 1) |->
                             IF First(j) + x \in p..((p + Len(buf)) - 1) THEN buf[First(j) + x - p + 1]
                             ELSE BlockAt(bl, j).memory[x]]
               Occupied(j) == IF First(j) < p + Len(buf) /\ p < First(j) + BLOCK_SIZE /\ buf # <<>>
                              THEN Filled(BlockAt(bl, j).occupied,
                                          Min({(p + Len(buf)) - First(j), BLOCK_SIZE}))
                              ELSE BlockAt(bl, j).occupied
               q == First(i) + o
    <2>1. w = [j \in 1..n |-> [memory |-> Mem(j), occupied |-> Occupied(j)]]
      BY DEF Written, First
    <2> HIDE DEF Mem, Occupied, n
    <2>2. w[i].memory = Mem(i)
      BY <1>3, <2>1
    <2> HIDE DEF q
    <2>3. Mem(i)[o] = IF First(i) + o \in p..((p + Len(buf)) - 1) THEN buf[First(i) + o - p + 1]
                      ELSE BlockAt(bl, i).memory[o]
      BY DEF Mem
    <2>4. /\ q - First(i) = o /\ q \in Nat /\ First(i) + o = q /\ First(i) + o - p + 1 = q - p + 1
      BY SMTT(40), <1>4, <1>5 DEF q
    <2>5. w[i].memory[o] = IF q \in p..((p + Len(buf)) - 1) THEN buf[q - p + 1]
                           ELSE BlockAt(bl, i).memory[o]
      BY <2>2, <2>3, <2>4
    <2>6. w[i].memory[o] = MemoryAt(bl, p, buf, i, q)
      BY <2>4, <2>5 DEF MemoryAt
    <2> QED BY <2>6 DEF q
  <1> QED BY <1>6, <1>7

\* ufs_write at position p, as FlatFS has it.
LEMMA FlatWritten ==
    ASSUME NEW bl \in Seq(Block), NEW E, Shape(bl, E), NEW p \in Nat, p <= E, NEW buf \in Seq(Bytes)
    PROVE  Flat(Written(bl, p, buf)) = Actual!Overwrite(Flat(bl), p, buf)
  <1> DEFINE w == Written(bl, p, buf)  m == Len(buf)  end == p + m  F == More(E, end)
             c == Flat(bl)  over == Actual!Overwrite(c, p, buf)
  <1>1. m \in Nat /\ E \in Nat /\ end \in Nat /\ F \in Nat /\ BLOCK_SIZE \in Nat \ {0}
    BY LenProperties, BlockAssumption DEF Shape, More
  <1>2. w \in Seq(Block) /\ Shape(w, F)
    BY WrittenBlocks, WrittenIs
  <1>3. Len(c) = E /\ \A x \in 1..E : c[x] = ByteAt(bl, x - 1)
    BY FlatBytes
  <1>4. /\ Flat(w) \in Seq(Bytes) /\ Len(Flat(w)) = F
        /\ \A x \in 1..F : Flat(w)[x] = ByteAt(w, x - 1)
    <2> HIDE DEF w, F
    <2> QED BY <1>2, FlatBytes
  <1>5. over = [x \in 1..F |-> IF x \in (p + 1)..(p + m) THEN buf[x - p] ELSE c[x]]
    <2>1. (IF p + m > Len(c) THEN p + m ELSE Len(c)) = F
      BY <1>1, <1>3 DEF More
    <2> HIDE DEF c, F
    <2> QED BY <2>1 DEF Actual!Overwrite
  <1> HIDE DEF c, over, F, m
  <1>6. ASSUME NEW x \in 1..F
        PROVE  Flat(w)[x] = over[x]
    <2> DEFINE q == x - 1
    <2>1. q \in Nat /\ q < F
      BY <1>1
    <2>20. PICK i \in 1..Len(w) : IsIn(q, i)
      <3> HIDE DEF w, q
      <3> QED BY <1>2, <2>1, BlockOf
    <2>2. /\ First(i) <= q /\ q < First(i) + BLOCK_SIZE
          /\ q - First(i) \in 0..(BLOCK_SIZE - 1) /\ First(i) \in Nat
          /\ \A b : ByteAt(b, q) = b[i].memory[q - First(i)]
      BY <2>20 DEF IsIn
    <2> DEFINE o == q - First(i)
    <2>3. w[i].memory[o] = IF q \in p..(end - 1) THEN buf[q - p + 1] ELSE BlockAt(bl, i).memory[o]
      <3>1. o \in 0..(BLOCK_SIZE - 1)
        BY <2>2
      <3>2. First(i) + o = q
        BY <2>1, <2>2
      <3>3. w[i].memory[o] = MemoryAt(bl, p, buf, i, q)
        <4> HIDE DEF w, o, q
        <4>1. w = Written(bl, p, buf)
          BY DEF w
        <4>2. w[i].memory[o] = MemoryAt(bl, p, buf, i, First(i) + o)
          BY <3>1, <4>1, WrittenMemory
        <4> QED BY <3>2, <4>2
      <3> HIDE DEF w, q
      <3> QED BY <3>3 DEF m, MemoryAt
    <2>5. CASE x \in (p + 1)..(p + m)
      <3>1. q \in p..(end - 1) /\ q - p + 1 = x - p
        BY <1>1, <2>1, <2>5
      <3>2. w[i].memory[o] = buf[x - p]
        <4> HIDE DEF w, o, q, m
        <4> QED BY <2>3, <3>1
      <3>3. over[x] = buf[x - p]
        BY <1>5, <2>5
      <3> QED BY <1>4, <2>2, <3>2, <3>3
    <2>6. CASE x \notin (p + 1)..(p + m)
      <3>1. q \notin p..(end - 1) /\ q < E /\ x \in 1..E
        BY <1>1, <2>1, <2>6 DEF F, More
      <3>2. w[i].memory[o] = BlockAt(bl, i).memory[o]
        BY <2>3, <3>1
      <3>3. BlockAt(bl, i) = bl[i]
        <4>1. PICK j \in 1..Len(bl) :
                 First(j) <= q /\ q < First(j) + BLOCK_SIZE /\ First(j) \in Nat
          <5> HIDE DEF q
          <5> QED BY <2>1, <3>1, BlockOf DEF IsIn
        <4>2. j \in Nat /\ Len(bl) \in Nat /\ Len(w) \in Nat /\ i \in Nat \ {0} /\ j \in Nat \ {0}
          BY <1>2, LenProperties
        <4>3. i = j
          <5>1. First(j + 1) = First(j) + BLOCK_SIZE /\ First(i + 1) = First(i) + BLOCK_SIZE
            BY <4>2, FirstIs
          <5>2. q \div BLOCK_SIZE + 1 = i /\ q \div BLOCK_SIZE + 1 = j
            <6> HIDE DEF q
            <6> QED BY <2>1, <2>2, <4>1, <4>2, <5>1, InBlock
          <5> QED BY <5>2
        <4> QED BY <4>3 DEF BlockAt
      <3>4. ByteAt(bl, q) = bl[i].memory[o]
        BY <2>2
      <3>5. over[x] = c[x]
        BY <1>5, <2>6
      <3> QED BY <1>3, <1>4, <2>2, <3>1, <3>2, <3>3, <3>4, <3>5
    <2> QED BY <2>5, <2>6
  <1>7. DOMAIN over = 1..F /\ over = [x \in 1..F |-> over[x]]
    BY <1>5
  <1> HIDE DEF w
  <1>8. Flat(w) = over
    BY <1>1, <1>4, <1>6, <1>7, SameBytes
  <1> QED BY <1>8 DEF w, over, c

\* ufs_read from position p on, as FlatFS has it.
LEMMA FlatRead ==
    ASSUME NEW bl \in Seq(Block), NEW E, Shape(bl, E), NEW p \in Nat, p <= E, NEW size \in Nat
    PROVE  ReadFrom(bl, p, size).out =
              SubSeq(Flat(bl), p + 1, IF p + size > Len(Flat(bl)) THEN Len(Flat(bl)) ELSE p + size)
  <1> DEFINE r == ReadFrom(bl, p, size)  c == Flat(bl)  e == Less(E, p + size)
  <1>1. /\ r \in Progress(size) /\ r.pos = e /\ Len(r.out) = r.pos - p
        /\ \A j \in 1..Len(r.out) : r.out[j] = ByteAt(bl, p + j - 1)
    BY ReadShape
  <1>2. c \in Seq(Bytes) /\ Len(c) = E /\ \A x \in 1..E : c[x] = ByteAt(bl, x - 1)
    BY FlatBytes
  <1>3. E \in Nat /\ e \in Nat /\ p <= e /\ e <= E /\ e \in Int /\ p + 1 \in Int
    BY DEF Shape, Less
  <1>4. (IF p + size > Len(c) THEN Len(c) ELSE p + size) = e
    BY <1>2, <1>3 DEF Less
  <1> HIDE DEF r, c, e
  <1>5. \A x \in (p + 1)..e : c[x] \in Bytes
    <2> TAKE x \in (p + 1)..e
    <2>1. x \in 1..Len(c)
      BY <1>2, <1>3
    <2> QED BY <1>2, <2>1, ElementOfSeq
  <1> DEFINE s == SubSeq(c, p + 1, e)
  <1>6. /\ s \in Seq(Bytes) /\ Len(s) = (IF p + 1 <= e THEN e - (p + 1) + 1 ELSE 0)
        /\ \A j \in 1..(e - (p + 1) + 1) : s[j] = c[(p + 1) + j - 1]
    <2>1. s \in Seq(Bytes)
      BY <1>3, <1>5, SubSeqProperties
    <2>2. /\ Len(s) = (IF p + 1 <= e THEN e - (p + 1) + 1 ELSE 0)
          /\ \A j \in 1..(e - (p + 1) + 1) : s[j] = c[(p + 1) + j - 1]
      BY <1>3, <1>5, SubSeqProperties
    <2> QED BY <2>1, <2>2
  <1> HIDE DEF s
  <1>7. r.out \in Seq(Bytes) /\ Len(r.out) = e - p /\ Len(s) = e - p
    BY <1>1, <1>3, <1>6 DEF Progress
  <1>8. ASSUME NEW j \in 1..Len(s) PROVE r.out[j] = s[j]
    <2>1. /\ j \in 1..Len(r.out) /\ j \in 1..(e - (p + 1) + 1)
          /\ (p + 1) + j - 1 = p + j /\ p + j \in 1..E /\ p + j - 1 = (p + j) - 1
      BY <1>3, <1>7
    <2>2. c[p + j] = ByteAt(bl, (p + j) - 1)
      BY <1>2, <2>1
    <2> QED BY <1>1, <1>6, <2>1, <2>2
  <1>9. r.out = s
    BY <1>6, <1>7, <1>8, SeqEqual
  <1> QED BY <1>4, <1>9 DEF r, s, c

\* Behind its bytes a block holds zeros.
Clean(bl) == \A i \in 1..Len(bl) : \A o \in 0..(BLOCK_SIZE - 1) :
                o >= bl[i].occupied => bl[i].memory[o] = 0

\* Behind the bytes in use a block, also one that is not there yet, has zeros.
LEMMA CleanAt ==
    ASSUME NEW bl \in Seq(Block), Clean(bl), NEW i \in Nat \ {0}, NEW o \in 0..(BLOCK_SIZE - 1),
           o >= BlockAt(bl, i).occupied
    PROVE  BlockAt(bl, i).memory[o] = 0
  <1>1. CASE i <= Len(bl)
    BY <1>1, BlockAtIs DEF Clean
  <1>2. CASE ~(i <= Len(bl))
    BY <1>2 DEF BlockAt, new_block
  <1> QED BY <1>1, <1>2

\* ufs_write leaves zeros behind the bytes in use.
LEMMA CleanWritten ==
    ASSUME NEW bl \in Seq(Block), Clean(bl), NEW p \in Nat, NEW buf \in Seq(Bytes)
    PROVE  Clean(Written(bl, p, buf))
  <1> DEFINE w == Written(bl, p, buf)  m == Len(buf)  end == p + m
  <1>1. m \in Nat /\ end \in Nat /\ BLOCK_SIZE \in Nat \ {0} /\ w \in Seq(Block)
        /\ (buf = <<>> => m = 0)
    <2>1. w \in Seq(Block)
      BY WrittenBlocks
    <2>2. m \in Nat
      BY LenProperties
    <2>3. buf = <<>> => m = 0
      OBVIOUS
    <2> HIDE DEF w, m
    <2> QED BY <2>1, <2>2, <2>3, BlockAssumption
  <1> SUFFICES ASSUME NEW i \in 1..Len(w), NEW o \in 0..(BLOCK_SIZE - 1), o >= w[i].occupied
               PROVE  w[i].memory[o] = 0
    BY DEF Clean
  <1> DEFINE f == First(i)  x == BlockAt(bl, i).occupied  y == Less(end - f, BLOCK_SIZE)
  <1>2. i \in Nat \ {0} /\ i \in Int /\ i >= 1
    BY <1>1, LenProperties
  <1>3. f \in Nat
    BY <1>2, FirstIs
  <1>4. BlockAt(bl, i) \in Block
    BY <1>2, BlockAtIs
  <1>5. x \in Nat
    BY <1>4, BlockIs
  <1>6. /\ w[i].memory[o] = MemoryAt(bl, p, buf, i, f + o)
        /\ w[i].occupied = OccupiedAt(bl, p, buf, i)
    <2> HIDE DEF w
    <2>1. w = Written(bl, p, buf)
      BY DEF w
    <2> QED BY <2>1, WrittenMemory
  <1>7. w[i].memory[o] = IF f + o \in p..(end - 1) THEN buf[(f + o) - p + 1]
                        ELSE BlockAt(bl, i).memory[o]
    <2>1. f + o - f = o
      BY <1>1, <1>3
    <2> DEFINE q == f + o
    <2>2. q \in Nat /\ q - f = o
      BY <1>1, <1>3
    <2>3. w[i].memory[o] = MemoryAt(bl, p, buf, i, q)
      BY <1>6
    <2> HIDE DEF w, q
    <2>4. w[i].memory[o] = IF q \in p..(end - 1) THEN buf[q - p + 1]
                           ELSE BlockAt(bl, i).memory[q - f]
      BY <2>3 DEF MemoryAt
    <2>5. w[i].memory[o] = IF q \in p..(end - 1) THEN buf[q - p + 1] ELSE BlockAt(bl, i).memory[o]
      BY <2>2, <2>4
    <2> QED BY <2>5 DEF q
  <1>17. w[i].occupied = IF f < end /\ p < f + BLOCK_SIZE /\ buf # <<>> THEN More(x, y) ELSE x
    <2> HIDE DEF w
    <2> QED BY <1>1, <1>3, <1>5, <1>6 DEF OccupiedAt
  <1> HIDE DEF w, f, x, m
  <1>8. f + o \notin p..(end - 1)
    <2> SUFFICES ASSUME f + o \in p..(end - 1) PROVE FALSE
      OBVIOUS
    <2>1. /\ f < end /\ p < f + BLOCK_SIZE /\ m > 0 /\ o < end - f /\ o < BLOCK_SIZE
          /\ f + o >= p /\ f + o <= end - 1
      BY <1>1, <1>3
    <2>2. buf # <<>>
      BY <2>1 DEF m
    <2>3. o >= More(x, y)
      BY <1>17, <2>1, <2>2
    <2> QED BY <1>1, <1>3, <1>5, <2>1, <2>3 DEF More, Less
  <1>9. w[i].occupied >= x
    <2>1. y \in Int
      BY <1>1, <1>3 DEF Less
    <2> HIDE DEF y
    <2> QED BY <1>5, <1>17, <2>1 DEF More
  <1>10. w[i].occupied \in Int
    <2>1. w[i] \in Block
      BY <1>1, ElementOfSeq DEF w
    <2> QED BY <2>1, BlockIs
  <1>11. o >= x
    BY <1>5, <1>9, <1>10
  <1>12. BlockAt(bl, i).memory[o] = 0
    BY <1>2, <1>11, CleanAt DEF x
  <1> QED BY <1>7, <1>8, <1>12

\* So does ufs_resize, as long as it makes the file bigger.
LEMMA CleanResized ==
    ASSUME NEW bl \in Seq(Block), Clean(bl), NEW E, Shape(bl, E), NEW size \in Nat \ {0}, E <= size
    PROVE  Clean(Resized(bl, size))
  <1> DEFINE w == Resized(bl, size)
  <1>1. /\ w \in Seq(Block) /\ Shape(w, size) /\ Len(w) \in Nat /\ E \in Nat
        /\ \A i \in 1..Len(w) : w[i].memory = BlockAt(bl, i).memory
    BY ResizedIs DEF Shape
  <1> HIDE DEF w
  <1> SUFFICES ASSUME NEW i \in 1..Len(w), NEW o \in 0..(BLOCK_SIZE - 1), o >= w[i].occupied
               PROVE  w[i].memory[o] = 0
    BY DEF Clean, w
  <1>2. i \in Nat \ {0} /\ i \in Int /\ i >= 1 /\ Len(bl) \in Nat
    BY <1>1, LenProperties
  <1>3. First(i) \in Nat
    BY <1>2, FirstIs
  <1>4. w[i].occupied = Less(size - First(i), BLOCK_SIZE) /\ First(i) < size
    BY <1>1 DEF Shape, Share
  <1>5. BlockAt(bl, i).occupied <= w[i].occupied /\ BlockAt(bl, i).occupied \in Nat
    <2>1. CASE i <= Len(bl)
      <3>1. First(i) < E /\ BlockAt(bl, i).occupied = Less(E - First(i), BLOCK_SIZE)
        BY <1>2, <2>1, BlockAtIs DEF Shape, Share
      <3> QED BY <1>1, <1>3, <1>4, <3>1, BlockAssumption DEF Less
    <2>2. CASE ~(i <= Len(bl))
      <3>1. BlockAt(bl, i).occupied = 0
        BY <1>2, <2>2, BlockAtIs
      <3> QED BY <1>3, <1>4, <3>1, BlockAssumption DEF Less
    <2> QED BY <2>1, <2>2
  <1>6. o >= BlockAt(bl, i).occupied
    <2>1. w[i].occupied \in Int
      BY <1>3, <1>4, BlockAssumption DEF Less
    <2> QED BY <1>5, <2>1
  <1>7. BlockAt(bl, i).memory[o] = 0
    BY <1>2, <1>6, CleanAt
  <1> QED BY <1>1, <1>7

\* ufs_resize to a bigger size, as FlatFS has it.
LEMMA FlatResized ==
    ASSUME NEW bl \in Seq(Block), Clean(bl), NEW E, Shape(bl, E), NEW size \in Nat \ {0}, E <= size
    PROVE  /\ Len(Flat(bl)) = E
           /\ Flat(Resized(bl, size)) = Flat(bl) \o [i \in 1..(size - Len(Flat(bl))) |-> 0]
  <1> DEFINE w == Resized(bl, size)  c == Flat(bl)  z == [i \in 1..(size - E) |-> 0]
  <1>1. /\ w \in Seq(Block) /\ Shape(w, size) /\ Len(w) \in Nat
        /\ \A i \in 1..Len(w) : w[i].memory = BlockAt(bl, i).memory
    BY ResizedIs
  <1>2. c \in Seq(Bytes) /\ Len(c) = E /\ \A x \in 1..E : c[x] = ByteAt(bl, x - 1)
    BY FlatBytes
  <1> HIDE DEF w, c
  <1>3. /\ Flat(w) \in Seq(Bytes) /\ Len(Flat(w)) = size
        /\ \A x \in 1..size : Flat(w)[x] = ByteAt(w, x - 1)
    BY <1>1, FlatBytes
  <1>4. E \in Nat /\ size - E \in Nat /\ 0 \in Bytes
    BY ByteAssumption DEF Shape
  <1>5. z \in Seq(Bytes) /\ Len(z) = size - E
    <2>1. \A i \in 1..(size - E) : 0 \in Bytes
      BY <1>4
    <2>2. z \in Seq(Bytes)
      <3> HIDE DEF z
      <3>1. z = [i \in 1..(size - E) |-> 0]
        BY DEF z
      <3> QED BY <1>4, <3>1, IsASeq
    <2> QED BY <1>4, <2>2
  <1>6. /\ c \o z \in Seq(Bytes) /\ Len(c \o z) = size
        /\ \A x \in 1..size : (c \o z)[x] = IF x <= E THEN c[x] ELSE 0
    <2>1. /\ c \o z \in Seq(Bytes) /\ Len(c \o z) = Len(c) + Len(z)
          /\ \A x \in 1..(Len(c) + Len(z)) :
                (c \o z)[x] = IF x <= Len(c) THEN c[x] ELSE z[x - Len(c)]
      <3> HIDE DEF z
      <3> QED BY <1>2, <1>5, ConcatProperties
    <2>2. \A x \in 1..size : ~(x <= E) => z[x - E] = 0
      BY <1>4
    <2> QED BY <1>2, <1>4, <1>5, <2>1, <2>2
  <1>7. ASSUME NEW x \in 1..size PROVE Flat(w)[x] = (c \o z)[x]
    <2> DEFINE q == x - 1
    <2>1. q \in Nat /\ q < size
      BY <1>4
    <2>20. PICK i \in 1..Len(w) : IsIn(q, i)
      <3> HIDE DEF q
      <3>1. w \in Seq(Block) /\ Shape(w, size)
        BY <1>1
      <3> QED BY <2>1, <3>1, BlockOf
    <2>2. /\ First(i) <= q /\ q < First(i) + BLOCK_SIZE
          /\ q - First(i) \in 0..(BLOCK_SIZE - 1) /\ First(i) \in Nat
          /\ \A b : ByteAt(b, q) = b[i].memory[q - First(i)]
      BY <2>20 DEF IsIn
    <2>3. i \in Nat \ {0} /\ Len(bl) \in Nat
      BY <1>1, LenProperties
    <2> DEFINE o == q - First(i)
    <2>4. Flat(w)[x] = BlockAt(bl, i).memory[o]
      BY <1>1, <1>3, <2>2
    <2>5. CASE x <= E
      <3>1. q < E /\ x \in 1..E
        BY <1>4, <2>5
      <3>2. PICK j \in 1..Len(bl) : First(j) <= q /\ q < First(j) + BLOCK_SIZE /\ First(j) \in Nat
        <4> HIDE DEF q
        <4> QED BY <2>1, <3>1, BlockOf DEF IsIn
      <3>3. j \in Nat \ {0}
        BY <2>3
      <3>4. First(j + 1) = First(j) + BLOCK_SIZE /\ First(i + 1) = First(i) + BLOCK_SIZE
        BY <2>3, <3>3, FirstIs
      <3>5. q \div BLOCK_SIZE + 1 = i /\ q \div BLOCK_SIZE + 1 = j
        <4> HIDE DEF q
        <4> QED BY <2>1, <2>2, <2>3, <3>2, <3>3, <3>4, InBlock
      <3>6. BlockAt(bl, i) = bl[i]
        BY <3>5 DEF BlockAt
      <3>7. c[x] = bl[i].memory[o]
        BY <1>2, <2>2, <3>1
      <3> QED BY <1>6, <2>4, <2>5, <3>6, <3>7
    <2>6. CASE ~(x <= E)
      <3>1. BlockAt(bl, i).occupied <= o
        <4>1. CASE i <= Len(bl)
          <5>1. BlockAt(bl, i).occupied = Less(E - First(i), BLOCK_SIZE)
            BY <2>3, <4>1, BlockAtIs DEF Shape, Share
          <5>2. E <= q /\ BLOCK_SIZE \in Nat
            BY <1>4, <2>6, BlockAssumption
          <5> HIDE DEF q
          <5> QED BY <1>4, <2>1, <2>2, <5>1, <5>2 DEF Less
        <4>2. CASE ~(i <= Len(bl))
          <5>1. BlockAt(bl, i).occupied = 0
            BY <2>3, <4>2, BlockAtIs
          <5> QED BY <2>2, <5>1
        <4> QED BY <4>1, <4>2
      <3>2. BlockAt(bl, i).occupied \in Nat
        <4>1. BlockAt(bl, i) \in Block
          BY <2>3, BlockAtIs
        <4> QED BY <4>1, BlockIs
      <3>3. o \in 0..(BLOCK_SIZE - 1) /\ o >= BlockAt(bl, i).occupied
        BY <2>2, <3>1, <3>2
      <3>4. BlockAt(bl, i).memory[o] = 0
        <4> HIDE DEF o
        <4> QED BY <2>3, <3>3, CleanAt
      <3> QED BY <1>6, <2>4, <2>6, <3>4
    <2> QED BY <2>5, <2>6
  <1> HIDE DEF z
  <1>8. Flat(w) = c \o z
    BY <1>3, <1>6, <1>7, SeqEqual
  <1> QED BY <1>2, <1>8 DEF w, c, z

-----------------------------------------------------------------------------
(* The state of FlatFS, of a file list s and a descriptor table t.         *)

FindIn(s, n) ==
    LET hits == {i \in 1..Len(s.list) : ~s.at[s.list[i]].delete /\ s.at[s.list[i]].name = n}
    IN  IF hits = {} THEN None ELSE s.list[CHOOSE i \in hits : \A j \in hits : i <= j]
DirOf(s)     == [n \in Names |-> FindIn(s, n)]
ContentOf(s) == [f \in FileIds |-> Flat(s.at[f].blocks)]
OpenIn(t)    == {i \in DOMAIN t : ~(t[i].file = None \/ t[i].is_free)}
HandlesOf(t) == [i \in OpenIn(t) |-> Handle(t[i])]

\* The state of FlatFS in terms of the file list and the table, before and after a call.
LEMMA Mapped ==
    /\ Dir = DirOf(fs) /\ Content = ContentOf(fs) /\ Handles = HandlesOf(file_descriptors)
    /\ Dir' = DirOf(fs') /\ Content' = ContentOf(fs') /\ Handles' = HandlesOf(file_descriptors')
  <1>1. Dir = DirOf(fs) /\ Dir' = DirOf(fs')
    BY DEF Dir, DirOf, find_file, FindIn
  <1>2. Content = ContentOf(fs) /\ Content' = ContentOf(fs')
    BY DEF Content, ContentOf
  <1>3. Handles = HandlesOf(file_descriptors)
    <2>1. {x \in DOMAIN file_descriptors : Open(x)} = OpenIn(file_descriptors)
      BY DEF Open, is_valid_file, OpenIn
    <2> QED BY <2>1 DEF Handles, HandlesOf
  <1>4. Handles' = HandlesOf(file_descriptors')
    <2>1. {x \in DOMAIN file_descriptors' : Open(x)'} = OpenIn(file_descriptors')
      BY DEF Open, is_valid_file, OpenIn
    <2> QED BY <2>1 DEF Handles, HandlesOf
  <1> QED BY <1>1, <1>2, <1>3, <1>4

\* A file that find_file finds under a name.
Visible(s, f, n) == f \in Elems(s.list) /\ ~s.at[f].delete /\ s.at[f].name = n

\* find_file finds the one file that is not deleted and has the name.
LEMMA FindIs ==
    ASSUME NEW s, FilesOK(s), NamesOK(s), NEW n
    PROVE  /\ FindIn(s, n) \in FileIds \cup {None}
           /\ \A f \in FileIds : FindIn(s, n) = f <=> Visible(s, f, n)
           /\ FindIn(s, n) = None <=> \A f \in FileIds : ~Visible(s, f, n)
  <1> DEFINE hits == {i \in 1..Len(s.list) : /\ ~s.at[s.list[i]].delete
                                             /\ s.at[s.list[i]].name = n}
             first == CHOOSE i \in hits : \A j \in hits : i <= j
  <1>1. FindIn(s, n) = IF hits = {} THEN None ELSE s.list[first]
    BY DEF FindIn
  <1>2. Elems(s.list) \subseteq FileIds
    BY ElemsAreFiles
  <1>3. CASE hits = {}
    <2>1. \A f \in FileIds : ~Visible(s, f, n)
      BY <1>3 DEF Elems, Visible
    <2>2. FindIn(s, n) = None
      BY <1>1, <1>3
    <2> QED BY <2>1, <2>2, FileAssumption
  <1>4. CASE hits # {}
    <2>1. hits \subseteq Nat
      OBVIOUS
    <2>2. first \in hits
      BY <1>4, <2>1, Least
    <2> DEFINE g == s.list[first]
    <2>3. g \in Elems(s.list) /\ ~s.at[g].delete /\ s.at[g].name = n
      BY <2>2 DEF Elems
    <2>4. FindIn(s, n) = g
      BY <1>1, <1>4
    <2> HIDE DEF g, hits, first
    <2>5. Visible(s, g, n) /\ g \in FileIds /\ g # None
      BY <1>2, <2>3, FileAssumption DEF Visible
    <2>6. \A f \in FileIds : Visible(s, f, n) => f = g
      BY <2>3 DEF Visible, NamesOK
    <2> QED BY <2>4, <2>5, <2>6
  <1> QED BY <1>3, <1>4

\* What is found under a name depends on the visible files only.
LEMMA SameFound ==
    ASSUME NEW s, FilesOK(s), NamesOK(s), NEW r, FilesOK(r), NamesOK(r), NEW n,
           \A f \in FileIds : Visible(r, f, n) <=> Visible(s, f, n)
    PROVE  FindIn(r, n) = FindIn(s, n)
  <1>1. /\ FindIn(s, n) \in FileIds \cup {None}
        /\ \A f \in FileIds : FindIn(s, n) = f <=> Visible(s, f, n)
    BY FindIs
  <1>2. /\ FindIn(r, n) \in FileIds \cup {None}
        /\ \A f \in FileIds : FindIn(r, n) = f <=> Visible(r, f, n)
    BY FindIs
  <1> QED BY <1>1, <1>2

\* An open descriptor is one with a file.
LEMMA OpenInIs ==
    ASSUME NEW t, TableOK(t)
    PROVE  /\ \A i \in DOMAIN t : i \in OpenIn(t) <=> t[i].file \in FileIds
           /\ OpenIn(t) \subseteq DOMAIN t /\ DOMAIN HandlesOf(t) = OpenIn(t)
           /\ \A i \in OpenIn(t) : /\ HandlesOf(t)[i] = Handle(t[i])
                                   /\ HandlesOf(t)[i].file = t[i].file
                                   /\ HandlesOf(t)[i].pos = t[i].pos
                                   /\ HandlesOf(t)[i].flag = t[i].flag
  BY FileAssumption DEF TableOK, OpenIn, HandlesOf, Handle

\* Between two calls files have a name, zeros behind their bytes, and, when they are
\* not listed, no blocks.
Neat(s) ==
    /\ \A f \in FileIds : Clean(s.at[f].blocks)
    /\ \A f \in FileIds \ Elems(s.list) : s.at[f].blocks = <<>>
    /\ \A f \in Elems(s.list) : s.at[f].name \in Names

\* The files there are, for FlatFS, are those on the list.
LEMMA ReachableIs ==
    ASSUME NEW s, NEW t, NEW n, Consistent(s, t, n), Neat(s), NEW f \in FileIds
    PROVE  f \in Actual!Reachable(DirOf(s), HandlesOf(t)) <=> f \in Elems(s.list)
  <1>1. /\ FilesOK(s) /\ NamesOK(s) /\ TableOK(t) /\ RefsOK(s, t)
        /\ Elems(s.list) \subseteq FileIds
    BY ConsistentParts
  <1>2. f \in Actual!Reachable(DirOf(s), HandlesOf(t)) <=>
           \/ \E m \in Names : FindIn(s, m) = f
           \/ \E i \in OpenIn(t) : t[i].file = f
    <2>1. \A m \in Names : DirOf(s)[m] = FindIn(s, m)
      BY DEF DirOf
    <2>2. DOMAIN HandlesOf(t) = OpenIn(t) /\ \A i \in OpenIn(t) : HandlesOf(t)[i].file = t[i].file
      BY <1>1, OpenInIs
    <2> QED BY <2>1, <2>2 DEF Actual!Reachable
  <1>3. ASSUME NEW m \in Names, FindIn(s, m) = f PROVE f \in Elems(s.list)
    BY <1>1, <1>3, FindIs DEF Visible
  <1>4. ASSUME NEW i \in OpenIn(t), t[i].file = f PROVE f \in Elems(s.list)
    BY <1>1, <1>4, FileAssumption DEF RefsOK, OpenIn
  <1>5. ASSUME f \in Elems(s.list), ~s.at[f].delete
        PROVE  \E m \in Names : FindIn(s, m) = f
    <2>1. s.at[f].name \in Names /\ Visible(s, f, s.at[f].name)
      BY <1>5 DEF Neat, Visible
    <2> QED BY <1>1, <2>1, FindIs
  <1>6. ASSUME f \in Elems(s.list), s.at[f].delete
        PROVE  \E i \in OpenIn(t) : t[i].file = f
    <2>1. s.at[f].refs > 0 /\ s.at[f].refs = Cardinality(OpenOn(t, f))
      BY <1>1, <1>6 DEF RefsOK
    <2>2. OpenOn(t, f) # {}
      BY <2>1, FS_EmptySet
    <2>3. PICK i \in DOMAIN t : t[i].file = f
      BY <2>2 DEF OpenOn
    <2>4. i \in OpenIn(t)
      BY <1>1, <2>3, OpenInIs
    <2> QED BY <2>3, <2>4
  <1> QED BY <1>2, <1>3, <1>4, <1>5, <1>6

-----------------------------------------------------------------------------
(* Handles.                                                                *)

Granted(h, k, f, flags) ==
    [x \in DOMAIN h \cup {k} |-> IF x = k THEN [file |-> f, pos |-> 0, flag |-> flags] ELSE h[x]]
Closed(h, k)   == [x \in DOMAIN h \ {k} |-> h[x]]
Moved(h, k, p) == [h EXCEPT ![k].pos = p]

\* A new descriptor on a file.
LEMMA HandleGranted ==
    ASSUME NEW T, NEW n, TableOK(T), CountOK(T, n), NEW t, NEW k, NEW f \in FileIds,
           TakesSlot(T, t, k, f), NEW flags, t[k].pos = 0, t[k].flag = flags
    PROVE  /\ k \in Nat \ DOMAIN HandlesOf(T)
           /\ HandlesOf(t) = Granted(HandlesOf(T), k, f, flags)
  <1>1. TableOK(t)
    BY SlotTaken
  <1>2. k \in DOMAIN t /\ k \in Nat /\ DOMAIN t = DOMAIN T \cup {k} /\ k \notin OpenIn(T)
    <2>1. Cardinality(DOMAIN T) \in Nat /\ DOMAIN T = 0..(Cardinality(DOMAIN T) - 1)
      BY SlotsFinite DEF TableOK
    <2>2. CASE k \in FreeIn(T) /\ DOMAIN t = DOMAIN T
      <3>1. k \in DOMAIN T /\ T[k].is_free
        BY <2>2 DEF FreeIn
      <3>2. k \in Nat
        BY <2>1, <3>1
      <3>3. k \notin OpenIn(T)
        BY <3>1 DEF OpenIn
      <3> QED BY <2>2, <3>1, <3>2, <3>3
    <2>3. CASE k = Cardinality(DOMAIN T) /\ DOMAIN t = 0..Cardinality(DOMAIN T)
      BY <2>1, <2>3 DEF OpenIn
    <2> QED BY <2>2, <2>3 DEF TakesSlot
  <1>3. \A i \in DOMAIN T \ {k} : t[i] = T[i]
    BY DEF TakesSlot
  <1>4. t[k].file = f
    BY DEF TakesSlot
  <1>5. k \in OpenIn(t)
    BY <1>1, <1>2, <1>4, OpenInIs
  <1>6. OpenIn(t) = OpenIn(T) \cup {k}
    <2>1. ASSUME NEW i \in DOMAIN T, i # k PROVE i \in OpenIn(t) <=> i \in OpenIn(T)
      BY <1>2, <1>3, <2>1 DEF OpenIn
    <2>2. OpenIn(t) \subseteq DOMAIN t /\ OpenIn(T) \subseteq DOMAIN T
      BY DEF OpenIn
    <2> QED BY <1>2, <1>5, <2>1, <2>2
  <1>7. DOMAIN HandlesOf(T) = OpenIn(T)
    BY DEF HandlesOf
  <1>8. ASSUME NEW x \in OpenIn(T)
        PROVE  Handle(t[x]) = HandlesOf(T)[x] /\ x # k
    <2>1. x # k /\ x \in DOMAIN T
      BY <1>2, <1>8 DEF OpenIn
    <2>2. t[x] = T[x]
      BY <1>3, <2>1
    <2> QED BY <2>1, <2>2 DEF HandlesOf
  <1>9. Handle(t[k]) = [file |-> f, pos |-> 0, flag |-> flags]
    BY <1>4 DEF Handle
  <1>10. HandlesOf(t) = [x \in OpenIn(t) |-> Handle(t[x])]
    BY DEF HandlesOf
  <1> QED BY <1>2, <1>6, <1>7, <1>8, <1>9, <1>10 DEF Granted

\* A slot taken for no file is not a descriptor.
LEMMA HandleLost ==
    ASSUME NEW T, NEW n, TableOK(T), CountOK(T, n), NEW t, NEW k, TakesSlot(T, t, k, None)
    PROVE  HandlesOf(t) = HandlesOf(T)
  <1>2. k \in DOMAIN t /\ DOMAIN t = DOMAIN T \cup {k} /\ k \notin OpenIn(T)
    <2>1. Cardinality(DOMAIN T) \in Nat /\ DOMAIN T = 0..(Cardinality(DOMAIN T) - 1)
      BY SlotsFinite DEF TableOK
    <2>2. CASE k \in FreeIn(T) /\ DOMAIN t = DOMAIN T
      BY <2>1, <2>2 DEF FreeIn, OpenIn
    <2>3. CASE k = Cardinality(DOMAIN T) /\ DOMAIN t = 0..Cardinality(DOMAIN T)
      BY <2>1, <2>3 DEF OpenIn
    <2> QED BY <2>2, <2>3 DEF TakesSlot
  <1>3. (\A i \in DOMAIN T \ {k} : t[i] = T[i]) /\ t[k].file = None
    BY DEF TakesSlot
  <1>4. OpenIn(t) = OpenIn(T)
    BY <1>2, <1>3 DEF OpenIn
  <1>5. \A i \in OpenIn(T) : t[i] = T[i]
    BY <1>2, <1>3 DEF OpenIn
  <1> QED BY <1>4, <1>5 DEF HandlesOf

\* A descriptor that is closed is none any more.
LEMMA HandleClosed ==
    ASSUME NEW T, TableOK(T), NEW t, NEW k, GivesSlot(T, t, k)
    PROVE  HandlesOf(t) = Closed(HandlesOf(T), k)
  <1>1. /\ DOMAIN t = DOMAIN T /\ t[k].file = None
        /\ \A i \in DOMAIN T \ {k} : t[i] = T[i]
    BY DEF GivesSlot
  <1>2. OpenIn(t) = OpenIn(T) \ {k}
    BY <1>1 DEF OpenIn
  <1>3. \A i \in OpenIn(T) \ {k} : t[i] = T[i]
    BY <1>1 DEF OpenIn
  <1>4. DOMAIN HandlesOf(T) = OpenIn(T) /\ \A i \in OpenIn(T) : HandlesOf(T)[i] = Handle(T[i])
    BY DEF HandlesOf
  <1> QED BY <1>2, <1>3, <1>4 DEF HandlesOf, Closed

\* The position of an open descriptor moves.
LEMMA HandleMoved ==
    ASSUME NEW T, TableOK(T), NEW k \in OpenIn(T), NEW p, NEW t, t = [T EXCEPT ![k].pos = p]
    PROVE  HandlesOf(t) = Moved(HandlesOf(T), k, p)
  <1>1. /\ k \in DOMAIN T /\ \A i \in DOMAIN T : DOMAIN T[i] = SlotFields
        /\ DOMAIN t = DOMAIN T /\ \A i \in DOMAIN T \ {k} : t[i] = T[i]
    BY DEF OpenIn, TableOK
  <1>2. t[k].file = T[k].file /\ t[k].is_free = T[k].is_free /\ t[k].pos = p /\ t[k].flag = T[k].flag
    BY <1>1 DEF SlotFields
  <1>3. OpenIn(t) = OpenIn(T)
    BY <1>1, <1>2 DEF OpenIn
  <1> DEFINE h == HandlesOf(T)
  <1>4. DOMAIN h = OpenIn(T) /\ \A i \in OpenIn(T) : h[i] = Handle(T[i])
    BY DEF HandlesOf
  <1>5. [h[k] EXCEPT !.pos = p] = Handle(t[k])
    BY <1>2, <1>4 DEF Handle
  <1>6. \A i \in OpenIn(T) \ {k} : h[i] = Handle(t[i])
    BY <1>1, <1>4 DEF OpenIn
  <1>7. HandlesOf(t) = [i \in OpenIn(T) |-> Handle(t[i])]
    BY <1>3 DEF HandlesOf
  <1> HIDE DEF h
  <1>8. [h EXCEPT ![k].pos = p] = [i \in OpenIn(T) |-> IF i = k THEN Handle(t[k]) ELSE h[i]]
    BY <1>4, <1>5
  <1>9. [h EXCEPT ![k].pos = p] = HandlesOf(t)
    BY <1>6, <1>7, <1>8
  <1> QED BY <1>9 DEF h, Moved

-----------------------------------------------------------------------------
(* Files.                                                                  *)

\* A file without blocks is empty.
LEMMA FlatEmpty == Flat(<<>>) = <<>> /\ Clean(<<>>)
  <1>1. <<>> \in Seq(Block) /\ Shape(<<>>, 0)
    BY NoBlocks
  <1>2. Flat(<<>>) \in Seq(Bytes) /\ Len(Flat(<<>>)) = 0
    BY <1>1, FlatBytes
  <1>3. Flat(<<>>) = <<>>
    BY <1>2, EmptySeq
  <1> QED BY <1>3 DEF Clean

\* A call that frees files and keeps the bytes of the others.
LEMMA FilesFreed ==
    ASSUME NEW s, FilesOK(s), NEW r, FilesOK(r), Carried(s, r), Neat(s),
           \A g \in Elems(s.list) \ Elems(r.list) : r.at[g] = Freed
    PROVE  /\ Neat(r)
           /\ ContentOf(r) = [f \in FileIds |-> IF f \in Elems(r.list) THEN ContentOf(s)[f] ELSE <<>>]
  <1>1. ASSUME NEW f \in FileIds \ Elems(r.list)
        PROVE  r.at[f].blocks = <<>>
    <2>1. Freed.blocks = <<>>
      BY DEF Freed
    <2>2. CASE f \in Elems(s.list)
      BY <2>1, <2>2
    <2>3. CASE f \notin Elems(s.list)
      BY <2>1, <2>3 DEF Neat, Carried, Alike
    <2> QED BY <2>2, <2>3
  <1>2. ASSUME NEW f \in Elems(r.list)
        PROVE  f \in Elems(s.list) /\ r.at[f].blocks = s.at[f].blocks /\ r.at[f].name = s.at[f].name
    BY DEF Carried, Alike
  <1>3. Elems(s.list) \subseteq FileIds /\ Elems(r.list) \subseteq FileIds
    BY ElemsAreFiles
  <1>4. Neat(r)
    BY <1>1, <1>2, <1>3, FlatEmpty DEF Neat
  <1>5. ASSUME NEW f \in FileIds
        PROVE  Flat(r.at[f].blocks) = IF f \in Elems(r.list) THEN ContentOf(s)[f] ELSE <<>>
    BY <1>1, <1>2, FlatEmpty DEF ContentOf
  <1>6. ContentOf(r) = [f \in FileIds |-> Flat(r.at[f].blocks)]
    BY DEF ContentOf
  <1> QED BY <1>4, <1>5, <1>6

\* close_file frees the file it takes off the list, and changes no name.
LEMMA close_file_Flat ==
    ASSUME NEW s, FilesOK(s), NamesOK(s), NEW f \in Elems(s.list), s.at[f].refs > 0, Neat(s),
           NamesOK(close_file(s, f))
    PROVE  LET r == close_file(s, f)
           IN  /\ Neat(r) /\ DirOf(r) = DirOf(s)
               /\ ContentOf(r) = [g \in FileIds |->
                                    IF g \in Elems(r.list) THEN ContentOf(s)[g] ELSE <<>>]
  <1> DEFINE r == close_file(s, f)
  <1>1. /\ FilesOK(r) /\ \A g \in FileIds \ {f} : r.at[g] = s.at[g]
        /\ Dies(s, f) => Elems(r.list) = Elems(s.list) \ {f} /\ r.at[f] = Freed
        /\ ~Dies(s, f) => /\ r.list = s.list /\ r.at[f].name = s.at[f].name
                          /\ r.at[f].delete = s.at[f].delete
    BY close_file_Is
  <1>2. Carried(s, r)
    BY close_file_Carries
  <1>3. NamesOK(r)
    OBVIOUS
  <1> HIDE DEF r
  <1>4. \A g \in Elems(s.list) \ Elems(r.list) : r.at[g] = Freed
    BY <1>1
  <1>5. ASSUME NEW n PROVE FindIn(r, n) = FindIn(s, n)
    <2>1. ASSUME NEW g \in FileIds PROVE Visible(r, g, n) <=> Visible(s, g, n)
      <3>1. CASE Dies(s, f)
        BY <1>1, <3>1 DEF Visible, Dies
      <3>2. CASE ~Dies(s, f)
        BY <1>1, <3>2 DEF Visible
      <3> QED BY <3>1, <3>2
    <2> QED BY <1>1, <1>3, <2>1, SameFound
  <1>6. DirOf(r) = DirOf(s)
    BY <1>5 DEF DirOf
  <1>7. /\ Neat(r)
        /\ ContentOf(r) = [g \in FileIds |-> IF g \in Elems(r.list) THEN ContentOf(s)[g] ELSE <<>>]
    BY <1>1, <1>2, <1>4, FilesFreed
  <1> QED BY <1>6, <1>7 DEF r

\* ufs_delete takes a name out of the directory.
LEMMA Unlink_Flat ==
    ASSUME NEW s, NEW T, NEW c, Consistent(s, T, c), Neat(s), NEW n, NEW f \in FileIds,
           Visible(s, f, n)
    PROVE  LET r == Unlink(s, f)
           IN  /\ Neat(r) /\ DirOf(r) = [DirOf(s) EXCEPT ![n] = None] /\ Consistent(r, T, c)
               /\ \A g \in FileIds : ~Visible(r, g, n)
               /\ ContentOf(r) = [g \in FileIds |->
                                    IF g \in Elems(r.list) THEN ContentOf(s)[g] ELSE <<>>]
  <1> DEFINE r == Unlink(s, f)
  <1>1. FilesOK(s) /\ NamesOK(s) /\ f \in Elems(s.list) /\ ~s.at[f].delete /\ s.at[f].name = n
    BY ConsistentParts DEF Visible
  <1>2. /\ FilesOK(r) /\ \A g \in FileIds \ {f} : r.at[g] = s.at[g]
        /\ s.at[f].refs = 0 => Elems(r.list) = Elems(s.list) \ {f} /\ r.at[f] = Freed
        /\ s.at[f].refs > 0 => r.list = s.list /\ r.at[f].delete
    BY <1>1, Unlink_Is
  <1>3. Carried(s, r)
    BY <1>1, Unlink_Carries
  <1>4. Consistent(r, T, c)
    BY <1>1, UnlinkKeeps
  <1>5. NamesOK(r)
    BY <1>4, ConsistentParts
  <1>6. s.at[f].refs \in Nat
    BY <1>1 DEF FilesOK
  <1> HIDE DEF r
  <1>7. s.at[f].refs = 0 \/ s.at[f].refs > 0
    BY <1>6
  <1>8. \A g \in Elems(s.list) \ Elems(r.list) : r.at[g] = Freed
    BY <1>2, <1>7
  <1>9. ASSUME NEW m, NEW g \in FileIds
        PROVE  Visible(r, g, m) <=> Visible(s, g, m) /\ g # f
    <2>1. CASE s.at[f].refs = 0
      BY <1>2, <2>1 DEF Visible
    <2>2. CASE s.at[f].refs > 0
      BY <1>2, <2>2 DEF Visible
    <2> QED BY <1>7, <2>1, <2>2
  <1>10. \A g \in FileIds : ~Visible(r, g, n)
    <2>1. \A g \in FileIds : Visible(s, g, n) => g = f
      BY <1>1 DEF Visible, NamesOK
    <2> QED BY <1>9, <2>1
  <1>11. FindIn(r, n) = None
    BY <1>2, <1>5, <1>10, FindIs
  <1>12. ASSUME NEW m, m # n PROVE FindIn(r, m) = FindIn(s, m)
    <2>1. \A g \in FileIds : Visible(r, g, m) <=> Visible(s, g, m)
      BY <1>1, <1>9, <1>12 DEF Visible
    <2> QED BY <1>1, <1>2, <1>5, <2>1, SameFound
  <1>13. DirOf(r) = [DirOf(s) EXCEPT ![n] = None]
    BY <1>11, <1>12 DEF DirOf
  <1>14. /\ Neat(r)
         /\ ContentOf(r) = [g \in FileIds |-> IF g \in Elems(r.list) THEN ContentOf(s)[g] ELSE <<>>]
    BY <1>1, <1>2, <1>3, <1>8, FilesFreed
  <1> QED BY <1>4, <1>10, <1>13, <1>14 DEF r

\* ufs_open with UFS_CREATE puts an empty file into the directory.
LEMMA create_file_Flat ==
    ASSUME NEW s, FilesOK(s), NamesOK(s), Neat(s), NEW f \in FileIds \ Elems(s.list),
           NEW n \in Names, \A g \in FileIds : ~Visible(s, g, n),
           NEW r, r = create_file(s, f, n), NamesOK(r)
    PROVE  /\ Neat(r) /\ DirOf(r) = [DirOf(s) EXCEPT ![n] = f]
           /\ ContentOf(r) = [ContentOf(s) EXCEPT ![f] = <<>>] /\ ContentOf(s)[f] = <<>>
           /\ Elems(r.list) = Elems(s.list) \cup {f}
  <1>1. /\ FilesOK(r) /\ Elems(r.list) = Elems(s.list) \cup {f}
        /\ \A g \in FileIds \ {f} : r.at[g] = s.at[g]
        /\ r.at[f].name = n /\ ~r.at[f].delete
    BY create_file_Is
  <1>2. r.at[f].blocks = <<>>
    BY DEF create_file, FilesOK
  <1>3. s.at[f].blocks = <<>>
    BY DEF Neat
  <1>4. Elems(s.list) \subseteq FileIds
    BY ElemsAreFiles
  <1>5. Neat(r)
    <2>1. ASSUME NEW g \in FileIds PROVE Clean(r.at[g].blocks)
      <3>1. CASE g = f
        BY <1>2, <3>1, FlatEmpty
      <3>2. CASE g # f
        BY <1>1, <3>2 DEF Neat
      <3> QED BY <3>1, <3>2
    <2>2. \A g \in FileIds \ Elems(r.list) : r.at[g].blocks = <<>>
      BY <1>1 DEF Neat
    <2>3. \A g \in Elems(r.list) : r.at[g].name \in Names
      BY <1>1, <1>4 DEF Neat
    <2> QED BY <2>1, <2>2, <2>3 DEF Neat
  <1>6. ContentOf(r) = [ContentOf(s) EXCEPT ![f] = <<>>] /\ ContentOf(s)[f] = <<>>
    <2>1. ContentOf(s)[f] = <<>>
      BY <1>3, FlatEmpty DEF ContentOf
    <2>2. ContentOf(r) = [g \in FileIds |-> Flat(r.at[g].blocks)]
      BY DEF ContentOf
    <2>3. [ContentOf(s) EXCEPT ![f] = <<>>]
             = [g \in FileIds |-> IF g = f THEN <<>> ELSE Flat(s.at[g].blocks)]
      BY DEF ContentOf
    <2>4. ASSUME NEW g \in FileIds
          PROVE  Flat(r.at[g].blocks) = IF g = f THEN <<>> ELSE Flat(s.at[g].blocks)
      BY <1>1, <1>2, FlatEmpty
    <2> QED BY <2>1, <2>2, <2>3, <2>4
  <1>7. ASSUME NEW m, NEW g \in FileIds
        PROVE  Visible(r, g, m) <=> Visible(s, g, m) \/ (g = f /\ m = n)
    <2>1. CASE g = f
      BY <1>1, <2>1 DEF Visible
    <2>2. CASE g # f
      BY <1>1, <2>2 DEF Visible
    <2> QED BY <2>1, <2>2
  <1>8. FindIn(r, n) = f
    BY <1>1, <1>7, FindIs
  <1>9. ASSUME NEW m, m # n PROVE FindIn(r, m) = FindIn(s, m)
    <2>1. \A g \in FileIds : Visible(r, g, m) <=> Visible(s, g, m)
      BY <1>7, <1>9
    <2> QED BY <1>1, <2>1, SameFound
  <1>10. DirOf(r) = [DirOf(s) EXCEPT ![n] = f]
    BY <1>8, <1>9 DEF DirOf
  <1> QED BY <1>1, <1>5, <1>6, <1>10

\* Calls that leave every name and all bytes as they are.
LEMMA FilesSame ==
    ASSUME NEW s, FilesOK(s), NamesOK(s), Neat(s), NEW r, FilesOK(r), NamesOK(r),
           r.list = s.list,
           \A g \in FileIds : /\ r.at[g].name = s.at[g].name /\ r.at[g].blocks = s.at[g].blocks
                              /\ r.at[g].delete = s.at[g].delete
    PROVE  Neat(r) /\ DirOf(r) = DirOf(s) /\ ContentOf(r) = ContentOf(s)
  <1>1. Elems(s.list) \subseteq FileIds
    BY ElemsAreFiles
  <1>2. Neat(r)
    BY <1>1 DEF Neat
  <1>3. ASSUME NEW n PROVE FindIn(r, n) = FindIn(s, n)
    <2>1. \A g \in FileIds : Visible(r, g, n) <=> Visible(s, g, n)
      BY DEF Visible
    <2> QED BY <2>1, SameFound
  <1>4. DirOf(r) = DirOf(s)
    BY <1>3 DEF DirOf
  <1>5. ContentOf(r) = ContentOf(s)
    BY DEF ContentOf
  <1> QED BY <1>2, <1>4, <1>5

\* Calls that change the bytes of one file.
LEMMA FileChanged ==
    ASSUME NEW s, FilesOK(s), NamesOK(s), Neat(s), NEW f \in Elems(s.list), NEW b, Clean(b),
           NEW r, r = [s EXCEPT !.at[f].blocks = b], FilesOK(r), NamesOK(r)
    PROVE  /\ Neat(r) /\ DirOf(r) = DirOf(s)
           /\ ContentOf(r) = [ContentOf(s) EXCEPT ![f] = Flat(b)]
  <1>1. Elems(s.list) \subseteq FileIds /\ f \in FileIds
    BY ElemsAreFiles
  <1>2. /\ r.list = s.list /\ r.at[f].blocks = b
        /\ \A g \in FileIds \ {f} : r.at[g] = s.at[g]
        /\ r.at[f].name = s.at[f].name /\ r.at[f].delete = s.at[f].delete
    <2>1. r.list = s.list /\ r.at = [s.at EXCEPT ![f] = [s.at[f] EXCEPT !.blocks = b]]
      BY <1>1 DEF FilesOK
    <2> QED BY <1>1, <2>1 DEF FilesOK, FileFields
  <1>3. Neat(r)
    <2>1. \A g \in FileIds : Clean(r.at[g].blocks)
      BY <1>2 DEF Neat
    <2>2. \A g \in FileIds \ Elems(r.list) : r.at[g].blocks = <<>>
      BY <1>2 DEF Neat
    <2>3. \A g \in Elems(r.list) : r.at[g].name \in Names
      BY <1>1, <1>2 DEF Neat
    <2> QED BY <2>1, <2>2, <2>3 DEF Neat
  <1>4. ASSUME NEW n PROVE FindIn(r, n) = FindIn(s, n)
    <2>1. \A g \in FileIds : Visible(r, g, n) <=> Visible(s, g, n)
      BY <1>2 DEF Visible
    <2> QED BY <2>1, SameFound
  <1>5. DirOf(r) = DirOf(s)
    BY <1>4 DEF DirOf
  <1>6. ContentOf(r) = [ContentOf(s) EXCEPT ![f] = Flat(b)]
    <2>1. ContentOf(r) = [g \in FileIds |-> Flat(r.at[g].blocks)]
      BY DEF ContentOf
    <2>2. [ContentOf(s) EXCEPT ![f] = Flat(b)]
             = [g \in FileIds |-> IF g = f THEN Flat(b) ELSE Flat(s.at[g].blocks)]
      BY DEF ContentOf
    <2>3. ASSUME NEW g \in FileIds
          PROVE  Flat(r.at[g].blocks) = IF g = f THEN Flat(b) ELSE Flat(s.at[g].blocks)
      BY <1>2
    <2> QED BY <2>1, <2>2, <2>3
  <1> QED BY <1>3, <1>5, <1>6

-----------------------------------------------------------------------------
(* Results and refusals.                                                   *)

RefInv == DataInv /\ Shapes /\ Neat(fs) /\ status # "crashed"

\* What a call returned is the result of FlatFS.
LEMMA Ends ==
    ASSUME NEW op, NEW r, NEW out, NEW code, Return(op, r, out, code), status' # "crashed",
           NEW err, err = IF r = -1 THEN code ELSE "NO_ERR"
    PROVE  Actual!Result(op, r, out, err) /\ Res'.op = op /\ Res'.ret = r
  <1>1. last' = [op |-> op, ret |-> r, out |-> out, err |-> code]
    BY DEF Return
  <1>2. last'.op = op /\ last'.ret = r /\ last'.out = out /\ last'.err = code
    BY <1>1
  <1>3. Res' = [op |-> op, ret |-> r, out |-> out, err |-> err]
    BY <1>2 DEF Res
  <1> QED BY <1>3 DEF Actual!Result

\* A call that fails fails in FlatFS.
LEMMA FailFlat ==
    ASSUME status = "up", NEW op, NEW code, Fail(op, code)
    PROVE  Actual!Fails(op, code) /\ Res'.op = op /\ fs' = fs /\ status' = "up"
  <1>1. /\ Return(op, -1, <<>>, code) /\ fs' = fs /\ file_descriptors' = file_descriptors
        /\ status' = "up"
    BY DEF Fail
  <1>2. status' # "crashed"
    BY <1>1
  <1>3. Actual!Result(op, -1, <<>>, code) /\ Res'.op = op
    BY <1>1, <1>2, Ends
  <1>4. Dir' = Dir /\ Content' = Content /\ Handles' = Handles
    BY <1>1, Mapped
  <1> QED BY <1>1, <1>3, <1>4 DEF Actual!Fails

\* A descriptor is open in FlatFS when it is.
LEMMA Opened ==
    ASSUME Books, NEW fd \in Int
    PROVE  /\ fd \in DOMAIN Handles <=> ~is_valid_file(fd)
           /\ ~is_valid_file(fd) => /\ fd \in OpenIn(file_descriptors)
                                    /\ Handles[fd].file = file_descriptors[fd].file
                                    /\ Handles[fd].pos = file_descriptors[fd].pos
                                    /\ Handles[fd].flag = file_descriptors[fd].flag
  <1>1. TableOK(file_descriptors)
    BY ConsistentParts DEF Books
  <1>2. fd \in OpenIn(file_descriptors) <=> ~is_valid_file(fd)
    BY DEF OpenIn, is_valid_file
  <1> QED BY <1>1, <1>2, OpenInIs, Mapped

\* The checks every call on a descriptor begins with.
LEMMA RefusedFlat ==
    ASSUME Books, status = "up", NEW fd \in Int, NEW op, NEW forbidden,
           \/ is_valid_file(fd) /\ Fail(op, "NO_FILE")
           \/ /\ ~is_valid_file(fd) /\ forbidden \in file_descriptors[fd].flag
              /\ Fail(op, "NO_PERMISSION")
    PROVE  Actual!Refused(op, fd, forbidden) /\ Res'.op = op /\ fs' = fs /\ status' = "up"
  <1>1. CASE is_valid_file(fd) /\ Fail(op, "NO_FILE")
    <2>1. fd \notin DOMAIN Handles
      BY <1>1, Opened
    <2>2. Actual!Fails(op, "NO_FILE") /\ Res'.op = op /\ fs' = fs /\ status' = "up"
      BY <1>1, FailFlat
    <2> QED BY <2>1, <2>2 DEF Actual!Refused
  <1>2. CASE /\ ~is_valid_file(fd) /\ forbidden \in file_descriptors[fd].flag
             /\ Fail(op, "NO_PERMISSION")
    <2>1. fd \in DOMAIN Handles /\ forbidden \in Handles[fd].flag
      BY <1>2, Opened
    <2>2. Actual!Fails(op, "NO_PERMISSION") /\ Res'.op = op /\ fs' = fs /\ status' = "up"
      BY <1>2, FailFlat
    <2> QED BY <2>1, <2>2 DEF Actual!Refused
  <1> QED BY <1>1, <1>2

\* A call that is allowed to go on is allowed in FlatFS.
LEMMA AllowedFlat ==
    ASSUME Books, NEW fd \in Int, ~is_valid_file(fd), NEW forbidden,
           forbidden \notin file_descriptors[fd].flag
    PROVE  Actual!Allowed(fd, forbidden)
  BY Opened DEF Actual!Allowed

\* An open descriptor is inside a listed file.
LEMMA OpenFile ==
    ASSUME RefInv, Books, NEW fd \in Int, ~is_valid_file(fd)
    PROVE  LET f == file_descriptors[fd].file  p == file_descriptors[fd].pos
               bl == fs.at[f].blocks
           IN  /\ f \in Elems(fs.list) /\ f \in FileIds /\ bl \in Seq(Block) /\ Clean(bl)
               /\ Shape(bl, Occ(bl)) /\ p \in Nat /\ p <= Occ(bl)
               /\ Content[f] = Flat(bl) /\ p \div BLOCK_SIZE <= Len(bl)
  <1> DEFINE T == file_descriptors  f == T[fd].file  p == T[fd].pos  bl == fs.at[f].blocks
  <1>1. /\ FilesOK(fs) /\ RefsOK(fs, T) /\ FilesData(fs) /\ SlotsData(T) /\ Sound(fs)
        /\ Within(fs, T) /\ Neat(fs)
    BY ConsistentParts DEF Books, RefInv, DataInv, DataOK, Shapes
  <1>2. fd \in DOMAIN T /\ f \in FileIds
    BY OpenDescriptor
  <1>3. f \in Elems(fs.list)
    BY <1>1, <1>2, FileAssumption DEF RefsOK
  <1>4. bl \in Seq(Block) /\ Clean(bl)
    BY <1>1, <1>2 DEF FilesData, StructOK, Neat
  <1>5. Shape(bl, Occ(bl))
    BY <1>1, <1>3 DEF Sound
  <1>6. p \in Nat /\ p <= Occ(bl)
    BY <1>1, <1>2, FileAssumption DEF SlotsData, SlotOK, Within, SlotIn
  <1>7. Content[f] = Flat(bl)
    BY <1>2, Mapped DEF ContentOf
  <1> HIDE DEF T, f, p, bl
  <1>8. p \div BLOCK_SIZE <= Len(bl)
    <2>1. 0 \in Nat
      OBVIOUS
    <2> QED BY <1>4, <1>5, <1>6, <2>1, ReadShape
  <1> QED BY <1>2, <1>3, <1>4, <1>5, <1>6, <1>7, <1>8 DEF T, f, p, bl

\* The files FlatFS keeps are those on the list.
LEMMA TidyFlat ==
    ASSUME Books', Neat(fs'), NEW c,
           Content' = [g \in FileIds |-> IF g \in Elems(fs'.list) THEN c[g] ELSE <<>>]
    PROVE  Actual!Tidy(c)
  <1>1. Consistent(fs', file_descriptors', file_descriptor_count')
    BY DEF Books
  <1>2. \A g \in FileIds : g \in Actual!Reachable(DirOf(fs'), HandlesOf(file_descriptors'))
                             <=> g \in Elems(fs'.list)
    BY <1>1, ReachableIs
  <1>3. Dir' = DirOf(fs') /\ Handles' = HandlesOf(file_descriptors')
    BY Mapped
  <1>4. \A g \in FileIds : g \in Actual!Reachable(Dir', Handles') <=> g \in Elems(fs'.list)
    BY <1>2, <1>3
  <1> QED BY <1>4 DEF Actual!Tidy

-----------------------------------------------------------------------------
(* One lemma per call.                                                     *)

\* ufs_delete.
LEMMA DeleteFlat ==
    ASSUME RefInv, Books, Books', status = "up", NEW n \in Names, ufs_delete(n)
    PROVE  Actual!Delete(n) /\ Res'.op = "delete" /\ Neat(fs') /\ status' # "crashed"
  <1>1. FilesOK(fs) /\ NamesOK(fs) /\ Neat(fs)
    BY ConsistentParts DEF Books, RefInv
  <1>2. find_file(n) = FindIn(fs, n) /\ Dir[n] = FindIn(fs, n)
    BY Mapped DEF find_file, FindIn, DirOf
  <1>3. CASE find_file(n) = None /\ Fail("delete", "NO_FILE")
    <2>1. Actual!Fails("delete", "NO_FILE") /\ Res'.op = "delete" /\ fs' = fs /\ status' = "up"
      BY <1>3, FailFlat
    <2>2. Dir[n] = None
      BY <1>2, <1>3
    <2> QED BY <1>1, <2>1, <2>2 DEF Actual!Delete
  <1>4. CASE /\ find_file(n) # None /\ fs' = Unlink(fs, find_file(n))
             /\ Return("delete", 0, <<>>, "kept")
             /\ UNCHANGED <<file_descriptors, file_descriptor_count, status>>
    <2>1. PICK f \in FileIds : f = find_file(n) /\ Visible(fs, f, n)
      BY <1>1, <1>2, <1>4, FindIs
    <2>2. fs' = Unlink(fs, f)
      BY <1>4, <2>1
    <2>3. /\ Neat(fs') /\ DirOf(fs') = [DirOf(fs) EXCEPT ![n] = None]
          /\ ContentOf(fs') = [g \in FileIds |->
                                 IF g \in Elems(fs'.list) THEN ContentOf(fs)[g] ELSE <<>>]
      BY <1>1, <2>1, <2>2, Unlink_Flat DEF Books
    <2>4. Actual!Tidy(Content)
      BY <2>3, Mapped, TidyFlat
    <2>5. Dir' = [Dir EXCEPT ![n] = None] /\ Handles' = Handles /\ Dir[n] # None
      BY <1>2, <1>4, <2>3, Mapped
    <2>6. status' # "crashed"
      BY <1>4
    <2>7. Actual!Result("delete", 0, <<>>, "NO_ERR") /\ Res'.op = "delete"
      BY <1>4, <2>6, Ends
    <2> QED BY <2>3, <2>4, <2>5, <2>6, <2>7 DEF Actual!Delete
  <1> QED BY <1>3, <1>4 DEF ufs_delete

\* ufs_close.
LEMMA CloseFlat ==
    ASSUME RefInv, Books, Books', status = "up", NEW fd \in Int, ufs_close(fd)
    PROVE  /\ Actual!Close(fd) \/ Actual!Refused("close", fd, "nothing")
           /\ Res'.op = "close" /\ Neat(fs') /\ status' # "crashed"
  <1>1. CASE \/ is_valid_file(fd) /\ Fail("close", "NO_FILE")
             \/ /\ ~is_valid_file(fd) /\ "nothing" \in file_descriptors[fd].flag
                /\ Fail("close", "NO_PERMISSION")
    <2>1. /\ Actual!Refused("close", fd, "nothing") /\ Res'.op = "close" /\ fs' = fs
          /\ status' = "up"
      BY <1>1, RefusedFlat
    <2> QED BY <2>1 DEF RefInv
  <1>2. CASE /\ ~is_valid_file(fd) /\ "nothing" \notin file_descriptors[fd].flag
             /\ filedesc_make_free(fd) /\ Return("close", 0, <<>>, "kept") /\ UNCHANGED status
    <2> DEFINE T == file_descriptors
    <2>1. /\ fd \in DOMAIN T /\ ~T[fd].is_free /\ T[fd].file \in FileIds
          /\ DOMAIN T[fd] = SlotFields
      BY <1>2, OpenDescriptor
    <2>2. /\ fs' = close_file(fs, T[fd].file)
          /\ T' = [T EXCEPT ![fd].file = None, ![fd].is_free = TRUE, ![fd].flag = {}]
      BY <1>2 DEF filedesc_make_free
    <2>3. /\ DOMAIN T' = DOMAIN T /\ \A i \in DOMAIN T \ {fd} : T'[i] = T[i]
          /\ DOMAIN T'[fd] = SlotFields /\ T'[fd].file = None /\ T'[fd].is_free = TRUE
      BY <2>1, <2>2 DEF SlotFields
    <2>4. T'[fd].is_free \in BOOLEAN /\ T'[fd].is_free
      BY <2>3, Zenon
    <2>5. GivesSlot(T, T', fd)
      BY <2>1, <2>3, <2>4 DEF GivesSlot
    <2>6. FilesOK(fs) /\ NamesOK(fs) /\ TableOK(T) /\ RefsOK(fs, T) /\ Neat(fs) /\ NamesOK(fs')
      BY ConsistentParts DEF Books, RefInv
    <2>7. PICK f \in Elems(fs.list) : f = T[fd].file
      BY <2>1, <2>6, FileAssumption DEF RefsOK
    <2>8. fs.at[f].refs > 0
      <3>1. fd \in OpenOn(T, f) /\ f \in FileIds
        BY <2>1, <2>7 DEF OpenOn
      <3>2. IsFiniteSet(OpenOn(T, f)) /\ Cardinality(OpenOn(T, f)) \in Nat
        BY <2>6, SlotsFinite
      <3>3. Cardinality(OpenOn(T, f)) # 0
        BY <3>1, <3>2, FS_EmptySet
      <3>4. fs.at[f].refs = Cardinality(OpenOn(T, f))
        BY <2>6, <3>1 DEF RefsOK
      <3> QED BY <3>2, <3>3, <3>4
    <2>9. fs' = close_file(fs, f)
      BY <2>2, <2>7
    <2>10. /\ Neat(fs') /\ DirOf(fs') = DirOf(fs)
           /\ ContentOf(fs') = [g \in FileIds |->
                                  IF g \in Elems(fs'.list) THEN ContentOf(fs)[g] ELSE <<>>]
      BY <2>6, <2>8, <2>9, close_file_Flat
    <2>11. Actual!Tidy(Content)
      BY <2>10, Mapped, TidyFlat
    <2>12. HandlesOf(T') = Closed(HandlesOf(T), fd)
      BY <2>5, <2>6, HandleClosed
    <2>13. Dir' = Dir /\ Handles' = [x \in DOMAIN Handles \ {fd} |-> Handles[x]]
      BY <2>10, <2>12, Mapped DEF Closed
    <2>14. status' # "crashed"
      BY <1>2
    <2>15. Actual!Result("close", 0, <<>>, "NO_ERR") /\ Res'.op = "close"
      BY <1>2, <2>14, Ends
    <2>16. Actual!Allowed(fd, "nothing")
      BY <1>2, AllowedFlat
    <2> QED BY <2>10, <2>11, <2>13, <2>14, <2>15, <2>16 DEF Actual!Close
  <1> QED BY <1>1, <1>2 DEF ufs_close, Checked

\* ufs_write.
LEMMA WriteFlat ==
    ASSUME RefInv, Books, Books', status = "up", NEW fd \in Int, NEW buf \in Seq(Bytes),
           ufs_write(fd, buf)
    PROVE  /\ Actual!Write(fd, buf) \/ Actual!Refused("write", fd, "READ_ONLY")
           /\ Res'.op = "write" /\ Neat(fs') /\ status' # "crashed"
  <1>1. CASE \/ is_valid_file(fd) /\ Fail("write", "NO_FILE")
             \/ /\ ~is_valid_file(fd) /\ "READ_ONLY" \in file_descriptors[fd].flag
                /\ Fail("write", "NO_PERMISSION")
    <2>1. /\ Actual!Refused("write", fd, "READ_ONLY") /\ Res'.op = "write" /\ fs' = fs
          /\ status' = "up"
      BY <1>1, RefusedFlat
    <2> QED BY <2>1 DEF RefInv
  <1>2. CASE /\ ~is_valid_file(fd) /\ "READ_ONLY" \notin file_descriptors[fd].flag
             /\ DoWrite(fd, file_descriptors[fd], buf)
    <2> DEFINE T == file_descriptors  f == T[fd].file  p == T[fd].pos  bl == fs.at[f].blocks
    <2>1. /\ f \in Elems(fs.list) /\ f \in FileIds /\ bl \in Seq(Block) /\ Clean(bl)
          /\ Shape(bl, Occ(bl)) /\ p \in Nat /\ p <= Occ(bl)
          /\ Content[f] = Flat(bl) /\ p \div BLOCK_SIZE <= Len(bl)
      BY <1>2, OpenFile
    <2>2. /\ fd \in OpenIn(T) /\ fd \in DOMAIN Handles
          /\ Handles[fd].file = f /\ Handles[fd].pos = p
      BY <1>2, Opened
    <2>3. Actual!Allowed(fd, "READ_ONLY")
      BY <1>2, AllowedFlat
    <2>4. p + Len(buf) \in Int /\ MAX_FILE_SIZE \in Int /\ Len(bl) \in Nat /\ p \div BLOCK_SIZE \in Int
      <3>1. Len(buf) \in Nat /\ Len(bl) \in Nat
        <4> HIDE DEF bl
        <4> QED BY <2>1, LenProperties
      <3>2. p \div BLOCK_SIZE \in Nat
        <4> HIDE DEF p
        <4> QED BY <2>1, BlockAssumption, Division
      <3> HIDE DEF p, bl
      <3> QED BY <2>1, <3>1, <3>2, BlockAssumption
    <2>5. CASE TooLong(p, Len(buf)) /\ Fail("write", "NO_MEM")
      <3>1. Actual!Fails("write", "NO_MEM") /\ Res'.op = "write" /\ fs' = fs /\ status' = "up"
        BY <2>5, FailFlat
      <3>2. Handles[fd].pos + Len(buf) > MAX_FILE_SIZE
        BY <2>2, <2>5 DEF TooLong
      <3> QED BY <2>3, <3>1, <3>2 DEF Actual!Write, RefInv
    <2>6. ~WalksOffTheEnd(T[fd])
      <3>1. ~(p \div BLOCK_SIZE > Len(bl))
        <4> HIDE DEF p, bl
        <4> QED BY <2>1, <2>4
      <3> QED BY <3>1 DEF WalksOffTheEnd
    <2>7. CASE /\ ~TooLong(p, Len(buf))
               /\ fs' = [fs EXCEPT !.at[f].blocks = Written(@, p, buf)]
               /\ T' = [T EXCEPT ![fd].pos = @ + Len(buf)]
               /\ Return("write", Len(buf), <<>>, "kept")
               /\ UNCHANGED <<file_descriptor_count, status>>
      <3> DEFINE b == Written(bl, p, buf)
      <3>1. fs' = [fs EXCEPT !.at[f].blocks = b]
        BY <2>7
      <3>2. T' = [T EXCEPT ![fd].pos = p + Len(buf)]
        BY <2>7
      <3>3. Clean(b) /\ Flat(b) = Actual!Overwrite(Flat(bl), p, buf)
        BY <2>1, CleanWritten, FlatWritten
      <3>4. /\ FilesOK(fs) /\ NamesOK(fs) /\ Neat(fs) /\ FilesOK(fs') /\ NamesOK(fs') /\ TableOK(T)
        BY ConsistentParts DEF Books, RefInv
      <3> HIDE DEF b, f, p, bl
      <3>5. /\ Neat(fs') /\ DirOf(fs') = DirOf(fs)
            /\ ContentOf(fs') = [ContentOf(fs) EXCEPT ![f] = Flat(b)]
        BY <2>1, <3>1, <3>3, <3>4, FileChanged
      <3>6. HandlesOf(T') = Moved(HandlesOf(T), fd, p + Len(buf))
        BY <2>2, <3>2, <3>4, HandleMoved
      <3>7. /\ Dir' = Dir
            /\ Content' = [Content EXCEPT ![f] = Actual!Overwrite(Content[f], p, buf)]
            /\ Handles' = [Handles EXCEPT ![fd].pos = p + Len(buf)]
        BY <2>1, <3>3, <3>5, <3>6, Mapped DEF Moved
      <3>8. status' # "crashed" /\ Len(buf) # -1
        BY <2>7, LenProperties
      <3>9. Actual!Result("write", Len(buf), <<>>, "NO_ERR") /\ Res'.op = "write"
        BY <2>7, <3>8, Ends
      <3>10. Content' = [Content EXCEPT ![Handles[fd].file] =
                            Actual!Overwrite(@, Handles[fd].pos, buf)]
        BY <2>2, <3>7
      <3>11. Handles' = [Handles EXCEPT ![fd].pos = @ + Len(buf)]
        BY <2>2, <3>7
      <3>12. Handles[fd].pos + Len(buf) <= MAX_FILE_SIZE
        BY <2>2, <2>4, <2>7 DEF TooLong
      <3> QED BY <2>3, <3>5, <3>7, <3>8, <3>9, <3>10, <3>11, <3>12 DEF Actual!Write
    <2> QED BY <1>2, <2>5, <2>6, <2>7 DEF DoWrite
  <1> QED BY <1>1, <1>2 DEF ufs_write, Checked

\* ufs_read.
LEMMA ReadFlat ==
    ASSUME RefInv, Books, Books', status = "up", NEW fd \in Int, NEW size \in Nat,
           ufs_read(fd, size)
    PROVE  /\ Actual!Read(fd, size) \/ Actual!Refused("read", fd, "WRITE_ONLY")
           /\ Res'.op = "read" /\ Neat(fs') /\ status' # "crashed"
  <1> DEFINE T == file_descriptors  f == T[fd].file  p == T[fd].pos  bl == fs.at[f].blocks
             r == ReadFrom(bl, p, size)
             Limit == IF p + size > Len(Flat(bl)) THEN Len(Flat(bl)) ELSE p + size
  <1>1. CASE \/ is_valid_file(fd) /\ Fail("read", "NO_FILE")
             \/ /\ ~is_valid_file(fd) /\ "WRITE_ONLY" \in file_descriptors[fd].flag
                /\ Fail("read", "NO_PERMISSION")
    <2>1. /\ Actual!Refused("read", fd, "WRITE_ONLY") /\ Res'.op = "read" /\ fs' = fs
          /\ status' = "up"
      BY <1>1, RefusedFlat
    <2> QED BY <2>1 DEF RefInv
  <1>2. CASE /\ ~is_valid_file(fd) /\ "WRITE_ONLY" \notin file_descriptors[fd].flag
             /\ DoRead(fd, T[fd], r)
    <2>1. /\ f \in Elems(fs.list) /\ f \in FileIds /\ bl \in Seq(Block)
          /\ Shape(bl, Occ(bl)) /\ p \in Nat /\ p <= Occ(bl)
          /\ Content[f] = Flat(bl) /\ p \div BLOCK_SIZE <= Len(bl)
      BY <1>2, OpenFile
    <2>2. /\ fd \in OpenIn(T) /\ fd \in DOMAIN Handles
          /\ Handles[fd].file = f /\ Handles[fd].pos = p
      BY <1>2, Opened
    <2>3. Actual!Allowed(fd, "WRITE_ONLY")
      BY <1>2, AllowedFlat
    <2>4. /\ r.out = SubSeq(Flat(bl), p + 1, Limit)
          /\ r \in Progress(size) /\ ~r.overrun /\ Len(r.out) = r.pos - p
      <3> HIDE DEF p, bl
      <3> QED BY <2>1, FlatRead, ReadShape
    <2>5. r.pos = p + Len(r.out) /\ Len(r.out) \in Nat
      <3>1. r.pos \in Nat /\ r.out \in Seq(Bytes)
        BY <2>4 DEF Progress
      <3>2. Len(r.out) \in Nat
        BY <3>1, LenProperties
      <3>3. p \in Nat /\ Len(r.out) = r.pos - p
        BY <2>1, <2>4
      <3> HIDE DEF r, p
      <3> QED BY <3>1, <3>2, <3>3
    <2>6. ~WalksOffTheEnd(T[fd])
      <3>1. Len(bl) \in Nat /\ p \div BLOCK_SIZE \in Nat
        <4> HIDE DEF p, bl
        <4> QED BY <2>1, LenProperties, BlockAssumption, Division
      <3>2. ~(p \div BLOCK_SIZE > Len(bl))
        <4> HIDE DEF p, bl
        <4> QED BY <2>1, <3>1
      <3> QED BY <3>2 DEF WalksOffTheEnd
    <2>7. /\ T' = [T EXCEPT ![fd].pos = r.pos]
          /\ Return("read", Len(r.out), r.out, "kept")
          /\ UNCHANGED <<fs, file_descriptor_count, status>>
      BY <1>2, <2>4, <2>6 DEF DoRead
    <2>8. TableOK(T) /\ Neat(fs)
      BY ConsistentParts DEF Books, RefInv
    <2>9. HandlesOf(T') = Moved(HandlesOf(T), fd, r.pos)
      <3> HIDE DEF r, p
      <3> QED BY <2>2, <2>7, <2>8, HandleMoved
    <2>10. Dir' = Dir /\ Content' = Content /\ Handles' = [Handles EXCEPT ![fd].pos = r.pos]
      BY <2>7, <2>9, Mapped DEF Moved
    <2>11. status' # "crashed" /\ Len(r.out) # -1
      <3>1. Len(r.out) \in Nat /\ status' = "up"
        BY <2>5, <2>7
      <3> HIDE DEF r
      <3> QED BY <3>1
    <2>12. Actual!Result("read", Len(r.out), r.out, "NO_ERR") /\ Res'.op = "read"
      <3> HIDE DEF r
      <3> QED BY <2>7, <2>11, Ends
    <2>13. r.out = SubSeq(Content[Handles[fd].file], Handles[fd].pos + 1,
                          IF Handles[fd].pos + size > Len(Content[Handles[fd].file])
                          THEN Len(Content[Handles[fd].file]) ELSE Handles[fd].pos + size)
      <3> HIDE DEF r, bl
      <3> QED BY <2>1, <2>2, <2>4
    <2>14. Handles' = [Handles EXCEPT ![fd].pos = @ + Len(r.out)]
      <3> HIDE DEF r, p
      <3> QED BY <2>2, <2>5, <2>10
    <2>15. Actual!Read(fd, size)
      <3> HIDE DEF r
      <3> QED BY <2>3, <2>10, <2>12, <2>13, <2>14 DEF Actual!Read
    <2> QED BY <2>7, <2>8, <2>11, <2>12, <2>15
  <1> QED BY <1>1, <1>2 DEF ufs_read, Checked

\* Slots that keep their file and position are the same handles.
LEMMA HandlesSame ==
    ASSUME NEW T, NEW t, DOMAIN t = DOMAIN T, \A i \in DOMAIN T : t[i] = T[i]
    PROVE  HandlesOf(t) = HandlesOf(T)
  <1>1. OpenIn(t) = OpenIn(T)
    BY DEF OpenIn
  <1>2. \A i \in OpenIn(T) : t[i] = T[i]
    BY DEF OpenIn
  <1> QED BY <1>1, <1>2 DEF HandlesOf

\* Making a file bigger moves no position.
LEMMA GrowMovesNone ==
    ASSUME DataInv, Shapes, Books, GrowOnly, NEW fd \in Int, NEW size \in Nat,
           ~is_valid_file(fd), MayResize(fd, size)
    PROVE  /\ size > 0 /\ Occ(fs.at[file_descriptors[fd].file].blocks) <= size
           /\ LET t == Clamped(file_descriptors[fd], size)
              IN  /\ DOMAIN t = DOMAIN file_descriptors
                  /\ \A i \in DOMAIN file_descriptors : t[i] = file_descriptors[i]
  <1> DEFINE T == file_descriptors  f == T[fd].file  t == Clamped(T[fd], size)
  <1>1. /\ RefsOK(fs, T) /\ Sound(fs) /\ Within(fs, T) /\ SlotsData(T) /\ SlotsAre(T)
    BY ConsistentParts DEF Books, DataInv, DataOK, Shapes
  <1>2. fd \in DOMAIN T /\ f \in FileIds /\ f \in Elems(fs.list)
    <2>1. fd \in DOMAIN T /\ f \in FileIds
      BY OpenDescriptor
    <2> QED BY <1>1, <2>1, FileAssumption DEF RefsOK
  <1>3. ASSUME NEW g \in Elems(fs.list), fs.at[g].name = fs.at[f].name
        PROVE  Occ(fs.at[g].blocks) \in Nat /\ size > 0 /\ Occ(fs.at[g].blocks) <= size
    <2>1. Occ(fs.at[g].blocks) \in Nat
      BY <1>1 DEF Sound, Shape
    <2>2. g \in Listed /\ Size(g) = Occ(fs.at[g].blocks)
      BY DEF Listed, Elems, Size, Occ
    <2>3. size >= Max({Occ(fs.at[g].blocks), 1})
      BY <1>3, <2>2 DEF MayResize
    <2>4. Max({Occ(fs.at[g].blocks), 1}) = More(Occ(fs.at[g].blocks), 1)
      <3>1. Occ(fs.at[g].blocks) \in Int /\ 1 \in Int
        BY <2>1
      <3> QED BY <3>1, MinMaxIs
    <2> QED BY <2>1, <2>3, <2>4 DEF More
  <1>4. ASSUME NEW i \in DOMAIN T PROVE t[i] = T[i]
    <2>1. t[i] = IF Reached(i) /\ T[i].file # None /\ fs.at[T[i].file].name = fs.at[f].name
                 THEN [T[i] EXCEPT !.pos = Min({@, size})] ELSE T[i]
      BY DEF Clamped
    <2>2. CASE T[i].file # None /\ fs.at[T[i].file].name = fs.at[f].name
      <3>1. T[i].file \in Elems(fs.list)
        BY <1>1, <2>2 DEF RefsOK
      <3>2. T[i].pos \in Nat /\ T[i].pos <= Occ(fs.at[T[i].file].blocks)
        BY <1>1, <2>2 DEF SlotsData, SlotOK, Within, SlotIn
      <3>3. Occ(fs.at[T[i].file].blocks) \in Nat /\ Occ(fs.at[T[i].file].blocks) <= size
        BY <1>3, <2>2, <3>1
      <3>4. T[i].pos <= size
        BY <3>2, <3>3
      <3>5. Min({T[i].pos, size}) = Less(T[i].pos, size)
        <4>1. T[i].pos \in Int /\ size \in Int
          BY <3>2
        <4> QED BY <4>1, MinMaxIs
      <3>6. Min({T[i].pos, size}) = T[i].pos
        BY <3>4, <3>5 DEF Less
      <3>7. [T[i] EXCEPT !.pos = T[i].pos] = T[i]
        BY <1>1 DEF SlotsAre, IsSlot
      <3> QED BY <2>1, <3>6, <3>7
    <2> QED BY <2>1, <2>2
  <1>5. DOMAIN t = DOMAIN T
    BY DEF Clamped
  <1> QED BY <1>2, <1>3, <1>4, <1>5

\* ufs_resize.
LEMMA ResizeFlat ==
    ASSUME RefInv, Books, Books', status = "up", GrowOnly, NEW fd \in Int, NEW size \in Nat,
           ufs_resize(fd, size), MayResize(fd, size)
    PROVE  /\ Actual!Grow(fd, size) \/ Actual!Refused("resize", fd, "READ_ONLY")
           /\ Res'.op = "resize" /\ Neat(fs') /\ status' # "crashed"
  <1> DEFINE T == file_descriptors  f == T[fd].file  bl == fs.at[f].blocks
             b == Resized(bl, size)
  <1>1. CASE \/ is_valid_file(fd) /\ Fail("resize", "NO_FILE")
             \/ /\ ~is_valid_file(fd) /\ "READ_ONLY" \in file_descriptors[fd].flag
                /\ Fail("resize", "NO_PERMISSION")
    <2>1. /\ Actual!Refused("resize", fd, "READ_ONLY") /\ Res'.op = "resize" /\ fs' = fs
          /\ status' = "up"
      BY <1>1, RefusedFlat
    <2> QED BY <2>1 DEF RefInv
  <1>2. CASE /\ ~is_valid_file(fd) /\ "READ_ONLY" \notin file_descriptors[fd].flag
             /\ DoResize(fd, T[fd], size)
    <2>1. /\ f \in Elems(fs.list) /\ f \in FileIds /\ bl \in Seq(Block) /\ Clean(bl)
          /\ Shape(bl, Occ(bl)) /\ Content[f] = Flat(bl)
      BY <1>2, OpenFile
    <2>2. fd \in DOMAIN Handles /\ Handles[fd].file = f
      BY <1>2, Opened
    <2>3. Actual!Allowed(fd, "READ_ONLY")
      BY <1>2, AllowedFlat
    <2>4. /\ size \in Nat \ {0} /\ Occ(bl) <= size /\ MAX_FILE_SIZE \in Nat
          /\ DOMAIN Clamped(T[fd], size) = DOMAIN T
          /\ \A i \in DOMAIN T : Clamped(T[fd], size)[i] = T[i]
      <3>1. size > 0 /\ Occ(bl) <= size
        BY <1>2, GrowMovesNone DEF RefInv
      <3>2. /\ DOMAIN Clamped(T[fd], size) = DOMAIN T
            /\ \A i \in DOMAIN T : Clamped(T[fd], size)[i] = T[i]
        BY <1>2, GrowMovesNone DEF RefInv
      <3> QED BY <3>1, <3>2, BlockAssumption
    <2>5. CASE TooLong(0, size) /\ Fail("resize", "NO_MEM")
      <3>1. Actual!Fails("resize", "NO_MEM") /\ Res'.op = "resize" /\ fs' = fs /\ status' = "up"
        BY <2>5, FailFlat
      <3>2. size > MAX_FILE_SIZE
        BY <2>4, <2>5 DEF TooLong
      <3> QED BY <2>3, <3>1, <3>2 DEF Actual!Grow, RefInv
    <2>6. CASE /\ ~TooLong(0, size) /\ size > 0
               /\ fs' = [fs EXCEPT !.at[f].blocks = Resized(@, size)]
               /\ T' = Clamped(T[fd], size)
               /\ Return("resize", 0, <<>>, "kept")
               /\ UNCHANGED <<file_descriptor_count, status>>
      <3>1. fs' = [fs EXCEPT !.at[f].blocks = b]
        BY <2>6
      <3>2. /\ Clean(b) /\ Len(Flat(bl)) = Occ(bl)
            /\ Flat(b) = Flat(bl) \o [i \in 1..(size - Len(Flat(bl))) |-> 0]
        <4> HIDE DEF bl
        <4> QED BY <2>1, <2>4, CleanResized, FlatResized
      <3>3. /\ FilesOK(fs) /\ NamesOK(fs) /\ Neat(fs) /\ FilesOK(fs') /\ NamesOK(fs')
        BY ConsistentParts DEF Books, RefInv
      <3>4. /\ Neat(fs') /\ DirOf(fs') = DirOf(fs)
            /\ ContentOf(fs') = [ContentOf(fs) EXCEPT ![f] = Flat(b)]
        <4>1. Clean(b) /\ f \in Elems(fs.list)
          BY <2>1, <3>2
        <4> HIDE DEF b, f, bl
        <4> QED BY <3>1, <3>3, <4>1, FileChanged
      <3>5. DOMAIN T' = DOMAIN T /\ \A i \in DOMAIN T : T'[i] = T[i]
        BY <2>4, <2>6
      <3>6. HandlesOf(T') = HandlesOf(T)
        <4> HIDE DEF T
        <4> QED BY <3>5, HandlesSame DEF T
      <3>7. Dir' = Dir /\ Handles' = Handles /\ Content' = [Content EXCEPT ![f] = Flat(b)]
        BY <3>4, <3>6, Mapped
      <3>8. Content' = [Content EXCEPT ![Handles[fd].file] =
                           @ \o [i \in 1..(size - Len(@)) |-> 0]]
        <4> HIDE DEF b, f, bl
        <4> QED BY <2>1, <2>2, <3>2, <3>7
      <3>9. status' # "crashed"
        BY <2>6
      <3>10. Actual!Result("resize", 0, <<>>, "NO_ERR") /\ Res'.op = "resize"
        BY <2>6, <3>9, Ends
      <3>11. size \in Len(Content[Handles[fd].file])..MAX_FILE_SIZE
        <4>1. Len(Content[Handles[fd].file]) = Occ(bl) /\ Occ(bl) \in Nat
          BY <2>1, <2>2, <3>2 DEF Shape
        <4>2. ~(0 + size > MAX_FILE_SIZE)
          BY <2>6 DEF TooLong
        <4> HIDE DEF bl
        <4> QED BY <2>4, <4>1, <4>2
      <3>12. Actual!Grow(fd, size)
        BY <2>3, <3>7, <3>8, <3>10, <3>11 DEF Actual!Grow
      <3> QED BY <3>4, <3>9, <3>10, <3>12
    <2>7. size # 0
      BY <2>4
    <2> QED BY <1>2, <2>5, <2>6, <2>7 DEF DoResize
  <1> QED BY <1>1, <1>2 DEF ufs_resize, Checked

\* What UFS_CREATE unlinks, and the list it creates the file in.
Cleared(n) == IF find_file(n) = None THEN fs ELSE Unlink(fs, find_file(n))

\* UFS_CREATE unlinks the file of that name, if there is one (ufs_open).
LEMMA ClearedFlat ==
    ASSUME RefInv, Books, NEW n \in Names, NEW s, s = Cleared(n)
    PROVE  /\ Consistent(s, file_descriptors, file_descriptor_count) /\ Neat(s)
           /\ \A g \in FileIds : ~Visible(s, g, n)
           /\ DirOf(s) = [DirOf(fs) EXCEPT ![n] = None]
           /\ ContentOf(s) = [g \in FileIds |->
                                IF g \in Elems(s.list) THEN ContentOf(fs)[g] ELSE <<>>]
  <1>1. FilesOK(fs) /\ NamesOK(fs) /\ Neat(fs)
    BY ConsistentParts DEF Books, RefInv
  <1>2. find_file(n) = FindIn(fs, n) /\ DirOf(fs)[n] = FindIn(fs, n)
    BY DEF find_file, FindIn, DirOf
  <1>3. CASE find_file(n) = None
    <2>1. s = fs
      BY <1>3 DEF Cleared
    <2>2. \A g \in FileIds : ~Visible(fs, g, n)
      BY <1>1, <1>2, <1>3, FindIs
    <2>3. DirOf(fs) = [DirOf(fs) EXCEPT ![n] = None]
      <3>1. DirOf(fs)[n] = None
        BY <1>2, <1>3
      <3>2. DirOf(fs) = [m \in Names |-> FindIn(fs, m)]
        BY DEF DirOf
      <3> QED BY <3>1, <3>2
    <2>4. \A g \in FileIds : g \notin Elems(fs.list) => ContentOf(fs)[g] = <<>>
      BY <1>1, FlatEmpty DEF Neat, ContentOf
    <2>5. ContentOf(fs) = [g \in FileIds |-> ContentOf(fs)[g]]
      BY DEF ContentOf
    <2>6. ContentOf(fs) = [g \in FileIds |->
                             IF g \in Elems(fs.list) THEN ContentOf(fs)[g] ELSE <<>>]
      BY <2>4, <2>5
    <2> QED BY <1>1, <2>1, <2>2, <2>3, <2>6 DEF Books
  <1>4. CASE find_file(n) # None
    <2>1. PICK f \in FileIds : f = find_file(n) /\ Visible(fs, f, n)
      BY <1>1, <1>2, <1>4, FindIs
    <2>2. s = Unlink(fs, f)
      BY <1>4, <2>1 DEF Cleared
    <2> QED BY <1>1, <2>1, <2>2, Unlink_Flat DEF Books
  <1> QED BY <1>3, <1>4

\* The file UFS_CREATE makes is empty, has the name, and nobody else has it.
LEMMA CreateFlat ==
    ASSUME RefInv, Books, Books', NEW n \in Names, NEW f \in FileIds \ Elems(Cleared(n).list),
           fs' = create_file(Cleared(n), f, n)
    PROVE  /\ Neat(fs') /\ Dir' = [Dir EXCEPT ![n] = f]
           /\ f \in FileIds \ Actual!Reachable([Dir EXCEPT ![n] = None], Handles)
           /\ Actual!Tidy([Content EXCEPT ![f] = <<>>])
  <1>1. PICK s : s = Cleared(n)
    OBVIOUS
  <1>2. /\ Consistent(s, file_descriptors, file_descriptor_count) /\ Neat(s)
        /\ \A g \in FileIds : ~Visible(s, g, n)
        /\ DirOf(s) = [DirOf(fs) EXCEPT ![n] = None]
        /\ ContentOf(s) = [g \in FileIds |->
                             IF g \in Elems(s.list) THEN ContentOf(fs)[g] ELSE <<>>]
    BY <1>1, ClearedFlat
  <1>3. f \in FileIds \ Elems(s.list) /\ fs' = create_file(s, f, n)
    BY <1>1
  <1>4. FilesOK(s) /\ NamesOK(s) /\ NamesOK(fs')
    BY <1>2, ConsistentParts DEF Books
  <1>5. /\ Neat(fs') /\ DirOf(fs') = [DirOf(s) EXCEPT ![n] = f]
        /\ ContentOf(fs') = [ContentOf(s) EXCEPT ![f] = <<>>] /\ ContentOf(s)[f] = <<>>
        /\ Elems(fs'.list) = Elems(s.list) \cup {f}
    <2>1. Neat(s) /\ \A g \in FileIds : ~Visible(s, g, n)
      BY <1>2
    <2> QED BY <1>3, <1>4, <2>1, create_file_Flat
  <1>6. Dir' = [Dir EXCEPT ![n] = f]
    <2>1. DirOf(fs') = [DirOf(fs) EXCEPT ![n] = f]
      <3>1. DirOf(fs) = [m \in Names |-> DirOf(fs)[m]]
        BY DEF DirOf
      <3> QED BY <1>2, <1>5, <3>1
    <2> QED BY <2>1, Mapped
  <1>7. f \in FileIds \ Actual!Reachable([Dir EXCEPT ![n] = None], Handles)
    <2>1. f \notin Actual!Reachable(DirOf(s), HandlesOf(file_descriptors))
      BY <1>2, <1>3, ReachableIs
    <2> QED BY <1>2, <1>3, <2>1, Mapped
  <1>8. Actual!Tidy([Content EXCEPT ![f] = <<>>])
    <2> DEFINE c == [ContentOf(fs) EXCEPT ![f] = <<>>]
    <2>1. ContentOf(fs) = [g \in FileIds |-> ContentOf(fs)[g]]
      BY DEF ContentOf
    <2>2. c[f] = <<>> /\ \A g \in FileIds \ {f} : c[g] = ContentOf(fs)[g]
      BY <1>3, <2>1
    <2>3. ASSUME NEW g \in FileIds
          PROVE  ContentOf(fs')[g] = IF g \in Elems(fs'.list) THEN c[g] ELSE <<>>
      <3>1. CASE g = f
        BY <1>3, <1>5, <1>2, <2>2, <3>1
      <3>2. CASE g # f
        <4>1. ContentOf(fs')[g] = ContentOf(s)[g] /\ (g \in Elems(fs'.list) <=> g \in Elems(s.list))
          BY <1>2, <1>5, <3>2
        <4>2. ContentOf(s)[g] = IF g \in Elems(s.list) THEN ContentOf(fs)[g] ELSE <<>>
          BY <1>2
        <4>3. c[g] = ContentOf(fs)[g]
          BY <2>2, <3>2
        <4> HIDE DEF c
        <4> QED BY <4>1, <4>2, <4>3
      <3> QED BY <3>1, <3>2
    <2>4. ContentOf(fs') = [g \in FileIds |-> ContentOf(fs')[g]]
      BY DEF ContentOf
    <2> HIDE DEF c
    <2>5. ContentOf(fs') = [g \in FileIds |-> IF g \in Elems(fs'.list) THEN c[g] ELSE <<>>]
      BY <2>3, <2>4
    <2>6. Actual!Tidy(c)
      BY <1>5, <2>5, Mapped, TidyFlat
    <2>7. c = [Content EXCEPT ![f] = <<>>]
      BY Mapped DEF c
    <2> QED BY <2>6, <2>7
  <1> QED BY <1>5, <1>6, <1>7, <1>8

\* The descriptor ufs_open returns.
LEMMA GrantFlat ==
    ASSUME Books, DataInv, NEW flags, NEW f \in FileIds, NEW code,
           file_descriptors' = AtStart(find_free_fd.table, find_free_fd.fd, flags, f),
           Return("open", find_free_fd.fd, <<>>, code), status' = "up"
    PROVE  Actual!Grant(Res'.ret, f, flags) /\ Res'.op = "open"
  <1> DEFINE T == file_descriptors  t == find_free_fd.table  k == find_free_fd.fd
  <1>1. TableOK(T) /\ CountOK(T, file_descriptor_count)
    BY ConsistentParts DEF Books
  <1>2. TakesSlot(T, t, k, None)
    BY <1>1, find_free_fd_Is
  <1>3. k \in DOMAIN t /\ DOMAIN t[k] = SlotFields
    BY find_free_fd_Data DEF DataInv
  <1> HIDE DEF t, k
  <1>4. T' = AtStart(t, k, flags, f)
    BY DEF t, k
  <1>5. T' = [t EXCEPT ![k].flag = flags, ![k].file = f, ![k].pos = 0]
    BY <1>4 DEF AtStart
  <1>6. TakesSlot(T, T', k, f)
    <2> HIDE DEF T
    <2> QED BY <1>1, <1>2, <1>5, SlotSetUp
  <1>7. T'[k].flag = flags /\ T'[k].pos = 0
    BY <1>3, <1>4, SlotData
  <1>8. k \in Nat \ DOMAIN HandlesOf(T) /\ HandlesOf(T') = Granted(HandlesOf(T), k, f, flags)
    <2> HIDE DEF T
    <2> QED BY <1>1, <1>6, <1>7, HandleGranted
  <1>9. k # -1 /\ status' # "crashed" /\ Return("open", k, <<>>, code)
    BY <1>8 DEF k
  <1>10. Actual!Result("open", k, <<>>, "NO_ERR") /\ Res'.op = "open" /\ Res'.ret = k
    BY <1>9, Ends
  <1>11. k \in Nat \ DOMAIN Handles /\ Handles' = Granted(Handles, k, f, flags)
    BY <1>8, Mapped
  <1> QED BY <1>10, <1>11 DEF Actual!Grant, Granted

\* ufs_open.
LEMMA OpenFlat ==
    ASSUME RefInv, Books, Books', status = "up", NEW n \in Names, NEW flags \in OpenFlags,
           ufs_open(n, flags)
    PROVE  /\ Actual!Open(n, flags) \/ Actual!OpenNew(n, flags)
           /\ Res'.op = "open" /\ Neat(fs') /\ status' # "crashed"
  <1> DEFINE T == file_descriptors  t == find_free_fd.table  k == find_free_fd.fd
  <1>1. /\ FilesOK(fs) /\ NamesOK(fs) /\ Neat(fs) /\ FilesOK(fs') /\ NamesOK(fs') /\ TableOK(T)
        /\ CountOK(T, file_descriptor_count) /\ DataInv
    BY ConsistentParts DEF Books, RefInv
  <1>2. find_file(n) = FindIn(fs, n) /\ Dir[n] = FindIn(fs, n) /\ status' = "up"
    BY Mapped DEF find_file, FindIn, DirOf, ufs_open
  <1>3. CASE "CREATE" \in flags /\ OpenCreate(k, t, n, flags)
    <2>1. PICK f \in FileIds :
            /\ ~\E i \in 1..Len(Cleared(n).list) : Cleared(n).list[i] = f
            /\ fs' = create_file(Cleared(n), f, n)
            /\ T' = [t EXCEPT ![k].flag = flags, ![k].file = f, ![k].pos = 0]
            /\ Return("open", k, <<>>, IF find_file(n) = None THEN "NO_FILE" ELSE "kept")
      BY <1>3 DEF OpenCreate, Cleared
    <2>2. f \in FileIds \ Elems(Cleared(n).list)
      BY <2>1 DEF Elems
    <2>3. /\ Neat(fs') /\ Dir' = [Dir EXCEPT ![n] = f]
          /\ f \in FileIds \ Actual!Reachable([Dir EXCEPT ![n] = None], Handles)
          /\ Actual!Tidy([Content EXCEPT ![f] = <<>>])
      BY <2>1, <2>2, CreateFlat
    <2>4. Actual!Grant(Res'.ret, f, flags) /\ Res'.op = "open"
      BY <1>1, <1>2, <2>1, GrantFlat DEF AtStart
    <2>5. Dir'[n] = f
      <3>1. n \in DOMAIN Dir
        BY DEF Dir
      <3> QED BY <2>3, <3>1
    <2> QED BY <1>2, <1>3, <2>3, <2>4, <2>5 DEF Actual!OpenNew
  <1>4. CASE "CREATE" \notin flags /\ OpenExisting(k, t, n, flags)
    <2>1. CASE /\ find_file(n) # None
               /\ fs' = [fs EXCEPT !.at[find_file(n)].refs = @ + 1]
               /\ T' = [t EXCEPT ![k].flag = flags, ![k].file = find_file(n), ![k].pos = 0]
               /\ Return("open", k, <<>>, "kept")
      <3>1. PICK f \in FileIds : f = find_file(n)
        BY <1>1, <1>2, <2>1, FindIs
      <3>2. fs' = [fs EXCEPT !.at[f].refs = @ + 1]
        BY <2>1, <3>1
      <3>3. /\ fs'.list = fs.list
            /\ \A g \in FileIds : /\ fs'.at[g].name = fs.at[g].name
                                  /\ fs'.at[g].blocks = fs.at[g].blocks
                                  /\ fs'.at[g].delete = fs.at[g].delete
        BY <1>1, <3>2 DEF FilesOK, FileFields
      <3>4. Neat(fs') /\ DirOf(fs') = DirOf(fs) /\ ContentOf(fs') = ContentOf(fs)
        BY <1>1, <3>3, FilesSame
      <3>5. Actual!Grant(Res'.ret, f, flags) /\ Res'.op = "open"
        BY <1>1, <1>2, <2>1, <3>1, GrantFlat DEF AtStart
      <3>6. Dir' = Dir /\ Content' = Content /\ Dir[n] = f /\ f # None
        BY <1>2, <2>1, <3>1, <3>4, Mapped
      <3> QED BY <1>2, <1>4, <3>4, <3>5, <3>6 DEF Actual!Open
    <2>2. CASE /\ find_file(n) = None
               /\ T' = [t EXCEPT ![k].flag = flags, ![k].file = None]
               /\ Return("open", -1, <<>>, "NO_FILE")
               /\ UNCHANGED fs
      <3>1. TakesSlot(T, t, k, None)
        BY <1>1, find_free_fd_Is
      <3>2. TakesSlot(T, T', k, None)
        <4> HIDE DEF t, k
        <4> QED BY ZenonT(40), <1>1, <2>2, <3>1, SlotSetUp
      <3>3. HandlesOf(T') = HandlesOf(T)
        <4> HIDE DEF k
        <4> QED BY <1>1, <3>2, HandleLost
      <3>4. Dir' = Dir /\ Content' = Content /\ Handles' = Handles /\ Dir[n] = None
        BY <1>2, <2>2, <3>3, Mapped
      <3>5. status' # "crashed"
        BY <1>2
      <3>6. Actual!Result("open", -1, <<>>, "NO_FILE") /\ Res'.op = "open"
        BY <2>2, <3>5, Ends
      <3>7. Actual!Fails("open", "NO_FILE")
        BY <3>4, <3>6 DEF Actual!Fails
      <3> QED BY <1>1, <1>4, <2>2, <3>4, <3>5, <3>6, <3>7 DEF Actual!Open
    <2> QED BY <1>4, <2>1, <2>2 DEF OpenExisting
  <1> QED BY <1>3, <1>4 DEF ufs_open

-----------------------------------------------------------------------------
(* Every step.                                                             *)

\* Without a table there are no handles.
LEMMA EmptyTable == HandlesOf(<<>>) = <<>>
  BY DEF HandlesOf, OpenIn

\* ufs_destroy.
LEMMA DestroyFlat ==
    ASSUME RefInv, status = "up", ufs_destroy
    PROVE  Actual!Destroy /\ Res'.op = "destroy" /\ Neat(fs') /\ status' # "crashed"
  <1>1. /\ fs' = fs /\ file_descriptors' = <<>> /\ status' = "destroyed"
        /\ Return("destroy", 0, <<>>, "kept")
    BY DEF ufs_destroy
  <1>2. Dir' = Dir /\ Content' = Content /\ Handles' = <<>>
    BY <1>1, Mapped, EmptyTable
  <1>3. status' # "crashed"
    BY <1>1
  <1>4. Actual!Result("destroy", 0, <<>>, "NO_ERR") /\ Res'.op = "destroy"
    BY <1>1, <1>3, Ends
  <1> QED BY <1>1, <1>2, <1>3, <1>4 DEF Actual!Destroy, RefInv

\* Every call of userfs.c is a call of FlatFS with the same result.
LEMMA NextFlat ==
    ASSUME RefInv, GrowOnly, Next
    PROVE  Actual!FlatNext /\ Neat(fs') /\ status' # "crashed"
  <1> DEFINE Safe == Neat(fs') /\ status' # "crashed"
  <1>1. status = "up" /\ Books
    BY DEF Next, RefInv, DataInv, FSInv, Books, ufs_delete, ufs_open, ufs_close, ufs_write,
           ufs_read, ufs_resize, ufs_destroy, Checked
  <1>2. \A fd \in FdArgs : fd \in Int
    BY FdAssumption DEF FdArgs
  <1>3. CASE ufs_destroy
    BY <1>1, <1>3, DestroyFlat DEF Actual!FlatNext
  <1>4. ASSUME NEW n \in Names, ufs_delete(n) PROVE Actual!FlatNext /\ Safe
    <2>1. Books'
      BY <1>1, <1>4, DeleteStep
    <2>2. Actual!Delete(n) /\ Res'.op = "delete" /\ Safe
      BY <1>1, <1>4, <2>1, DeleteFlat
    <2> QED BY <2>2 DEF Actual!FlatNext
  <1>5. ASSUME NEW n \in Names, NEW flags \in OpenFlags, ufs_open(n, flags)
        PROVE  Actual!FlatNext /\ Safe
    <2>1. Books'
      BY <1>1, <1>5, OpenStep
    <2>2. (Actual!Open(n, flags) \/ Actual!OpenNew(n, flags)) /\ Res'.op = "open" /\ Safe
      BY <1>1, <1>5, <2>1, OpenFlat
    <2> QED BY <2>2 DEF Actual!FlatNext
  <1>6. ASSUME NEW fd \in FdArgs, ufs_close(fd) PROVE Actual!FlatNext /\ Safe
    <2>1. Books' /\ fd \in Int
      BY <1>1, <1>2, <1>6, CloseStep
    <2>2. /\ Actual!Close(fd) \/ Actual!Refused("close", fd, "nothing")
          /\ Res'.op = "close" /\ Safe
      BY <1>1, <1>6, <2>1, CloseFlat
    <2> QED BY <2>2 DEF Actual!FlatNext
  <1>7. ASSUME NEW fd \in FdArgs, NEW buf \in Buffers, ufs_write(fd, buf)
        PROVE  Actual!FlatNext /\ Safe
    <2>1. Books' /\ fd \in Int /\ buf \in Seq(Bytes)
      BY <1>1, <1>2, <1>7, WriteStep, ByteAssumption
    <2>2. /\ Actual!Write(fd, buf) \/ Actual!Refused("write", fd, "READ_ONLY")
          /\ Res'.op = "write" /\ Safe
      BY <1>1, <1>7, <2>1, WriteFlat
    <2> QED BY <2>2 DEF Actual!FlatNext
  <1>8. ASSUME NEW fd \in FdArgs, NEW size \in 0..MaxRead, ufs_read(fd, size)
        PROVE  Actual!FlatNext /\ Safe
    <2>1. Books' /\ fd \in Int /\ size \in Nat
      BY <1>1, <1>2, <1>8, ReadStep, BlockAssumption
    <2>2. /\ Actual!Read(fd, size) \/ Actual!Refused("read", fd, "WRITE_ONLY")
          /\ Res'.op = "read" /\ Safe
      BY <1>1, <1>8, <2>1, ReadFlat
    <2> QED BY <2>2 DEF Actual!FlatNext
  <1>9. ASSUME NEW fd \in FdArgs, NEW size \in ResizeSizes, MayResize(fd, size),
               ufs_resize(fd, size)
        PROVE  Actual!FlatNext /\ Safe
    <2>1. Books' /\ fd \in Int /\ size \in Nat
      BY <1>1, <1>2, <1>9, ResizeStep, FdAssumption
    <2>2. /\ Actual!Grow(fd, size) \/ Actual!Refused("resize", fd, "READ_ONLY")
          /\ Res'.op = "resize" /\ Safe
      BY <1>1, <1>9, <2>1, ResizeFlat
    <2> QED BY <2>2 DEF Actual!FlatNext
  <1> QED BY <1>3, <1>4, <1>5, <1>6, <1>7, <1>8, <1>9, DestroyFlat, <1>1 DEF Next

\* Before the first call there is nothing, in FlatFS as well.
LEMMA InitFlat ==
    ASSUME Init
    PROVE  Actual!FlatInit /\ RefInv
  <1>1. DataInv /\ Shapes
    BY InitData
  <1>2. /\ fs = [list |-> <<>>, at |-> [f \in FileIds |-> Freed]] /\ file_descriptors = <<>>
        /\ status = "up" /\ last = [op |-> "none", ret |-> 0, out |-> <<>>, err |-> "kept"]
    BY DEF Init
  <1>3. fs.list = <<>> /\ Elems(fs.list) = {} /\ \A f \in FileIds : fs.at[f].blocks = <<>>
    BY <1>2 DEF Elems, Freed
  <1>4. Neat(fs)
    BY <1>3, FlatEmpty DEF Neat
  <1>5. Dir = [n \in Names |-> None]
    <2>1. \A n \in Names : FindIn(fs, n) = None
      BY <1>3 DEF FindIn
    <2> QED BY <2>1, Mapped DEF DirOf
  <1>6. Content = [f \in FileIds |-> <<>>]
    BY <1>3, FlatEmpty DEF Content
  <1>7. Handles = <<>>
    BY <1>2, Mapped, EmptyTable
  <1>8. Res = [op |-> "none", ret |-> 0, out |-> <<>>, err |-> "NO_ERR"]
    BY <1>2 DEF Res
  <1> QED BY <1>1, <1>2, <1>4, <1>5, <1>6, <1>7, <1>8 DEF Actual!FlatInit, RefInv

\* While files only grow, blocks, reference counts and the descriptor table behave like
\* flat files (userfs.c): no call crashes, every read returns exactly the bytes written,
\* a deleted file lives until its last descriptor is closed.
THEOREM FSImplementsFlatFS ==
    ASSUME GrowOnly
    PROVE  Spec => ImplementsFlatFS
  <1>1. Init => Actual!FlatInit /\ RefInv
    BY InitFlat
  <1>2. RefInv /\ [Next]_fsVars => RefInv' /\ [Actual!FlatNext]_(Actual!ffVars)
    <2>1. ASSUME RefInv, UNCHANGED fsVars PROVE RefInv' /\ UNCHANGED Actual!ffVars
      <3>1. FSInv'
        BY <2>1, NextFSInv DEF RefInv, DataInv
      <3>2. fs' = fs /\ file_descriptors' = file_descriptors /\ last' = last /\ status' = status
        BY <2>1 DEF fsVars
      <3>3. DataInv' /\ Shapes'
        BY <2>1, <3>1, <3>2 DEF RefInv, DataInv, DataOK, Bounded, Shapes
      <3>4. Dir' = Dir /\ Content' = Content /\ Handles' = Handles
        BY <3>2, Mapped
      <3>5. Res' = Res
        BY <3>2 DEF Res
      <3> QED BY <2>1, <3>2, <3>3, <3>4, <3>5 DEF Actual!ffVars, RefInv
    <2>2. ASSUME RefInv, Next PROVE RefInv' /\ Actual!FlatNext
      <3>1. DataInv' /\ Shapes'
        BY <2>2, NextData DEF RefInv
      <3>2. Actual!FlatNext /\ Neat(fs') /\ status' # "crashed"
        BY <2>2, NextFlat
      <3> QED BY <3>1, <3>2 DEF RefInv
    <2> QED BY <2>1, <2>2
  <1> QED BY <1>1, <1>2, PTL DEF Spec, ImplementsFlatFS, Actual!FlatSpec
=============================================================================
