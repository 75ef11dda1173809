--------------------------- MODULE MemPoolProofs ---------------------------
(***************************************************************************)
(* Theorems about MemPool, for any size of a block and of a header, any    *)
(* requests and any number of blocks.                                      *)
(*                                                                         *)
(* What alloc_buffer, realloc_buffer and i_merge_unit do to the units of a *)
(* block is made of three things: a header is written over without its     *)
(* size (PutKeeps), a unit is split in two (SplitKeeps), two are joined    *)
(* (JoinKeeps).  Each keeps the block tiled, whatever prev says.           *)
(***************************************************************************)
EXTENDS MemPool, TLAPS, FiniteSetTheorems

\* A list of units of a block.
Good(u) ==
  /\ DOMAIN u \subseteq Offsets
  /\ u \in [DOMAIN u -> Headers]
  /\ Tiled(u)

\* The free units after a header is written.
LEMMA FreePut ==
  ASSUME NEW u, NEW o, NEW h
  PROVE  FreeIn(Put(u, o, h)) = IF h.bfree THEN FreeIn(u) \cup {o} ELSE FreeIn(u) \ {o}
<1> DEFINE v == Put(u, o, h)
<1>1. DOMAIN v = DOMAIN u \cup {o} /\ v[o] = h /\ \A q \in DOMAIN u \ {o} : v[q] = u[q]
  BY DEF Put
<1> HIDE DEF v
<1>2. \A q : q \in FreeIn(v) <=> (q \in DOMAIN u \cup {o} /\ v[q].bfree)
  BY <1>1 DEF FreeIn
<1>3. \A q : q \in FreeIn(u) <=> (q \in DOMAIN u /\ u[q].bfree)
  BY DEF FreeIn
<1>4. CASE h.bfree
  <2>1. \A q : q \in FreeIn(v) <=> q \in FreeIn(u) \cup {o}
    BY <1>1, <1>2, <1>3, <1>4
  <2> QED BY <1>4, <2>1 DEF v
<1>5. CASE ~h.bfree
  <2>1. \A q : q \in FreeIn(v) <=> q \in FreeIn(u) \ {o}
    BY <1>1, <1>2, <1>3, <1>5
  <2> QED BY <1>5, <2>1 DEF v
<1> QED BY <1>4, <1>5

LEMMA FreeDrop ==
  ASSUME NEW u, NEW o
  PROVE  FreeIn(Drop(u, o)) = FreeIn(u) \ {o}
<1> DEFINE v == Drop(u, o)
<1>1. DOMAIN v = DOMAIN u \ {o} /\ \A q \in DOMAIN u \ {o} : v[q] = u[q]
  BY DEF Drop
<1> HIDE DEF v
<1>2. FreeIn(v) = FreeIn(u) \ {o}
  BY <1>1 DEF FreeIn
<1> QED BY <1>2 DEF v

\* A header written anew, with the size and the next unit it had.
LEMMA PutKeeps ==
  ASSUME NEW u, Good(u), NEW o \in DOMAIN u, NEW h \in Headers,
         h.size = u[o].size, h.next = u[o].next
  PROVE  Good(Put(u, o, h)) /\ DOMAIN Put(u, o, h) = DOMAIN u
<1> DEFINE v == Put(u, o, h)
<1>1. DOMAIN v = DOMAIN u /\ v[o] = h /\ \A q \in DOMAIN u \ {o} : v[q] = u[q]
  <2>1. DOMAIN u \cup {o} = DOMAIN u
    OBVIOUS
  <2> QED BY <2>1 DEF Put
<1>2. \A q \in DOMAIN u : v[q] \in Headers /\ v[q].size = u[q].size /\ v[q].next = u[q].next
  BY <1>1 DEF Good
<1>3. v \in [DOMAIN v -> Headers]
  BY <1>1, <1>2 DEF Put
<1>4. Tiled(v)
  <2>1. Tiled(u)
    BY DEF Good
  <2> HIDE DEF v
  <2> QED BY <1>1, <1>2, <2>1 DEF Tiled
<1> QED BY <1>1, <1>3, <1>4 DEF Good

\* A unit ends in its block.
LEMMA Ends ==
  ASSUME NEW u, Good(u), NEW o \in DOMAIN u
  PROVE  o + u[o].size <= BlockSize
<1>1. /\ o \in Offsets /\ BlockSize \in Nat \ {0}
      /\ u[o].size \in 1 .. BlockSize /\ u[o].next \in Offsets \cup {Null}
  BY SizeAssumption DEF Good, Headers
<1>2. CASE u[o].next = Null
  <2>1. o + u[o].size # BlockSize => o + u[o].size = -1
    BY <1>2 DEF Good, Tiled, Null
  <2> QED BY <1>1, <2>1 DEF Offsets
<1>3. CASE u[o].next # Null
  <2>1. u[o].next = o + u[o].size /\ u[o].next \in Offsets
    BY <1>1, <1>3 DEF Good, Tiled
  <2> QED BY <1>1, <2>1 DEF Offsets
<1> QED BY <1>2, <1>3

\* A unit cut in two.
Cut(u, o, m, f, g, p) ==
  Put(Put(u, o, Unit(m, f, p, o + m)), o + m, Unit(u[o].size - m, g, o, u[o].next))

LEMMA SplitKeeps ==
  ASSUME NEW u, Good(u), NEW o \in DOMAIN u, NEW m \in Nat \ {0}, m < u[o].size,
         NEW f \in BOOLEAN, NEW g \in BOOLEAN, NEW p \in Offsets \cup {Null}
  PROVE  LET v == Cut(u, o, m, f, g, p)
         IN Good(v) /\ DOMAIN v = DOMAIN u \cup {o + m} /\ o + m \notin DOMAIN u
<1> DEFINE w == Put(u, o, Unit(m, f, p, o + m))
           r == o + m
           v == Put(w, r, Unit(u[o].size - m, g, o, u[o].next))
<1>1. /\ o \in Offsets /\ u[o] \in Headers /\ BlockSize \in Nat \ {0}
      /\ u[o].size \in 1 .. BlockSize /\ u[o].next \in Offsets \cup {Null}
  BY SizeAssumption DEF Good, Headers
<1>2. \A q \in DOMAIN u : q \in Int /\ u[q] \in Headers /\ u[q].size \in 1 .. BlockSize
  BY DEF Good, Headers, Offsets
<1>3. o + u[o].size <= BlockSize
  BY Ends
<1>4. /\ r \in Offsets /\ r > o /\ r < o + u[o].size /\ r \notin DOMAIN u
  <2>1. r \in Offsets /\ r > o /\ r < o + u[o].size
    BY <1>1, <1>3 DEF Offsets
  <2>2. \A q \in DOMAIN u : o < q => o + u[o].size <= q
    BY DEF Good, Tiled
  <2> QED BY <1>1, <1>2, <2>1, <2>2 DEF Offsets
<1>5. /\ DOMAIN v = DOMAIN u \cup {r}
      /\ v[o] = Unit(m, f, p, r)
      /\ v[r] = Unit(u[o].size - m, g, o, u[o].next)
      /\ \A q \in DOMAIN u \ {o} : v[q] = u[q]
  <2>1. DOMAIN w = DOMAIN u /\ w[o] = Unit(m, f, p, r) /\ \A q \in DOMAIN u \ {o} : w[q] = u[q]
    <3>1. DOMAIN u \cup {o} = DOMAIN u
      OBVIOUS
    <3> QED BY <3>1 DEF Put
  <2>2. /\ DOMAIN v = DOMAIN w \cup {r} /\ v[r] = Unit(u[o].size - m, g, o, u[o].next)
        /\ \A q \in DOMAIN w \ {r} : v[q] = w[q]
    <3> HIDE DEF w, r
    <3> QED BY DEF Put
  <2> HIDE DEF w, v
  <2> QED BY <1>1, <1>4, <2>1, <2>2 DEF Offsets
<1>6. /\ Unit(m, f, p, r) \in Headers
      /\ Unit(u[o].size - m, g, o, u[o].next) \in Headers
  BY <1>1, <1>4 DEF Unit, Headers, Offsets
<1>7. v \in [DOMAIN v -> Headers]
  <2>1. \A q \in DOMAIN v : v[q] \in Headers
    BY <1>2, <1>5, <1>6
  <2> QED BY <2>1 DEF Put
<1>8. Tiled(v)
  <2>1. /\ v[o].size = m /\ v[o].next = r /\ v[r].size = u[o].size - m /\ v[r].next = u[o].next
    BY <1>5 DEF Unit
  <2>2. Tiled(u)
    BY DEF Good
  <2>3. 0 \in DOMAIN v
    BY <1>5, <2>2 DEF Tiled
  <2> HIDE DEF v
  <2>4. ASSUME NEW q \in DOMAIN v
        PROVE  /\ v[q].next = (IF q + v[q].size = BlockSize THEN Null ELSE q + v[q].size)
               /\ v[q].next # Null => v[q].next \in DOMAIN v
    <3>1. CASE q = o
      BY <1>1, <1>3, <1>4, <1>5, <2>1, <3>1 DEF Offsets, Null
    <3>2. CASE q = r
      <4>1. r + (u[o].size - m) = o + u[o].size
        BY <1>1 DEF Offsets
      <4> QED BY <1>5, <2>1, <2>2, <3>2, <4>1 DEF Tiled
    <3>3. CASE q \in DOMAIN u \ {o}
      BY <1>5, <2>2, <3>3 DEF Tiled
    <3> QED BY <1>5, <3>1, <3>2, <3>3
  <2>5. ASSUME NEW q \in DOMAIN v, NEW x \in DOMAIN v, q < x PROVE q + v[q].size <= x
    <3>1. \A a, b \in DOMAIN u : a < b => a + u[a].size <= b
      BY <2>2 DEF Tiled
    <3>2. CASE q \in DOMAIN u \ {o} /\ x \in DOMAIN u
      BY <1>5, <2>5, <3>1, <3>2
    <3>3. CASE q = o /\ x \in DOMAIN u
      BY <1>1, <1>2, <2>1, <2>5, <3>1, <3>3 DEF Offsets
    <3>4. CASE q \in DOMAIN u \ {o} /\ x = r
      <4>1. q < o
        <5>1. q > o => o + u[o].size <= q
          BY <3>1, <3>4
        <5> QED BY <1>1, <1>2, <1>4, <2>5, <3>4, <5>1 DEF Offsets
      <4>2. q + u[q].size <= o
        BY <3>1, <3>4, <4>1
      <4> QED BY <1>1, <1>2, <1>4, <1>5, <3>4, <4>2 DEF Offsets
    <3>5. CASE q = r /\ x \in DOMAIN u
      <4>1. o < x
        BY <1>1, <1>2, <1>4, <2>5, <3>5 DEF Offsets
      <4>2. o + u[o].size <= x
        BY <3>1, <3>5, <4>1
      <4> QED BY <1>1, <1>2, <1>4, <2>1, <3>5, <4>2 DEF Offsets
    <3>6. CASE q = o /\ x = r
      BY <2>1, <3>6, <1>1 DEF Offsets
    <3>7. ~(q = r /\ x = r)
      BY <1>4, <2>5 DEF Offsets
    <3> QED BY <1>5, <3>2, <3>3, <3>4, <3>5, <3>6, <3>7
  <2> QED BY <2>3, <2>4, <2>5 DEF Tiled
<1>9. DOMAIN v \subseteq Offsets
  BY <1>4, <1>5 DEF Good
<1>10. Good(v)
  BY <1>7, <1>8, <1>9 DEF Good
<1> QED BY <1>4, <1>5, <1>10 DEF Cut

\* Two units made one.
Joint(u, o, f, p) ==
  LET nx == u[o].next
  IN Put(Drop(u, nx), o, Unit(u[o].size + u[nx].size, f, p, u[nx].next))

LEMMA JoinKeeps ==
  ASSUME NEW u, Good(u), NEW o \in DOMAIN u, u[o].next # Null,
         NEW f \in BOOLEAN, NEW p \in Offsets \cup {Null}
  PROVE  /\ Good(Joint(u, o, f, p)) /\ DOMAIN Joint(u, o, f, p) = DOMAIN u \ {u[o].next}
         /\ u[o].next \in DOMAIN u /\ u[o].next # o
<1> DEFINE nx == u[o].next
           h == Unit(u[o].size + u[nx].size, f, p, u[nx].next)
           v == Put(Drop(u, nx), o, h)
<1>1. nx \in DOMAIN u /\ nx = o + u[o].size
  BY DEF Good, Tiled
<1>2. /\ BlockSize \in Nat \ {0}
      /\ \A q \in DOMAIN u : /\ q \in 0 .. BlockSize - 1 /\ u[q] \in Headers
                            /\ u[q].size \in 1 .. BlockSize
                            /\ u[q].next \in Offsets \cup {Null}
  BY SizeAssumption DEF Good, Headers, Offsets
<1>3. nx > o
  BY <1>1, <1>2
<1>4. nx + u[nx].size <= BlockSize
  BY <1>1, Ends
<1>5. DOMAIN v = DOMAIN u \ {nx} /\ v[o] = h /\ \A q \in DOMAIN u \ {o, nx} : v[q] = u[q]
  <2>1. (DOMAIN u \ {nx}) \cup {o} = DOMAIN u \ {nx}
    BY <1>3, <1>2
  <2> HIDE DEF nx, h
  <2> QED BY <2>1 DEF Put, Drop
<1>6. h \in Headers /\ h.size = u[o].size + u[nx].size /\ h.next = u[nx].next
  <2>1. u[o].size + u[nx].size \in 1 .. BlockSize
    BY <1>1, <1>2, <1>4
  <2> QED BY <1>1, <1>2, <2>1 DEF Unit, Headers
<1>7. v \in [DOMAIN v -> Headers]
  <2>1. \A q \in DOMAIN v : v[q] \in Headers
    BY <1>2, <1>5, <1>6
  <2> QED BY <2>1 DEF Put
<1>8. Tiled(v)
  <2>1. Tiled(u)
    BY DEF Good
  <2>2. \A a, b \in DOMAIN u : a < b => a + u[a].size <= b
    BY <2>1 DEF Tiled
  <2> HIDE DEF v, h, nx
  <2>3. 0 \in DOMAIN v
    BY <1>1, <1>2, <1>3, <1>5, <2>1 DEF Tiled
  <2>4. ASSUME NEW q \in DOMAIN v
        PROVE  /\ v[q].next = (IF q + v[q].size = BlockSize THEN Null ELSE q + v[q].size)
               /\ v[q].next # Null => v[q].next \in DOMAIN v
    <3>1. CASE q = o
      <4>1. q + v[q].size = nx + u[nx].size
        BY <1>1, <1>2, <1>5, <1>6, <3>1
      <4>2. /\ u[nx].next = (IF nx + u[nx].size = BlockSize THEN Null ELSE nx + u[nx].size)
            /\ u[nx].next # Null => u[nx].next \in DOMAIN u
        BY <1>1, <2>1 DEF Tiled
      <4>3. u[nx].next # nx
        BY <1>1, <1>2, <4>2 DEF Null
      <4> QED BY <1>5, <1>6, <3>1, <4>1, <4>2, <4>3
    <3>2. CASE q # o
      <4>1. q \in DOMAIN u /\ q # nx /\ v[q] = u[q]
        BY <1>5, <3>2
      <4>2. /\ u[q].next = (IF q + u[q].size = BlockSize THEN Null ELSE q + u[q].size)
            /\ u[q].next # Null => u[q].next \in DOMAIN u
        BY <2>1, <4>1 DEF Tiled
      <4>3. u[q].next # nx
        <5>1. CASE q < o
          BY <1>1, <1>2, <1>3, <2>2, <4>1, <4>2, <5>1 DEF Null
        <5>2. CASE q > o
          BY <1>1, <1>2, <2>2, <4>1, <4>2, <5>2 DEF Null
        <5> QED BY <1>2, <3>2, <4>1, <5>1, <5>2
      <4> QED BY <1>5, <4>1, <4>2, <4>3
    <3> QED BY <3>1, <3>2
  <2>5. ASSUME NEW q \in DOMAIN v, NEW x \in DOMAIN v, q < x PROVE q + v[q].size <= x
    <3>1. CASE q = o
      <4>1. o + u[o].size <= x /\ x # nx
        BY <1>5, <2>2, <2>5, <3>1
      <4>2. nx < x
        BY <1>1, <1>2, <1>5, <4>1
      <4>3. nx + u[nx].size <= x
        BY <1>1, <1>5, <2>2, <4>2
      <4> QED BY <1>1, <1>2, <1>5, <1>6, <3>1, <4>3
    <3>2. CASE q # o
      BY <1>5, <2>2, <2>5, <3>2
    <3> QED BY <3>1, <3>2
  <2> QED BY <2>3, <2>4, <2>5 DEF Tiled
<1>9. Good(v)
  BY <1>5, <1>7, <1>8 DEF Good
<1> QED BY <1>1, <1>2, <1>3, <1>5, <1>9 DEF Joint

\* Writing prev of the unit after cur.
LEMMA LinkKeeps ==
  ASSUME NEW u, Good(u), NEW o, NEW p \in Offsets
  PROVE  LET v == Linked(u, o, p)
         IN /\ Good(v) /\ DOMAIN v = DOMAIN u /\ FreeIn(v) = FreeIn(u)
            /\ \A q \in DOMAIN u : v[q].size = u[q].size /\ v[q].next = u[q].next
<1> DEFINE h == Unit(u[o].size, u[o].bfree, p, u[o].next)
<1>1. CASE o \notin DOMAIN u
  BY <1>1 DEF Linked
<1>2. CASE o \in DOMAIN u
  <2>1. u \in [DOMAIN u -> Headers] /\ u[o] \in Headers
    BY <1>2 DEF Good
  <2>2. [u[o] EXCEPT !.prev = p] = h
    BY <2>1 DEF Headers, Unit
  <2>3. h \in Headers /\ h.size = u[o].size /\ h.next = u[o].next /\ h.bfree = u[o].bfree
    BY <2>1 DEF Headers, Unit
  <2>4. Linked(u, o, p) = Put(u, o, h)
    <3>1. Linked(u, o, p) = [u EXCEPT ![o] = h]
      BY <1>2, <2>2 DEF Linked
    <3>2. DOMAIN u \cup {o} = DOMAIN u
      BY <1>2
    <3> HIDE DEF h
    <3> QED BY <1>2, <2>1, <3>1, <3>2 DEF Put
  <2> HIDE DEF h
  <2>5. Good(Put(u, o, h)) /\ DOMAIN Put(u, o, h) = DOMAIN u
    BY <1>2, <2>3, PutKeeps
  <2>6. FreeIn(Put(u, o, h)) = FreeIn(u)
    <3>1. FreeIn(Put(u, o, h)) = IF h.bfree THEN FreeIn(u) \cup {o} ELSE FreeIn(u) \ {o}
      BY FreePut
    <3> QED BY <1>2, <2>3, <3>1 DEF FreeIn
  <2>7. \A q \in DOMAIN u : Put(u, o, h)[q].size = u[q].size /\ Put(u, o, h)[q].next = u[q].next
    BY <1>2, <2>3 DEF Put
  <2> QED BY <2>4, <2>5, <2>6, <2>7
<1> QED BY <1>1, <1>2
-----------------------------------------------------------------------------
(* A block: its units u, the buffers a that callers hold in it, what is     *)
(* given back and not yet marked free, and its free_count_.                 *)

Used(u) == DOMAIN u \ FreeIn(u)

Block(u, a, gone, k) ==
  /\ Good(u)
  /\ k = Cardinality(FreeIn(u))
  /\ a \in [DOMAIN a -> Sizes]
  /\ Used(u) = DOMAIN a \cup gone
  /\ DOMAIN a \cap gone = {}
  /\ \A o \in DOMAIN a : a[o] <= u[o].size

\* One free unit more or less.
LEMMA OneFree ==
  ASSUME NEW u, Good(u)
  PROVE  /\ Cardinality(FreeIn(u)) \in Nat
         /\ \A o \in FreeIn(u) : Cardinality(FreeIn(u) \ {o}) = Cardinality(FreeIn(u)) - 1
         /\ \A o : o \notin FreeIn(u) =>
              Cardinality(FreeIn(u) \cup {o}) = Cardinality(FreeIn(u)) + 1
<1>1. IsFiniteSet(0 .. BlockSize - 1)
  BY FS_Interval, SizeAssumption
<1>2. IsFiniteSet(FreeIn(u))
  BY <1>1, FS_Subset DEF Good, FreeIn, Offsets
<1> QED BY <1>2, FS_CardinalityType, FS_AddElement, FS_RemoveElement

\* The sizes a block's lemmas compute with.
LEMMA Typed ==
  ASSUME NEW u, Good(u)
  PROVE  /\ BlockSize \in Nat \ {0} /\ HeaderSize \in Nat \ {0} /\ Sizes \subseteq Nat \ {0}
         /\ \A o \in DOMAIN u : /\ o \in Offsets /\ o \in 0 .. BlockSize - 1
                               /\ u[o] \in Headers
                               /\ u[o].size \in 1 .. BlockSize /\ u[o].bfree \in BOOLEAN
                               /\ u[o].prev \in Offsets \cup {Null}
                               /\ u[o].next \in Offsets \cup {Null}
BY SizeAssumption DEF Good, Headers, Offsets

\* alloc_buffer and what the caller gets.
LEMMA BlockAlloc ==
  ASSUME NEW u, NEW a, NEW gone, NEW k, Block(u, a, gone, k),
         NEW n \in Sizes, NEW o \in FitIn(u, n)
  PROVE  /\ Block(AllocBuffer(u, o, n), Put(a, o, n), gone, k - Spent(u, o, n))
         /\ DOMAIN u \subseteq DOMAIN AllocBuffer(u, o, n)
<1> DEFINE v == AllocBuffer(u, o, n)
           c == Put(a, o, n)
           need == n + HeaderSize
           rest == o + need
<1>1. Good(u) /\ o \in DOMAIN u /\ o \in FreeIn(u) /\ u[o].bfree /\ u[o].size >= need
  BY DEF Block, FitIn, FreeIn
<1>2. o \notin DOMAIN a /\ o \notin gone /\ Used(u) = DOMAIN a \cup gone
  BY <1>1 DEF Block, Used
<1>3. DOMAIN c = DOMAIN a \cup {o} /\ c[o] = n /\ \A q \in DOMAIN a : c[q] = a[q]
  BY <1>2 DEF Put
<1>4. c \in [DOMAIN c -> Sizes]
  <2>1. \A q \in DOMAIN c : c[q] \in Sizes
    BY <1>3 DEF Block
  <2> QED BY <2>1 DEF Put
<1>5. n \in Nat \ {0} /\ need \in Nat \ {0} /\ u[o].size \in Nat /\ n < need
  BY <1>1, Typed
<1> DEFINE p == IF u[o].prev = o THEN Null ELSE u[o].prev
<1>p. p \in Offsets \cup {Null} /\ o \in Offsets
  BY <1>1, Typed
<1> HIDE DEF p
<1>6. CASE TakesAll(u[o].size, need)
  <2> DEFINE h == Unit(u[o].size, FALSE, p, u[o].next)
  <2>1. v = Put(u, o, h) /\ Spent(u, o, n) = 1
    BY <1>6 DEF AllocBuffer, NeedLength, WriteHead, Spent, p
  <2>2. h \in Headers /\ h.size = u[o].size /\ h.next = u[o].next /\ h.bfree = FALSE
    <3>1. u[o] \in Headers
      BY <1>1, Typed
    <3> QED BY <1>p, <3>1 DEF Headers, Unit
  <2> HIDE DEF v, h, c
  <2>3. Good(v) /\ DOMAIN v = DOMAIN u
    BY <1>1, <2>1, <2>2, PutKeeps
  <2>4. FreeIn(v) = FreeIn(u) \ {o}
    <3>1. FreeIn(Put(u, o, h)) = IF h.bfree THEN FreeIn(u) \cup {o} ELSE FreeIn(u) \ {o}
      BY FreePut
    <3> QED BY <2>1, <2>2, <3>1
  <2>5. k - Spent(u, o, n) = Cardinality(FreeIn(v))
    BY <1>1, <2>1, <2>4, OneFree DEF Block
  <2>6. Used(v) = DOMAIN c \cup gone /\ DOMAIN c \cap gone = {}
    BY <1>1, <1>2, <1>3, <2>3, <2>4 DEF Used, Block
  <2>7. \A q \in DOMAIN c : c[q] <= v[q].size
    <3>1. v[o].size = u[o].size /\ \A q \in DOMAIN u \ {o} : v[q] = u[q]
      BY <1>1, <2>1, <2>2 DEF Put
    <3>2. \A q \in DOMAIN a : q \in DOMAIN u \ {o}
      BY <1>2 DEF Used
    <3> QED BY <1>1, <1>3, <1>5, <3>1, <3>2 DEF Block
  <2> QED BY <1>4, <2>3, <2>5, <2>6, <2>7 DEF Block, v, c
<1>7. CASE ~TakesAll(u[o].size, need)
  <2> DEFINE g == Unit(need, FALSE, p, rest)
             h == Unit(u[o].size - need, TRUE, o, u[o].next)
             w == Put(u, o, g)
  <2>0. rest # o
    BY <1>p, <1>5 DEF Offsets
  <2>1. v = Put(w, rest, h) /\ Spent(u, o, n) = 0
    BY <1>7, <2>0 DEF AllocBuffer, NeedLength, WriteHead, Spent, p
  <2>2. need < u[o].size
    BY <1>5, <1>7, SizeAssumption DEF TakesAll
  <2>3. g.bfree = FALSE /\ h.bfree = TRUE /\ g.size = need
    BY DEF Unit
  <2>5. Good(v) /\ DOMAIN v = DOMAIN u \cup {rest} /\ rest \notin DOMAIN u
    <3>1. v = Cut(u, o, need, FALSE, TRUE, p)
      BY <2>1 DEF Cut
    <3>2. need \in Nat \ {0} /\ need < u[o].size /\ p \in Offsets \cup {Null}
      BY <1>5, <1>p, <2>2
    <3>3. FALSE \in BOOLEAN /\ TRUE \in BOOLEAN
      OBVIOUS
    <3> HIDE DEF need
    <3>4. LET x == Cut(u, o, need, FALSE, TRUE, p)
          IN Good(x) /\ DOMAIN x = DOMAIN u \cup {o + need} /\ o + need \notin DOMAIN u
      BY <1>1, <3>2, <3>3, SplitKeeps, Zenon
    <3> QED BY <3>1, <3>4
  <2> HIDE DEF v, h, g, c, w, rest
  <2>6. FreeIn(w) = FreeIn(u) \ {o} /\ FreeIn(v) = FreeIn(w) \cup {rest}
    <3>1. FreeIn(Put(u, o, g)) = IF g.bfree THEN FreeIn(u) \cup {o} ELSE FreeIn(u) \ {o}
      BY FreePut
    <3>2. FreeIn(Put(w, rest, h)) = IF h.bfree THEN FreeIn(w) \cup {rest} ELSE FreeIn(w) \ {rest}
      BY FreePut
    <3> QED BY <2>1, <2>3, <3>1, <3>2 DEF w
  <2>7. /\ FreeIn(v) = (FreeIn(u) \ {o}) \cup {rest} /\ rest \notin FreeIn(u)
        /\ rest \notin DOMAIN a /\ rest \notin gone /\ rest # o
    BY <1>1, <1>2, <2>5, <2>6 DEF FreeIn, Used
  <2>8. k - Spent(u, o, n) = Cardinality(FreeIn(v))
    <3>1. Cardinality(FreeIn(u) \cup {rest}) = k + 1 /\ k \in Nat
      BY <1>1, <2>7, OneFree DEF Block
    <3>2. IsFiniteSet(FreeIn(u) \cup {rest})
      <4>1. IsFiniteSet(0 .. BlockSize - 1)
        BY FS_Interval, SizeAssumption
      <4>2. FreeIn(u) \cup {rest} \subseteq 0 .. BlockSize - 1
        BY <1>1, <2>5 DEF Good, FreeIn, Offsets
      <4> QED BY <4>1, <4>2, FS_Subset
    <3>3. FreeIn(v) = (FreeIn(u) \cup {rest}) \ {o} /\ o \in FreeIn(u) \cup {rest}
      BY <1>1, <2>7
    <3>4. Cardinality(FreeIn(v)) = (k + 1) - 1
      BY <3>1, <3>2, <3>3, FS_RemoveElement
    <3> QED BY <2>1, <3>1, <3>4
  <2>9. Used(v) = DOMAIN c \cup gone /\ DOMAIN c \cap gone = {}
    <3>1. Used(v) = Used(u) \cup {o}
      BY <1>1, <2>5, <2>7 DEF Used, FreeIn
    <3> QED BY <1>2, <1>3, <3>1 DEF Block
  <2>10. \A q \in DOMAIN c : c[q] <= v[q].size
    <3>1. v[o].size = need /\ \A q \in DOMAIN u \ {o} : v[q] = u[q]
      BY <1>1, <2>1, <2>3, <2>5 DEF Put, w
    <3>2. \A q \in DOMAIN a : q \in DOMAIN u \ {o}
      BY <1>2 DEF Used
    <3> QED BY <1>1, <1>3, <1>5, <3>1, <3>2 DEF Block
  <2> QED BY <1>4, <2>5, <2>8, <2>9, <2>10 DEF Block, v, c
<1> QED BY <1>6, <1>7

\* The caller gives the buffer back: its unit is marked free later.
LEMMA BlockForget ==
  ASSUME NEW u, NEW a, NEW k, Block(u, a, {}, k), NEW o \in DOMAIN a
  PROVE  Block(u, Drop(a, o), {o}, k)
<1> DEFINE c == Drop(a, o)
<1>1. DOMAIN c = DOMAIN a \ {o} /\ \A q \in DOMAIN a \ {o} : c[q] = a[q]
  BY DEF Drop
<1>2. c \in [DOMAIN c -> Sizes]
  <2>1. \A q \in DOMAIN c : c[q] \in Sizes
    BY <1>1 DEF Block
  <2> QED BY <2>1 DEF Drop
<1> HIDE DEF c
<1>3. DOMAIN c \cup {o} = DOMAIN a /\ DOMAIN c \cap {o} = {}
  BY <1>1
<1> QED BY <1>1, <1>2, <1>3 DEF Block, c

\* free_buffer marks it.
LEMMA BlockRelease ==
  ASSUME NEW u, NEW a, NEW o, NEW k, Block(u, a, {o}, k)
  PROVE  LET v == Put(u, o, Unit(u[o].size, TRUE, u[o].prev, u[o].next))
         IN /\ Block(v, a, {}, k + 1) /\ DOMAIN v = DOMAIN u /\ v[o].bfree
            /\ o \in DOMAIN u
<1> DEFINE h == Unit(u[o].size, TRUE, u[o].prev, u[o].next)
           v == Put(u, o, h)
<1>1. /\ Good(u) /\ o \in DOMAIN u /\ o \notin FreeIn(u) /\ o \notin DOMAIN a
      /\ Used(u) = DOMAIN a \cup {o} /\ k = Cardinality(FreeIn(u))
  BY DEF Block, Used
<1>2. h \in Headers /\ h.size = u[o].size /\ h.next = u[o].next /\ h.bfree = TRUE
  <2>1. u[o] \in Headers
    BY <1>1, Typed
  <2> QED BY <2>1 DEF Headers, Unit
<1>3. v[o] = h /\ \A q \in DOMAIN u \ {o} : v[q] = u[q]
  BY <1>1 DEF Put
<1>4. Good(v) /\ DOMAIN v = DOMAIN u
  <2> HIDE DEF h
  <2> QED BY <1>1, <1>2, PutKeeps
<1>5. FreeIn(v) = FreeIn(u) \cup {o}
  <2> HIDE DEF h
  <2>1. FreeIn(Put(u, o, h)) = IF h.bfree THEN FreeIn(u) \cup {o} ELSE FreeIn(u) \ {o}
    BY FreePut
  <2> QED BY <1>2, <2>1
<1> HIDE DEF v, h
<1>6. k + 1 = Cardinality(FreeIn(v))
  BY <1>1, <1>5, OneFree
<1>7. Used(v) = DOMAIN a
  BY <1>1, <1>4, <1>5 DEF Used
<1>8. \A q \in DOMAIN a : a[q] <= v[q].size
  BY <1>1, <1>3 DEF Block, Used
<1>9. Block(v, a, {}, k + 1)
  <2>1. a \in [DOMAIN a -> Sizes]
    BY DEF Block
  <2> QED BY <1>4, <1>6, <1>7, <1>8, <2>1 DEF Block
<1> QED BY <1>1, <1>2, <1>3, <1>4, <1>9 DEF v, h

LEMMA BlockLink ==
  ASSUME NEW u, NEW a, NEW k, Block(u, a, {}, k),
         NEW o, NEW p \in Offsets
  PROVE  Block(Linked(u, o, p), a, {}, k) /\ DOMAIN Linked(u, o, p) = DOMAIN u
<1> DEFINE v == Linked(u, o, p)
<1>1. Good(u) /\ Used(u) = DOMAIN a
  BY DEF Block
<1>2. /\ Good(v) /\ DOMAIN v = DOMAIN u /\ FreeIn(v) = FreeIn(u)
      /\ \A q \in DOMAIN u : v[q].size = u[q].size
  BY <1>1, LinkKeeps
<1> HIDE DEF v
<1>3. Used(v) = Used(u) /\ \A q \in DOMAIN a : q \in DOMAIN u
  BY <1>1, <1>2 DEF Used
<1> QED BY <1>2, <1>3 DEF Block, v

\* A unit takes in a free one after it.
JoinedBlock(u, a, k, o, p) ==
  LET nx == u[o].next
      w  == Joint(u, o, u[o].bfree, p)
  IN /\ Block(w, a, {}, k - 1) /\ DOMAIN w = DOMAIN u \ {nx}
     /\ nx \in DOMAIN u /\ nx # o
     /\ w[o] = Unit(u[o].size + u[nx].size, u[o].bfree, p, u[nx].next)
     /\ FreeIn(w) = FreeIn(u) \ {nx}

LEMMA BlockJoin ==
  ASSUME NEW u, NEW a, NEW k, Block(u, a, {}, k),
         NEW o \in DOMAIN u, FreeNext(u, o),
         NEW p \in Offsets \cup {Null}
  PROVE  JoinedBlock(u, a, k, o, p)
<1> DEFINE nx == u[o].next
           f == u[o].bfree
           h == Unit(u[o].size + u[nx].size, f, p, u[nx].next)
           w == Put(Drop(u, nx), o, h)
<1>1. Good(u) /\ nx # Null /\ u[nx].bfree /\ Used(u) = DOMAIN a
  BY DEF Block, FreeNext
<1>2. f \in BOOLEAN /\ u[o].size \in Nat
  BY <1>1, Typed
<1>3. /\ Good(w) /\ DOMAIN w = DOMAIN u \ {nx} /\ nx \in DOMAIN u /\ nx # o
      /\ w = Joint(u, o, f, p)
  <2>1. w = Joint(u, o, f, p)
    BY DEF Joint
  <2>2. /\ Good(u) /\ o \in DOMAIN u /\ u[o].next # Null
        /\ f \in BOOLEAN /\ p \in Offsets \cup {Null}
    BY <1>1, <1>2
  <2> HIDE DEF w, f, h
  <2>3. /\ Good(Joint(u, o, f, p)) /\ DOMAIN Joint(u, o, f, p) = DOMAIN u \ {u[o].next}
        /\ u[o].next \in DOMAIN u /\ u[o].next # o
    <3>1. Good(Joint(u, o, f, p))
      BY <2>2, JoinKeeps, Zenon
    <3>2. DOMAIN Joint(u, o, f, p) = DOMAIN u \ {u[o].next}
      BY <2>2, JoinKeeps, Zenon
    <3>3. u[o].next \in DOMAIN u /\ u[o].next # o
      BY <2>2, JoinKeeps, ZenonT(30)
    <3> QED BY <3>1, <3>2, <3>3
  <2> QED BY <2>1, <2>3
<1>4. w[o] = h /\ \A q \in DOMAIN u \ {o, nx} : w[q] = u[q]
  <2> HIDE DEF h, nx
  <2> QED BY DEF Put, Drop
<1>5. FreeIn(w) = FreeIn(u) \ {nx}
  <2>1. h.bfree = f
    BY DEF Unit
  <2> HIDE DEF h, nx
  <2>2. FreeIn(Put(Drop(u, nx), o, h))
          = IF h.bfree THEN FreeIn(Drop(u, nx)) \cup {o} ELSE FreeIn(Drop(u, nx)) \ {o}
    BY FreePut
  <2>3. FreeIn(Drop(u, nx)) = FreeIn(u) \ {nx}
    BY FreeDrop
  <2>4. o \in FreeIn(u) <=> f
    BY DEF FreeIn
  <2> QED BY <1>3, <2>1, <2>2, <2>3, <2>4
<1>6. nx \in FreeIn(u) /\ \A q \in DOMAIN a : q \in DOMAIN u \ {nx}
  BY <1>1, <1>3 DEF FreeIn, Used
<1>7. h.size = u[o].size + u[nx].size /\ u[nx].size \in Nat
  BY <1>1, <1>3, Typed DEF Unit
<1> HIDE DEF w, h, nx, f, JoinedBlock
<1>8. Used(w) = Used(u)
  BY <1>3, <1>5, <1>6 DEF Used
<1>9. k - 1 = Cardinality(FreeIn(w))
  BY <1>1, <1>5, <1>6, OneFree DEF Block
<1>10. \A q \in DOMAIN a : a[q] <= w[q].size
  <2>1. ASSUME NEW q \in DOMAIN a PROVE a[q] <= w[q].size
    <3>1. a[q] <= u[q].size /\ a[q] \in Nat
      BY SizeAssumption DEF Block
    <3>2. CASE q = o
      <4>1. w[q].size = u[o].size + u[nx].size
        BY <1>4, <1>7, <3>2
      <4> QED BY <1>2, <1>7, <3>1, <3>2, <4>1
    <3>3. CASE q # o
      BY <1>4, <1>6, <3>1, <3>3
    <3> QED BY <3>2, <3>3
  <2> QED BY <2>1
<1>11. Block(w, a, {}, k - 1)
  <2>1. a \in [DOMAIN a -> Sizes]
    BY DEF Block
  <2> QED BY <1>1, <1>3, <1>8, <1>9, <1>10, <2>1 DEF Block
<1> QED BY <1>3, <1>4, <1>5, <1>11 DEF w, h, nx, f, JoinedBlock

\* i_merge_unit.
LEMMA BlockAbsorb ==
  ASSUME NEW u, NEW a, NEW k, Block(u, a, {}, k), NEW o \in FreeIn(u), FreeNext(u, o)
  PROVE  Block(Joined(u, o), a, {}, k - 1) /\ o \in FreeIn(Joined(u, o))
<1> DEFINE nx == u[o].next
           p == u[o].prev
           w == Joint(u, o, u[o].bfree, p)
<1>1. o \in DOMAIN u /\ o \in Offsets /\ p \in Offsets \cup {Null}
  BY Typed DEF FreeIn, Block
<1> HIDE DEF p
<1>2. Block(w, a, {}, k - 1) /\ nx # o /\ FreeIn(w) = FreeIn(u) \ {nx}
  <2>1. JoinedBlock(u, a, k, o, p)
    BY <1>1, BlockJoin
  <2> QED BY <2>1 DEF JoinedBlock
<1>3. Joined(u, o) = Linked(w, u[nx].next, o)
  BY DEF Joined, Joint, Grown, p
<1> HIDE DEF w, nx
<1>4. Block(Linked(w, u[nx].next, o), a, {}, k - 1)
  BY <1>1, <1>2, BlockLink
<1>5. FreeIn(Linked(w, u[nx].next, o)) = FreeIn(w)
  BY <1>1, <1>2, LinkKeeps DEF Block
<1> QED BY <1>2, <1>3, <1>4, <1>5
-----------------------------------------------------------------------------
(* realloc where the buffer stays.                                          *)

\* Another size for a buffer that has the space.
LEMMA BlockSame ==
  ASSUME NEW u, NEW a, NEW k, Block(u, a, {}, k), NEW o \in DOMAIN a,
         NEW n \in Sizes, n <= u[o].size
  PROVE  Block(u, Put(a, o, n), {}, k)
<1> DEFINE c == Put(a, o, n)
<1>1. DOMAIN c = DOMAIN a /\ c[o] = n /\ \A q \in DOMAIN a \ {o} : c[q] = a[q]
  <2>1. DOMAIN a \cup {o} = DOMAIN a
    OBVIOUS
  <2> QED BY <2>1 DEF Put
<1>2. c \in [DOMAIN c -> Sizes]
  <2>1. \A q \in DOMAIN c : c[q] \in Sizes
    BY <1>1 DEF Block
  <2> QED BY <2>1 DEF Put
<1> HIDE DEF c
<1>3. \A q \in DOMAIN c : c[q] <= u[q].size
  BY <1>1 DEF Block
<1> QED BY <1>1, <1>2, <1>3 DEF Block, c

\* A header written over the one just written.
LEMMA PutTwice ==
  ASSUME NEW f, NEW o, NEW g, NEW h
  PROVE  Put(Put(f, o, g), o, h) = Put(f, o, h)
BY DEF Put

\* realloc_buffer.
LEMMA BlockExtend ==
  ASSUME NEW u, NEW a, NEW k, Block(u, a, {}, k), NEW o \in DOMAIN a, NEW n \in Sizes,
         n > u[o].size, FreeNext(u, o), n <= SizeAble(u, o)
  PROVE  Block(Extended(u, o, n), Put(a, o, n), {},
               IF TakesAll(SizeAble(u, o), n) THEN k - 1 ELSE k)
<1> DEFINE nx == u[o].next
           p == IF u[o].prev = o THEN Null ELSE u[o].prev
           h == Unit(u[o].size + u[nx].size, u[o].bfree, p, u[nx].next)
           w == Joint(u, o, u[o].bfree, p)
           sum == u[o].size + u[nx].size
           v == Extended(u, o, n)
           need == n + HeaderSize
           rest == o + need
<1>1. Good(u) /\ Used(u) = DOMAIN a /\ o \in DOMAIN u /\ ~u[o].bfree
  BY DEF Block, Used, FreeIn
<1>p. p \in Offsets \cup {Null} /\ o \in Offsets
  BY <1>1, Typed
<1> HIDE DEF p
<1>2. /\ Block(w, a, {}, k - 1) /\ DOMAIN w = DOMAIN u \ {nx} /\ nx \in DOMAIN u /\ nx # o
      /\ w[o] = h /\ FreeIn(w) = FreeIn(u) \ {nx}
  <2>1. JoinedBlock(u, a, k, o, p)
    BY <1>1, <1>p, BlockJoin
  <2> QED BY <2>1 DEF JoinedBlock
<1>3. /\ u[o].bfree = FALSE /\ u[o].size \in Nat /\ u[nx].size \in Nat
      /\ HeaderSize \in Nat \ {0} /\ n \in Nat \ {0}
  BY <1>1, <1>2, Typed
<1>4. SizeAble(u, o) = sum - HeaderSize
  BY <1>3 DEF SizeAble
<1>5. w[o].size = sum /\ w[o].next = u[nx].next /\ w[o].bfree = FALSE
  BY <1>2, <1>3 DEF Unit
<1>6. k \in Nat /\ Good(w)
  BY <1>1, <1>2, OneFree DEF Block
<1>7. CASE TakesAll(SizeAble(u, o), n)
  <2>1. SizeAble(u, o) + HeaderSize = sum
    BY <1>3, <1>4
  <2>2. v = Put(Drop(u, nx), o, Unit(sum, FALSE, p, u[nx].next))
    BY <1>7, <2>1 DEF Extended, WriteHead, p
  <2>3. v = w
    BY <1>3, <2>2 DEF Joint
  <2>4. n <= w[o].size
    BY <1>3, <1>4, <1>5
  <2> HIDE DEF v, w
  <2> QED BY <1>2, <1>7, <2>3, <2>4, BlockSame DEF v
<1>8. CASE ~TakesAll(SizeAble(u, o), n)
  <2> DEFINE g == Unit(need, FALSE, p, rest)
             l == Unit(sum - need, TRUE, o, u[nx].next)
  <2>1. need < sum /\ SizeAble(u, o) - n = sum - need /\ need \in Nat \ {0}
    BY <1>3, <1>4, <1>8 DEF TakesAll
  <2>2. v = Put(Put(Drop(u, nx), o, g), rest, l)
    <3>1. rest # o
      BY <1>p, <2>1 DEF Offsets
    <3> QED BY <1>8, <2>1, <3>1 DEF Extended, NeedLength, WriteHead, p
  <2>3. v = Put(Put(w, o, g), rest, l)
    <3>1. Put(w, o, g) = Put(Drop(u, nx), o, g)
      <4>1. w = Put(Drop(u, nx), o, h)
        BY DEF Joint
      <4> HIDE DEF g, h, w
      <4> QED BY <4>1, PutTwice
    <3> QED BY <2>2, <3>1
  <2>4. Good(v) /\ DOMAIN v = DOMAIN w \cup {rest} /\ rest \notin DOMAIN w
    <3>1. o \in DOMAIN w
      BY <1>1, <1>2
    <3>2. need < w[o].size
      BY <1>5, <2>1
    <3>3. v = Cut(w, o, need, FALSE, TRUE, p)
      BY <1>5, <2>3 DEF Cut
    <3>4. p \in Offsets \cup {Null} /\ need \in Nat \ {0} /\ FALSE \in BOOLEAN /\ TRUE \in BOOLEAN
      BY <1>p, <2>1
    <3> HIDE DEF need, w, v
    <3>5. LET x == Cut(w, o, need, FALSE, TRUE, p)
          IN Good(x) /\ DOMAIN x = DOMAIN w \cup {o + need} /\ o + need \notin DOMAIN w
      BY <1>6, <3>1, <3>2, <3>4, SplitKeeps, Zenon
    <3> QED BY <3>3, <3>5
  <2>5. g.bfree = FALSE /\ l.bfree = TRUE /\ g.size = need
    BY DEF Unit
  <2>6. o \in DOMAIN w /\ o \notin FreeIn(w) /\ Used(w) = DOMAIN a
    BY <1>1, <1>2, <1>5 DEF FreeIn, Block
  <2> DEFINE c == Put(a, o, n)
             y == Put(w, o, g)
  <2> HIDE DEF v, w, g, l, rest, need, sum, h, nx, y
  <2>7. FreeIn(v) = FreeIn(w) \cup {rest}
    <3>1. FreeIn(Put(w, o, g)) = IF g.bfree THEN FreeIn(w) \cup {o} ELSE FreeIn(w) \ {o}
      BY FreePut
    <3>2. FreeIn(Put(y, rest, l)) = IF l.bfree THEN FreeIn(y) \cup {rest} ELSE FreeIn(y) \ {rest}
      BY FreePut
    <3> QED BY <2>3, <2>5, <2>6, <3>1, <3>2 DEF y
  <2>8. rest \notin FreeIn(w) /\ rest \notin DOMAIN a /\ rest # o
    BY <2>4, <2>6 DEF FreeIn, Used
  <2>9. k = Cardinality(FreeIn(v))
    <3>1. Cardinality(FreeIn(w)) = k - 1
      BY <1>2 DEF Block
    <3>2. Cardinality(FreeIn(w) \cup {rest}) = Cardinality(FreeIn(w)) + 1
      BY <1>6, <2>8, OneFree
    <3> QED BY <1>6, <2>7, <3>1, <3>2
  <2>10. Used(v) = Used(w)
    BY <2>4, <2>7, <2>8 DEF Used
  <2>11. DOMAIN c = DOMAIN a /\ c[o] = n /\ \A q \in DOMAIN a \ {o} : c[q] = a[q]
    <3>1. DOMAIN a \cup {o} = DOMAIN a
      OBVIOUS
    <3> QED BY <3>1 DEF Put
  <2>12. c \in [DOMAIN c -> Sizes]
    <3>1. \A q \in DOMAIN c : c[q] \in Sizes
      BY <2>11 DEF Block
    <3> QED BY <3>1 DEF Put
  <2>13. \A q \in DOMAIN c : c[q] <= v[q].size
    <3>1. v[o] = g /\ \A q \in DOMAIN w \ {o} : v[q] = w[q]
      BY <2>3, <2>4, <2>6, <2>8 DEF Put
    <3>2. \A q \in DOMAIN a : q \in DOMAIN w /\ a[q] <= w[q].size
      BY <1>2, <2>6 DEF Used, Block
    <3>3. n <= need
      BY <1>3 DEF need
    <3> QED BY <2>5, <2>11, <3>1, <3>2, <3>3
  <2> HIDE DEF c
  <2>14. Block(v, c, {}, k)
    BY <2>4, <2>6, <2>9, <2>10, <2>11, <2>12, <2>13 DEF Block
  <2> QED BY <1>8, <2>14 DEF v, c
<1> QED BY <1>7, <1>8
-----------------------------------------------------------------------------
(* The headers that an absorbed unit left behind: each still says where the *)
(* next unit was, and that its own was free.                                *)

Framed(o, h) ==
  /\ h \in Headers /\ o + h.size <= BlockSize
  /\ h.next = (IF o + h.size = BlockSize THEN Null ELSE o + h.size)

Remains(d) ==
  /\ DOMAIN d \subseteq Offsets
  /\ d \in [DOMAIN d -> Headers]
  /\ \A o \in DOMAIN d : Framed(o, d[o]) /\ d[o].bfree

LEMMA LiveFramed ==
  ASSUME NEW u, Good(u), NEW o \in DOMAIN u
  PROVE  Framed(o, u[o])
BY Ends DEF Good, Tiled, Framed

LEMMA SomeRemain ==
  ASSUME NEW d, Remains(d), NEW S, S \subseteq DOMAIN d
  PROVE  Remains([x \in S |-> d[x]])
BY DEF Remains

LEMMA PutRemains ==
  ASSUME NEW d, Remains(d), NEW o \in Offsets, NEW h, Framed(o, h), h.bfree
  PROVE  Remains(Put(d, o, h))
<1> DEFINE e == Put(d, o, h)
<1>1. DOMAIN e = DOMAIN d \cup {o} /\ e[o] = h /\ \A q \in DOMAIN d \ {o} : e[q] = d[q]
  BY DEF Put
<1>2. \A q \in DOMAIN e : Framed(q, e[q]) /\ e[q].bfree
  BY <1>1 DEF Remains
<1>3. e \in [DOMAIN e -> Headers]
  <2>1. \A q \in DOMAIN e : e[q] \in Headers
    BY <1>2 DEF Framed
  <2> QED BY <2>1 DEF Put
<1>4. DOMAIN e \subseteq Offsets
  BY <1>1 DEF Remains
<1> HIDE DEF e
<1>5. Remains(e)
  BY <1>2, <1>3, <1>4 DEF Remains
<1> QED BY <1>5 DEF e

LEMMA LinkRemains ==
  ASSUME NEW d, Remains(d), NEW o, NEW p \in Offsets
  PROVE  Remains(Linked(d, o, p))
<1>1. CASE o \notin DOMAIN d
  BY <1>1 DEF Linked
<1>2. CASE o \in DOMAIN d
  <2> DEFINE h == [d[o] EXCEPT !.prev = p]
  <2>1. Framed(o, d[o]) /\ d[o].bfree /\ o \in Offsets /\ d \in [DOMAIN d -> Headers]
    BY <1>2 DEF Remains
  <2>2. h \in Headers /\ h.size = d[o].size /\ h.next = d[o].next /\ h.bfree = d[o].bfree
    BY <2>1 DEF Framed, Headers
  <2>3. Linked(d, o, p) = [d EXCEPT ![o] = h]
    BY <1>2 DEF Linked
  <2> HIDE DEF h
  <2>4. Framed(o, h) /\ h.bfree
    BY <2>1, <2>2 DEF Framed
  <2>5. [d EXCEPT ![o] = h] = Put(d, o, h)
    <3>1. DOMAIN d \cup {o} = DOMAIN d
      BY <1>2
    <3> QED BY <1>2, <2>1, <3>1 DEF Put
  <2>6. Remains(Put(d, o, h))
    BY <2>1, <2>4, PutRemains
  <2> QED BY <2>3, <2>5, <2>6
<1> QED BY <1>1, <1>2

\* A free unit of the list is absorbed.
LEMMA BuryRemains ==
  ASSUME NEW d, Remains(d), NEW u, Good(u), NEW o \in DOMAIN u, FreeNext(u, o)
  PROVE  Remains(Buried(d, u, o))
<1>1. u[o].next \in DOMAIN u /\ u[u[o].next].bfree
  BY DEF FreeNext, Good, Tiled
<1>2. u[o].next \in Offsets /\ Framed(u[o].next, u[u[o].next])
  BY <1>1, LiveFramed DEF Good
<1> QED BY <1>1, <1>2, PutRemains DEF Buried

\* An absorbed header that takes in what is after it.
LEMMA GrowFramed ==
  ASSUME NEW m, NEW o \in DOMAIN m, m[o].next \in DOMAIN m, DOMAIN m \subseteq Offsets,
         m[o].next # Null, m[o].bfree, Framed(o, m[o]), Framed(m[o].next, m[m[o].next])
  PROVE  Framed(o, Grown(m, o)) /\ Grown(m, o).bfree
<1> DEFINE nx == m[o].next
           g == Grown(m, o)
<1>1. /\ BlockSize \in Nat /\ o \in 0 .. BlockSize - 1 /\ nx \in 0 .. BlockSize - 1
      /\ m[o] \in Headers /\ m[nx] \in Headers
  BY SizeAssumption DEF Framed, Offsets
<1>2. m[o].size \in 1 .. BlockSize /\ m[nx].size \in 1 .. BlockSize /\ nx = o + m[o].size
  BY <1>1 DEF Framed, Headers
<1>3. /\ g.size = m[o].size + m[nx].size /\ g.next = m[nx].next /\ g.bfree = m[o].bfree
      /\ g = Unit(m[o].size + m[nx].size, m[o].bfree, m[o].prev, m[nx].next)
  BY DEF Grown, Unit
<1>4. /\ o + (m[o].size + m[nx].size) = nx + m[nx].size
      /\ nx + m[nx].size <= BlockSize
      /\ m[nx].next = (IF nx + m[nx].size = BlockSize THEN Null ELSE nx + m[nx].size)
  BY <1>1, <1>2 DEF Framed
<1>5. m[o].size + m[nx].size \in 1 .. BlockSize
  BY <1>1, <1>2, <1>4
<1>6. g \in Headers
  BY <1>1, <1>3, <1>5 DEF Headers, Unit
<1> HIDE DEF g, nx
<1>7. Framed(o, g)
  BY <1>3, <1>4, <1>6 DEF Framed
<1> QED BY <1>3, <1>7 DEF g
-----------------------------------------------------------------------------
(* The inductive invariant: every block is sound, the loops of              *)
(* i_merge_unit stand on a unit that is free if it is on the list, and a    *)
(* block that the list does not have yet is as i_init leaves it.            *)

\* What the caller has given back and free_buffer has not marked yet.
Gone(b) == IF pc = "release" /\ CurBlock = b THEN {cur[2]} ELSE {}

\* free_count_, had no merge begun at an absorbed header.
Total(b) == free_count[b] + lost[b]

Control ==
  /\ count \in 0 .. MaxBlocks
  /\ pc \in {"idle", "release", "walk", "absorb"}
  /\ cur \in Blocks \X Offsets
  /\ ended \in {"no", "overwritten", "overrun", "null next", "uninit"}

Stores ==
  /\ unit = [b \in Blocks |-> unit[b]]
  /\ asked = [b \in Blocks |-> asked[b]]
  /\ free_count \in [Blocks -> Int] /\ lost \in [Blocks -> Nat]
  /\ buf_block_map \subseteq Blocks \X Offsets

Leftovers ==
  /\ dead = [b \in Blocks |-> dead[b]]
  /\ \A b \in Blocks : Remains(dead[b])

Sound == \A b \in Blocks : Block(unit[b], asked[b], Gone(b), Total(b))
Known == \A b \in Blocks : \A o \in DOMAIN asked[b] : <<b, o>> \in buf_block_map

CurIn ==
  pc # "idle" =>
    /\ CurBlock <= count
    /\ pc = "release" => cur[2] \in DOMAIN Units
    /\ pc # "release" /\ cur[2] \in DOMAIN Units => Units[cur[2]].bfree

Unused == \A b \in Blocks : b > count => unit[b] = Fresh

PInv == Control /\ Stores /\ Leftovers /\ Sound /\ Known /\ CurIn /\ Unused

\* A block as i_init leaves it: one free unit.
LEMMA FreshFacts ==
  /\ 0 \in Offsets /\ DOMAIN Fresh = {0} /\ Fresh[0] = Unit(BlockSize, TRUE, Null, Null)
  /\ FreeIn(Fresh) = {0} /\ Used(Fresh) = {} /\ Good(Fresh)
<1>1. 0 \in Offsets /\ BlockSize \in 1 .. BlockSize
  BY SizeAssumption DEF Offsets
<1>2. DOMAIN Fresh = {0} /\ Fresh[0] = Unit(BlockSize, TRUE, Null, Null)
  BY DEF Fresh
<1>3. /\ Fresh[0].size = BlockSize /\ Fresh[0].bfree = TRUE
      /\ Fresh[0].prev = Null /\ Fresh[0].next = Null
  BY <1>2 DEF Unit
<1>4. FreeIn(Fresh) = {0} /\ Used(Fresh) = {}
  BY <1>2, <1>3 DEF FreeIn, Used
<1>5. Fresh \in [DOMAIN Fresh -> Headers]
  <2>1. Fresh[0] \in Headers
    BY <1>1, <1>2 DEF Unit, Headers
  <2> QED BY <1>2, <2>1 DEF Fresh
<1>6. Tiled(Fresh)
  <2>1. \A o \in DOMAIN Fresh : o = 0
    BY <1>2
  <2>2. 0 + Fresh[0].size = BlockSize /\ ~(0 < 0)
    BY <1>1, <1>3
  <2> QED BY <1>2, <1>3, <2>1, <2>2 DEF Tiled
<1> QED BY <1>1, <1>2, <1>4, <1>5, <1>6 DEF Good

LEMMA FreshBlock ==
  Block(Fresh, [o \in {} |-> 0], {}, 1)
<1>1. Cardinality({0}) = 1
  BY FS_Singleton
<1> QED BY <1>1, FreshFacts DEF Block

LEMMA InitPInv ==
  Init => PInv
<1> SUFFICES ASSUME Init PROVE PInv
  OBVIOUS
<1>1. Control
  BY SizeAssumption DEF Init, Control, Blocks, Offsets
<1>2. Stores
  BY DEF Init, Stores
<1>3. Sound
  <2>1. ASSUME NEW b \in Blocks
        PROVE  unit[b] = Fresh /\ asked[b] = [o \in {} |-> 0] /\ Gone(b) = {} /\ Total(b) = 1
    BY DEF Init, Gone, Total
  <2> QED BY <2>1, FreshBlock DEF Sound
<1>4. Known /\ CurIn /\ Unused
  BY DEF Init, Known, CurIn, Unused
<1>5. Leftovers
  <2>1. Remains([o \in {} |-> 0])
    BY DEF Remains
  <2> QED BY <2>1 DEF Init, Leftovers
<1> QED BY <1>1, <1>2, <1>3, <1>4, <1>5 DEF PInv
-----------------------------------------------------------------------------
(* The part of alloc and realloc that takes a unit.                         *)

\* The unit at o of block b is taken for n bytes.
Giving(n, b, o) ==
  /\ b \in Blocks /\ b <= count' /\ count' \in 0 .. MaxBlocks /\ count <= count'
  /\ o \in FitIn(unit[b], n)
  /\ Carve(b, unit[b], o, n)

LEMMA FoundGives ==
  ASSUME PInv, NEW n \in Sizes, NEW b \in Blocks, NEW o \in Offsets, AllocFound(n, b, o)
  PROVE  Giving(n, b, o)
<1>1. b <= count /\ o \in FitIn(unit[b], n) /\ Carve(b, unit[b], o, n) /\ count' = count
  BY DEF AllocFound, Tried, BestMatch
<1>2. count \in 0 .. MaxBlocks
  BY DEF PInv, Control
<1> QED BY <1>1, <1>2 DEF Giving

LEMMA NewGives ==
  ASSUME PInv, NEW n \in Sizes, NEW b \in Blocks, AllocNew(n, b)
  PROVE  Giving(n, b, 0)
<1>1. /\ b = count + 1 /\ b <= MaxBlocks /\ count' = b
      /\ n + HeaderSize <= BlockSize /\ Carve(b, Fresh, 0, n)
  BY DEF AllocNew
<1>2. count \in 0 .. MaxBlocks /\ MaxBlocks \in Nat
  BY SizeAssumption DEF PInv, Control
<1>3. unit[b] = Fresh
  BY <1>1, <1>2 DEF PInv, Unused
<1>4. 0 \in FitIn(Fresh, n)
  <2>1. Fresh[0].size = BlockSize
    BY FreshFacts DEF Unit
  <2> QED BY <1>1, <2>1, FreshFacts DEF FitIn
<1> QED BY <1>1, <1>2, <1>3, <1>4 DEF Giving

\* The blocks stay sound, whatever callers hold (a) and give back (gone).
LEMMA GivenBlocks ==
  ASSUME PInv, NEW n \in Sizes, NEW b, NEW o, Giving(n, b, o),
         NEW a, a = [x \in Blocks |-> a[x]], NEW gone,
         \A x \in Blocks : Block(unit[x], a[x], gone[x], Total(x))
  PROVE  LET c == [a EXCEPT ![b] = Put(@, o, n)]
         IN /\ \A x \in Blocks : Block(unit'[x], c[x], gone[x], Total(x)')
            /\ \A x \in Blocks : DOMAIN unit[x] \subseteq DOMAIN unit'[x]
            /\ o \in Offsets
<1> DEFINE c == [a EXCEPT ![b] = Put(@, o, n)]
<1>1. /\ b \in Blocks /\ o \in FitIn(unit[b], n)
      /\ unit' = [unit EXCEPT ![b] = AllocBuffer(unit[b], o, n)]
      /\ free_count' = [free_count EXCEPT ![b] = @ - Spent(unit[b], o, n)]
      /\ lost' = lost
  BY DEF Giving, Carve
<1>2. /\ unit = [x \in Blocks |-> unit[x]]
      /\ free_count \in [Blocks -> Int] /\ lost \in [Blocks -> Nat]
  BY DEF PInv, Stores
<1>3. unit'[b] = AllocBuffer(unit[b], o, n) /\ c[b] = Put(a[b], o, n)
  BY <1>1, <1>2
<1>4. \A x \in Blocks \ {b} : unit'[x] = unit[x] /\ c[x] = a[x]
  BY <1>1, <1>2
<1>5. Spent(unit[b], o, n) \in Int
  BY DEF Spent
<1>6. Total(b)' = Total(b) - Spent(unit[b], o, n) /\ \A x \in Blocks \ {b} : Total(x)' = Total(x)
  <2>1. free_count[b] \in Int /\ lost[b] \in Int
    BY <1>1, <1>2
  <2>2. free_count'[b] = free_count[b] - Spent(unit[b], o, n)
    BY <1>1, <1>2
  <2>3. \A x \in Blocks \ {b} : free_count'[x] = free_count[x]
    BY <1>1, <1>2
  <2> QED BY <1>1, <1>5, <2>1, <2>2, <2>3 DEF Total
<1> HIDE DEF c
<1>7. Block(unit'[b], c[b], gone[b], Total(b)') /\ DOMAIN unit[b] \subseteq DOMAIN unit'[b]
  <2>1. Block(unit[b], a[b], gone[b], Total(b))
    BY <1>1
  <2>2. /\ Block(AllocBuffer(unit[b], o, n), Put(a[b], o, n), gone[b],
                 Total(b) - Spent(unit[b], o, n))
        /\ DOMAIN unit[b] \subseteq DOMAIN AllocBuffer(unit[b], o, n)
    BY <1>1, <2>1, BlockAlloc
  <2> QED BY <1>3, <1>6, <2>2
<1>8. o \in Offsets
  BY <1>1 DEF FitIn, FreeIn, Block, Good
<1> QED BY <1>4, <1>6, <1>7, <1>8 DEF c

\* What is left of the absorbed headers of a block.
LEMMA PartRemains ==
  ASSUME NEW d, Remains(d)
  PROVE  /\ \A u : Remains(Left(d, u))
         /\ \A f, e : Remains(Wiped(d, f, e))
         /\ \A o : Remains(Drop(d, o))
<1>1. ASSUME NEW u PROVE Remains(Left(d, u))
  <2> DEFINE S == {y \in DOMAIN d : \A o \in DOMAIN u : Clear(y, o, o + HeaderSize)}
  <2>1. Left(d, u) = [x \in S |-> d[x]] /\ S \subseteq DOMAIN d
    BY DEF Left
  <2> HIDE DEF S
  <2> QED BY <2>1, SomeRemain
<1>2. ASSUME NEW f, NEW e PROVE Remains(Wiped(d, f, e))
  <2> DEFINE S == {y \in DOMAIN d : Clear(y, f, e)}
  <2>1. Wiped(d, f, e) = [x \in S |-> d[x]] /\ S \subseteq DOMAIN d
    BY DEF Wiped
  <2> HIDE DEF S
  <2> QED BY <2>1, SomeRemain
<1>3. ASSUME NEW o PROVE Remains(Drop(d, o))
  <2> DEFINE S == DOMAIN d \ {o}
  <2>1. Drop(d, o) = [x \in S |-> d[x]] /\ S \subseteq DOMAIN d
    BY DEF Drop
  <2> HIDE DEF S
  <2> QED BY <2>1, SomeRemain
<1> QED BY <1>1, <1>2, <1>3

LEMMA WornRemains ==
  ASSUME PInv, NEW b \in Blocks
  PROVE  Remains(Worn(b)) /\ \A f, e : Remains(Wiped(Worn(b), f, e))
<1>1. Remains(dead[b])
  BY DEF PInv, Leftovers
<1>2. Remains(Worn(b))
  BY <1>1, PartRemains DEF Worn
<1> QED BY <1>2, PartRemains

\* A step that changes the absorbed headers of one block.
LEMMA OneDead ==
  ASSUME PInv, NEW b \in Blocks, NEW d, Remains(d), dead' = [dead EXCEPT ![b] = d]
  PROVE  Leftovers'
BY DEF PInv, Leftovers
-----------------------------------------------------------------------------
(* The steps.                                                               *)

LEMMA Counts ==
  ASSUME PInv
  PROVE  count \in Nat /\ MaxBlocks \in Nat /\ count <= MaxBlocks /\ Blocks \subseteq Nat
<1>1. count \in 0 .. MaxBlocks
  BY DEF PInv, Control
<1>2. MaxBlocks \in Nat
  BY SizeAssumption
<1> QED BY <1>1, <1>2 DEF Blocks

LEMMA CurType ==
  ASSUME PInv
  PROVE  CurBlock \in Blocks /\ cur[2] \in Offsets /\ cur = <<CurBlock, cur[2]>>
<1>1. cur \in Blocks \X Offsets
  BY DEF PInv, Control
<1> QED BY <1>1 DEF CurBlock

\* What a call that takes a unit does to the rest of the state.
LEMMA GivingRest ==
  ASSUME PInv, NEW n \in Sizes, NEW b, NEW o, Giving(n, b, o)
  PROVE  /\ Unused' /\ count' \in 0 .. MaxBlocks /\ count <= count'
         /\ unit' = [x \in Blocks |-> unit'[x]]
         /\ free_count' \in [Blocks -> Int] /\ lost' \in [Blocks -> Nat]
         /\ buf_block_map' = buf_block_map \cup {<<b, o>>}
         /\ b \in Blocks
<1>1. /\ b \in Blocks /\ b <= count' /\ count' \in 0 .. MaxBlocks /\ count <= count'
      /\ unit' = [unit EXCEPT ![b] = AllocBuffer(unit[b], o, n)]
      /\ free_count' = [free_count EXCEPT ![b] = @ - Spent(unit[b], o, n)]
      /\ buf_block_map' = buf_block_map \cup {<<b, o>>} /\ lost' = lost
  BY DEF Giving, Carve
<1>2. /\ unit = [x \in Blocks |-> unit[x]] /\ count \in Nat
      /\ free_count \in [Blocks -> Int] /\ lost \in [Blocks -> Nat]
  BY Counts DEF PInv, Stores
<1>3. unit' = [x \in Blocks |-> unit'[x]]
  BY <1>1, <1>2
<1>5. free_count' \in [Blocks -> Int] /\ lost' \in [Blocks -> Nat]
  <2>1. Spent(unit[b], o, n) \in Int
    BY DEF Spent
  <2> QED BY <1>1, <1>2, <2>1
<1>4. Unused'
  <2>1. ASSUME NEW x \in Blocks, x > count' PROVE unit'[x] = Fresh
    <3>1. x # b /\ x > count
      BY <1>1, <1>2, <2>1 DEF Blocks
    <3>2. unit[x] = Fresh
      BY <3>1 DEF PInv, Unused
    <3> QED BY <1>1, <1>2, <3>1, <3>2
  <2> QED BY <2>1 DEF Unused
<1> QED BY <1>1, <1>3, <1>4, <1>5

\* Where no buffer is being given back.
LEMMA Quiet ==
  ASSUME PInv, pc # "release"
  PROVE  \A x \in Blocks : Block(unit[x], asked[x], {}, Total(x))
BY DEF PInv, Sound, Gone

\* A call that takes a unit and gives none back.
LEMMA AllocPInv ==
  ASSUME PInv, pc = "idle", NEW n \in Sizes, NEW b, NEW o,
         Giving(n, b, o), Lend(b, o, n), UNCHANGED <<callVars, ended>>, Leftovers'
  PROVE  PInv'
<1>1. /\ Unused' /\ count' \in 0 .. MaxBlocks
      /\ unit' = [x \in Blocks |-> unit'[x]]
      /\ free_count' \in [Blocks -> Int] /\ lost' \in [Blocks -> Nat]
      /\ buf_block_map' = buf_block_map \cup {<<b, o>>}
      /\ b \in Blocks
  BY GivingRest
<1>2. asked' = [asked EXCEPT ![b] = Put(@, o, n)] /\ asked = [x \in Blocks |-> asked[x]]
  BY DEF Lend, PInv, Stores
<1>3. pc' = pc /\ cur' = cur /\ ended' = ended
  BY DEF callVars
<1> DEFINE gone == [x \in Blocks |-> {}]
<1>4. \A x \in Blocks : Block(unit[x], asked[x], gone[x], Total(x))
  BY Quiet
<1>5. /\ \A x \in Blocks : Block(unit'[x], asked'[x], gone[x], Total(x)')
      /\ o \in Offsets
  <2> DEFINE c == [asked EXCEPT ![b] = Put(@, o, n)]
  <2>1. asked' = c
    BY <1>2
  <2> HIDE DEF gone
  <2>2. /\ \A x \in Blocks : Block(unit'[x], c[x], gone[x], Total(x)')
        /\ o \in Offsets
    BY <1>2, <1>4, GivenBlocks, SMTT(30)
  <2> QED BY <2>1, <2>2
<1>6. Control'
  BY <1>1, <1>3 DEF PInv, Control
<1>7. Stores'
  BY <1>1, <1>2, <1>5 DEF PInv, Stores
<1>8. Sound'
  <2>1. \A x \in Blocks : Gone(x)' = {}
    BY <1>3 DEF Gone
  <2> QED BY <1>5, <2>1 DEF Sound
<1>9. Known'
  <2>1. ASSUME NEW x \in Blocks, NEW q \in DOMAIN asked'[x] PROVE <<x, q>> \in buf_block_map'
    <3>1. q \in DOMAIN asked[x] \/ (x = b /\ q = o)
      BY <1>1, <1>2, <2>1 DEF Put
    <3> QED BY <1>1, <3>1 DEF PInv, Known
  <2> QED BY <2>1 DEF Known
<1>10. CurIn'
  BY <1>3 DEF CurIn
<1> QED BY <1>1, <1>6, <1>7, <1>8, <1>9, <1>10 DEF PInv

LEMMA AllocKeeps ==
  ASSUME PInv, NEW n \in Sizes, Alloc(n)
  PROVE  PInv'
<1>1. pc = "idle" /\ UNCHANGED <<callVars, ended>>
  BY DEF Alloc
<1>2. CASE \E b \in Blocks, o \in Offsets : /\ AllocFound(n, b, o) /\ Lend(b, o, n)
                                              /\ dead' = [dead EXCEPT ![b] = Worn(b)]
  <2>1. PICK b \in Blocks, o \in Offsets : /\ AllocFound(n, b, o) /\ Lend(b, o, n)
                                          /\ dead' = [dead EXCEPT ![b] = Worn(b)]
    BY <1>2
  <2>2. Leftovers'
    <3> DEFINE d == Worn(b)
    <3>1. Remains(d) /\ dead' = [dead EXCEPT ![b] = d]
      BY <2>1, WornRemains
    <3> HIDE DEF d
    <3> QED BY <3>1, OneDead
  <2> QED BY <1>1, <2>1, <2>2, FoundGives, AllocPInv
<1>3. CASE \E b \in Blocks : /\ AllocNew(n, b) /\ Lend(b, 0, n)
                               /\ dead' = [dead EXCEPT ![b] = Worn(b)]
  <2>1. PICK b \in Blocks : /\ AllocNew(n, b) /\ Lend(b, 0, n)
                           /\ dead' = [dead EXCEPT ![b] = Worn(b)]
    BY <1>3
  <2>2. Leftovers'
    <3> DEFINE d == Worn(b)
    <3>1. Remains(d) /\ dead' = [dead EXCEPT ![b] = d]
      BY <2>1, WornRemains
    <3> HIDE DEF d
    <3> QED BY <3>1, OneDead
  <2> QED BY <1>1, <2>1, <2>2, NewGives, AllocPInv
<1>4. CASE AllocFails(n) /\ UNCHANGED <<asked, dead>>
  <2>1. count' = count + 1 /\ count' \in 0 .. MaxBlocks
    BY <1>4, Counts DEF AllocFails
  <2>2. UNCHANGED <<unit, dead, free_count, lost, buf_block_map, asked, pc, cur, ended>>
    BY <1>1, <1>4 DEF AllocFails, callVars
  <2>3. Unused'
    <3>1. \A b \in Blocks : b > count' => b > count
      BY <2>1, Counts
    <3> QED BY <2>2, <3>1 DEF PInv, Unused
  <2>4. Sound' /\ Known' /\ Stores' /\ Leftovers'
    BY <2>2 DEF PInv, Sound, Gone, Total, CurBlock, Known, Stores, Leftovers
  <2>5. Control'
    BY <2>1, <2>2 DEF PInv, Control
  <2>6. CurIn'
    BY <1>1, <2>2 DEF CurIn
  <2> QED BY <2>3, <2>4, <2>5, <2>6 DEF PInv
<1> QED BY <1>2, <1>3, <1>4 DEF Alloc

\* What a caller holds lies in a block that the list has.
LEMMA HeldFacts ==
  ASSUME PInv, NEW b, NEW o, Held(b, o)
  PROVE  /\ b \in Blocks /\ o \in DOMAIN asked[b] /\ o \in Offsets
         /\ o \in DOMAIN unit[b] /\ b <= count /\ Good(unit[b])
<1>1. b \in Blocks /\ o \in DOMAIN asked[b]
  BY DEF Held
<1>2. Good(unit[b]) /\ o \in Used(unit[b])
  BY <1>1 DEF PInv, Sound, Block
<1>3. ~(b > count)
  BY <1>1, <1>2, FreshFacts DEF PInv, Unused
<1>4. o \in DOMAIN unit[b] /\ o \in Offsets
  BY <1>2 DEF Used, Good
<1> QED BY <1>1, <1>2, <1>3, <1>4, Counts

\* A step that changes one block of the list and gives nothing back.
LEMMA OneBlock ==
  ASSUME PInv, NEW b \in Blocks, b <= count, NEW v, NEW c, NEW k \in Int, NEW l \in Nat,
         unit' = [unit EXCEPT ![b] = v], asked' = [asked EXCEPT ![b] = c],
         free_count' = [free_count EXCEPT ![b] = k], lost' = [lost EXCEPT ![b] = l],
         UNCHANGED <<count, buf_block_map>>,
         Block(v, c, {}, k + l), DOMAIN c = DOMAIN asked[b],
         \A x \in Blocks \ {b} : Gone(x) = {},
         pc' # "release", Control', CurIn', Leftovers'
  PROVE  PInv'
<1>1. /\ unit = [x \in Blocks |-> unit[x]] /\ asked = [x \in Blocks |-> asked[x]]
      /\ free_count \in [Blocks -> Int] /\ lost \in [Blocks -> Nat]
  BY DEF PInv, Stores
<1>2. unit'[b] = v /\ asked'[b] = c /\ Total(b)' = k + l
  BY <1>1 DEF Total
<1>3. \A x \in Blocks \ {b} : unit'[x] = unit[x] /\ asked'[x] = asked[x]
  BY <1>1
<1>4. \A x \in Blocks \ {b} : Total(x)' = Total(x)
  BY <1>1 DEF Total
<1>5. Stores'
  <2>1. unit' = [x \in Blocks |-> unit'[x]] /\ asked' = [x \in Blocks |-> asked'[x]]
    BY <1>1
  <2>2. free_count' \in [Blocks -> Int] /\ lost' \in [Blocks -> Nat]
    BY <1>1
  <2> QED BY <2>1, <2>2 DEF Stores, PInv
<1>6. Sound'
  <2>1. \A x \in Blocks : Gone(x)' = {}
    BY DEF Gone
  <2>2. \A x \in Blocks \ {b} : Block(unit[x], asked[x], {}, Total(x))
    BY DEF PInv, Sound
  <2> QED BY <1>2, <1>3, <1>4, <2>1, <2>2 DEF Sound
<1>7. Known'
  BY <1>2, <1>3 DEF PInv, Known
<1>8. Unused'
  <2>1. \A x \in Blocks : x > count => x # b
    BY Counts
  <2> QED BY <1>3, <2>1 DEF PInv, Unused
<1> QED BY <1>5, <1>6, <1>7, <1>8 DEF PInv

LEMMA FreeKeeps ==
  ASSUME PInv, NEW b \in Blocks, NEW o \in Offsets, Free(b, o)
  PROVE  PInv'
<1>1. /\ pc = "idle" /\ Held(b, o) /\ pc' = "release" /\ cur' = <<b, o>>
      /\ buf_block_map' = buf_block_map \ {<<b, o>>}
      /\ asked' = [asked EXCEPT ![b] = Drop(@, o)]
      /\ unit' = unit /\ free_count' = free_count /\ count' = count
      /\ dead' = dead /\ lost' = lost /\ ended' = ended
  BY DEF Free, Forget, listVars
<1>2. /\ o \in DOMAIN asked[b] /\ o \in DOMAIN unit[b] /\ b <= count
  BY <1>1, HeldFacts
<1>3. asked = [x \in Blocks |-> asked[x]]
  BY DEF PInv, Stores
<1>4. asked'[b] = Drop(asked[b], o) /\ \A x \in Blocks \ {b} : asked'[x] = asked[x]
  BY <1>1, <1>3
<1>5. Control'
  BY <1>1 DEF PInv, Control
<1>6. Stores'
  BY <1>1, <1>3 DEF PInv, Stores
<1>7. Sound'
  <2>1. Gone(b)' = {o} /\ \A x \in Blocks \ {b} : Gone(x)' = {}
    BY <1>1 DEF Gone, CurBlock
  <2>2. \A x \in Blocks : Block(unit[x], asked[x], {}, Total(x))
    BY <1>1, Quiet
  <2>3. Block(unit[b], Drop(asked[b], o), {o}, Total(b))
    BY <1>2, <2>2, BlockForget
  <2>4. \A x \in Blocks : Total(x)' = Total(x)
    BY <1>1 DEF Total
  <2> QED BY <1>1, <1>4, <2>1, <2>2, <2>3, <2>4 DEF Sound
<1>8. Known'
  <2>1. \A q \in DOMAIN asked'[b] : q \in DOMAIN asked[b] /\ q # o
    BY <1>4 DEF Drop
  <2> QED BY <1>1, <1>4, <2>1 DEF PInv, Known
<1>9. CurIn' /\ Unused' /\ Leftovers'
  BY <1>1, <1>2 DEF PInv, Unused, Leftovers, CurIn, CurBlock, Units
<1> QED BY <1>5, <1>6, <1>7, <1>8, <1>9 DEF PInv

\* What a step reads of one block.
LEMMA BlockTypes ==
  ASSUME PInv, NEW b \in Blocks
  PROVE  /\ unit = [x \in Blocks |-> unit[x]] /\ asked = [x \in Blocks |-> asked[x]]
         /\ dead = [x \in Blocks |-> dead[x]] /\ Remains(dead[b])
         /\ free_count \in [Blocks -> Int] /\ lost \in [Blocks -> Nat]
         /\ free_count[b] \in Int /\ lost[b] \in Nat /\ Total(b) = free_count[b] + lost[b]
BY DEF PInv, Stores, Leftovers, Total

LEMMA ReleaseKeeps ==
  ASSUME PInv, Release
  PROVE  PInv'
<1> DEFINE b == CurBlock
           o == cur[2]
           v == Put(unit[b], o, Unit(unit[b][o].size, TRUE, unit[b][o].prev, unit[b][o].next))
<1>1. /\ pc = "release"
      /\ unit' = [unit EXCEPT
           ![b] = Put(@, o, Unit(Units[o].size, TRUE, Units[o].prev, Units[o].next))]
      /\ free_count' = [free_count EXCEPT ![b] = @ + 1]
      /\ pc' \in {"idle", "walk"}
      /\ UNCHANGED <<count, dead, lost, buf_block_map, asked, cur, ended>>
  BY DEF Release
<1>2. b \in Blocks /\ o \in Offsets /\ cur = <<b, o>>
  BY CurType
<1>3. b <= count /\ \A x \in Blocks \ {b} : Gone(x) = {}
  BY <1>1 DEF PInv, CurIn, Gone
<1>4. Block(unit[b], asked[b], {o}, Total(b))
  BY <1>1, <1>2 DEF PInv, Sound, Gone
<1>5. Block(v, asked[b], {}, Total(b) + 1) /\ DOMAIN v = DOMAIN unit[b] /\ v[o].bfree
      /\ o \in DOMAIN unit[b]
  BY <1>4, BlockRelease
<1>6. /\ unit = [x \in Blocks |-> unit[x]] /\ asked = [x \in Blocks |-> asked[x]]
      /\ free_count \in [Blocks -> Int] /\ lost \in [Blocks -> Nat]
      /\ free_count[b] \in Int /\ lost[b] \in Nat /\ Total(b) = free_count[b] + lost[b]
  BY <1>2, BlockTypes
<1>7. /\ unit' = [unit EXCEPT ![b] = v] /\ unit'[b] = v
      /\ asked' = [asked EXCEPT ![b] = asked[b]] /\ lost' = [lost EXCEPT ![b] = lost[b]]
  BY <1>1, <1>2, <1>6 DEF Units
<1> DEFINE k == free_count[b] + 1
           l == lost[b]
<1>8. k \in Int /\ l \in Nat /\ free_count' = [free_count EXCEPT ![b] = k] /\ Total(b) + 1 = k + l
  BY <1>1, <1>6
<1>9. Control' /\ Leftovers'
  BY <1>1 DEF PInv, Control, Leftovers
<1>10. CurIn'
  <2>1. count' = count /\ cur' = cur /\ pc' # "release"
    BY <1>1
  <2> HIDE DEF v
  <2> QED BY <1>3, <1>5, <1>7, <2>1 DEF CurIn, CurBlock, Units
<1>11. pc' # "release" /\ UNCHANGED <<count, buf_block_map>>
  BY <1>1
<1>12. Block(v, asked[b], {}, k + l)
  BY <1>5, <1>8
<1> DEFINE c == asked[b]
<1>13. /\ asked' = [asked EXCEPT ![b] = c] /\ lost' = [lost EXCEPT ![b] = l]
       /\ Block(v, c, {}, k + l) /\ DOMAIN c = DOMAIN asked[b]
  BY <1>7, <1>12
<1> HIDE DEF v, b, o, k, l, c
<1> QED BY <1>2, <1>3, <1>7, <1>8, <1>9, <1>10, <1>11, <1>13, OneBlock

\* Where the loops of i_merge_unit stand, and what they read.
LEMMA MergeFacts ==
  ASSUME PInv, pc \in {"walk", "absorb"}
  PROVE  /\ CurBlock \in Blocks /\ CurBlock <= count /\ cur[2] \in Offsets
         /\ Block(Units, asked[CurBlock], {}, Total(CurBlock)) /\ Good(Units) /\ Remains(Dead)
         /\ \A x \in Blocks : Gone(x) = {}
         /\ DOMAIN Memory = DOMAIN Units \cup DOMAIN Dead /\ DOMAIN Memory \subseteq Offsets
         /\ \A o \in DOMAIN Memory : Framed(o, Memory[o])
         /\ \A o \in DOMAIN Units : Memory[o] = Units[o]
         /\ cur[2] \in DOMAIN Memory => CurUnit.bfree
<1>1. CurBlock \in Blocks /\ CurBlock <= count /\ cur[2] \in Offsets
  BY CurType DEF PInv, CurIn
<1>2. \A x \in Blocks : Gone(x) = {}
  BY DEF Gone
<1>3. Block(Units, asked[CurBlock], {}, Total(CurBlock)) /\ Good(Units) /\ Remains(Dead)
  BY <1>1, Quiet, BlockTypes DEF Units, Dead, Block
<1>4. /\ DOMAIN Memory = DOMAIN Units \cup DOMAIN Dead
      /\ \A o \in DOMAIN Memory : Memory[o] = IF o \in DOMAIN Units THEN Units[o] ELSE Dead[o]
  BY DEF Memory
<1>5. \A o \in DOMAIN Memory : Framed(o, Memory[o])
  BY <1>3, <1>4, LiveFramed DEF Remains
<1>6. DOMAIN Memory \subseteq Offsets
  BY <1>3, <1>4 DEF Good, Remains
<1>7. cur[2] \in DOMAIN Memory => CurUnit.bfree
  BY <1>3, <1>4 DEF CurUnit, Remains, PInv, CurIn
<1> QED BY <1>1, <1>2, <1>3, <1>4, <1>5, <1>6, <1>7

LEMMA WalkBackKeeps ==
  ASSUME PInv, WalkBack
  PROVE  PInv'
<1>1. /\ pc = "walk" /\ CurUnit.prev \in DOMAIN Memory /\ Memory[CurUnit.prev].bfree
      /\ cur' = <<CurBlock, CurUnit.prev>> /\ pc' = pc
      /\ UNCHANGED <<count, unit, dead, free_count, lost, buf_block_map, asked, ended>>
  BY DEF WalkBack, listVars
<1>2. /\ CurBlock \in Blocks /\ CurBlock <= count /\ CurUnit.prev \in Offsets
      /\ \A o \in DOMAIN Units : Memory[o] = Units[o]
  BY <1>1, MergeFacts
<1>3. cur' \in Blocks \X Offsets /\ cur'[1] = CurBlock /\ cur'[2] = CurUnit.prev
  BY <1>1, <1>2
<1>4. Control'
  BY <1>1, <1>3 DEF PInv, Control
<1>5. CurIn'
  BY <1>1, <1>2, <1>3 DEF CurIn, CurBlock, Units
<1>6. Sound' /\ Stores' /\ Known' /\ Unused' /\ Leftovers'
  BY <1>1 DEF PInv, Sound, Gone, Total, Stores, Known, Unused, Leftovers
<1> QED BY <1>4, <1>5, <1>6 DEF PInv

LEMMA WalkEndsKeeps ==
  ASSUME PInv, WalkEnds
  PROVE  PInv'
<1>1. /\ pc = "walk" /\ pc' = "absorb"
      /\ UNCHANGED <<count, unit, dead, free_count, lost, buf_block_map, asked, cur, ended>>
  BY DEF WalkEnds, listVars
<1>2. Control'
  BY <1>1 DEF PInv, Control
<1>3. CurIn'
  BY <1>1 DEF PInv, CurIn, CurBlock, Units
<1>4. Sound' /\ Stores' /\ Known' /\ Unused' /\ Leftovers'
  BY <1>1 DEF PInv, Sound, Gone, Total, CurBlock, Stores, Known, Unused, Leftovers
<1> QED BY <1>2, <1>3, <1>4 DEF PInv

\* A step after which the model says nothing more.
LEMMA EndKeeps ==
  ASSUME PInv, ended' \in {"overwritten", "overrun", "null next", "uninit"},
         UNCHANGED <<listVars, buf_block_map, asked, callVars>>
  PROVE  PInv'
<1>1. UNCHANGED <<count, unit, dead, free_count, lost, buf_block_map, asked, pc, cur>>
  BY DEF listVars, callVars
<1>2. Control'
  BY <1>1 DEF PInv, Control
<1>3. CurIn' /\ Sound' /\ Stores' /\ Known' /\ Unused' /\ Leftovers'
  BY <1>1 DEF PInv, CurIn, CurBlock, Units, Sound, Gone, Total, Stores, Known, Unused, Leftovers
<1> QED BY <1>2, <1>3 DEF PInv

\* A caller writes over an absorbed header.
LEMMA OverwriteKeeps ==
  ASSUME PInv, NEW b, NEW o, NEW x, Overwrite(b, o, x)
  PROVE  PInv'
<1>1. /\ b \in Blocks /\ dead' = [dead EXCEPT ![b] = Drop(@, x)]
      /\ UNCHANGED <<count, unit, free_count, lost, buf_block_map, asked, pc, cur, ended>>
  BY DEF Overwrite, Held, callVars
<1>2. Remains(dead[b]) /\ dead = [y \in Blocks |-> dead[y]]
  BY <1>1, BlockTypes
<1> DEFINE d == Drop(dead[b], x)
<1>3. Remains(d) /\ dead' = [dead EXCEPT ![b] = d]
  BY <1>1, <1>2, PartRemains
<1> HIDE DEF d
<1>4. Leftovers'
  BY <1>1, <1>3, OneDead
<1>5. Control' /\ CurIn' /\ Sound' /\ Stores' /\ Known' /\ Unused'
  BY <1>1 DEF PInv, Control, CurIn, CurBlock, Units, Sound, Gone, Total, Stores, Known, Unused
<1> QED BY <1>4, <1>5 DEF PInv

LEMMA AbsorbKeeps ==
  ASSUME PInv, Absorb
  PROVE  PInv'
<1> DEFINE b == CurBlock
           o == cur[2]
           v == Joined(unit[b], o)
           d == Buried(dead[b], unit[b], o)
<1>1. /\ pc = "absorb" /\ o \in DOMAIN unit[b] /\ FreeNext(unit[b], o)
      /\ unit' = [unit EXCEPT ![b] = Joined(@, o)]
      /\ dead' = [dead EXCEPT ![b] = Buried(@, unit[b], o)]
      /\ free_count' = [free_count EXCEPT ![b] = @ - 1]
      /\ UNCHANGED <<count, lost, buf_block_map, asked, pc, cur, ended>>
  BY DEF Absorb, callVars, Units
<1>2. /\ b \in Blocks /\ b <= count /\ Good(unit[b])
      /\ Block(unit[b], asked[b], {}, Total(b))
      /\ \A x \in Blocks : Gone(x) = {}
  BY <1>1, MergeFacts DEF Units
<1>3. o \in FreeIn(unit[b])
  BY <1>1 DEF PInv, CurIn, Units, FreeIn
<1>4. Block(v, asked[b], {}, Total(b) - 1) /\ o \in FreeIn(v)
  BY <1>1, <1>2, <1>3, BlockAbsorb
<1>5. /\ unit = [x \in Blocks |-> unit[x]] /\ asked = [x \in Blocks |-> asked[x]]
      /\ dead = [x \in Blocks |-> dead[x]] /\ Remains(dead[b])
      /\ free_count \in [Blocks -> Int] /\ lost \in [Blocks -> Nat]
      /\ free_count[b] \in Int /\ lost[b] \in Nat /\ Total(b) = free_count[b] + lost[b]
  BY <1>2, BlockTypes
<1>6. Remains(d)
  BY <1>1, <1>2, <1>5, BuryRemains
<1> DEFINE k == free_count[b] - 1
           l == lost[b]
           c == asked[b]
<1>7. /\ unit' = [unit EXCEPT ![b] = v] /\ unit'[b] = v /\ dead' = [dead EXCEPT ![b] = d]
      /\ asked' = [asked EXCEPT ![b] = c] /\ lost' = [lost EXCEPT ![b] = l]
      /\ DOMAIN c = DOMAIN asked[b]
  BY <1>1, <1>2, <1>5
<1>8. k \in Int /\ l \in Nat /\ free_count' = [free_count EXCEPT ![b] = k] /\ Total(b) - 1 = k + l
  BY <1>1, <1>5
<1>9. Block(v, c, {}, k + l)
  BY <1>4, <1>8
<1>10. Control'
  BY <1>1 DEF PInv, Control
<1>11. Leftovers'
  <2> HIDE DEF d, b
  <2> QED BY <1>2, <1>6, <1>7, OneDead
<1>12. CurIn'
  <2>1. count' = count /\ cur' = cur /\ pc' = "absorb"
    BY <1>1
  <2> HIDE DEF v
  <2> QED BY <1>2, <1>4, <1>7, <2>1 DEF CurIn, CurBlock, Units, FreeIn
<1>13. pc' # "release" /\ UNCHANGED <<count, buf_block_map>>
  BY <1>1
<1> HIDE DEF v, b, o, d, k, l, c
<1> QED BY <1>2, <1>7, <1>8, <1>9, <1>10, <1>11, <1>12, <1>13, OneBlock

\* A merge at an absorbed header: the list keeps its units.
LEMMA AbsorbAgainKeeps ==
  ASSUME PInv, AbsorbAgain
  PROVE  PInv'
<1> DEFINE b == CurBlock
           o == cur[2]
           x == Memory[CurUnit.next].next
           g == Grown(Memory, o)
           v == Linked(unit[b], x, o)
           d == Linked(Put(dead[b], o, g), x, o)
<1>1. /\ pc = "absorb" /\ o \in DOMAIN Dead /\ Intact(CurUnit.next) /\ FreeNext(Memory, o)
      /\ unit' = [unit EXCEPT ![b] = Linked(@, x, o)]
      /\ dead' = [dead EXCEPT ![b] = Linked(Put(@, o, g), x, o)]
      /\ free_count' = [free_count EXCEPT ![b] = @ - 1]
      /\ lost' = [lost EXCEPT ![b] = @ + 1]
      /\ UNCHANGED <<count, buf_block_map, asked, pc, cur, ended>>
  BY DEF AbsorbAgain, callVars
<1>2. /\ b \in Blocks /\ b <= count /\ o \in Offsets /\ Good(unit[b])
      /\ Block(unit[b], asked[b], {}, Total(b))
      /\ \A y \in Blocks : Gone(y) = {}
  BY <1>1, MergeFacts DEF Units
<1>3. /\ DOMAIN Memory = DOMAIN Units \cup DOMAIN Dead /\ DOMAIN Memory \subseteq Offsets
      /\ \A y \in DOMAIN Memory : Framed(y, Memory[y])
      /\ o \in DOMAIN Memory => Memory[o].bfree
  BY <1>1, MergeFacts DEF CurUnit
<1>4. Framed(o, g) /\ g.bfree
  <2>1. o \in DOMAIN Memory /\ Memory[o].next # Null /\ Memory[o].next \in DOMAIN Memory
    BY <1>1, <1>3 DEF Intact, FreeNext, CurUnit
  <2> DEFINE m == Memory
  <2>2. /\ o \in DOMAIN m /\ m[o].next \in DOMAIN m /\ DOMAIN m \subseteq Offsets
        /\ m[o].next # Null /\ m[o].bfree /\ Framed(o, m[o]) /\ Framed(m[o].next, m[m[o].next])
    BY <1>3, <2>1
  <2> HIDE DEF m, o
  <2>3. Framed(o, Grown(m, o)) /\ Grown(m, o).bfree
    BY <2>2, GrowFramed
  <2> QED BY <2>3 DEF m
<1> HIDE DEF x, g
<1>5. /\ unit = [y \in Blocks |-> unit[y]] /\ asked = [y \in Blocks |-> asked[y]]
      /\ dead = [y \in Blocks |-> dead[y]] /\ Remains(dead[b])
      /\ free_count \in [Blocks -> Int] /\ lost \in [Blocks -> Nat]
      /\ free_count[b] \in Int /\ lost[b] \in Nat /\ Total(b) = free_count[b] + lost[b]
  BY <1>2, BlockTypes
<1>6. Remains(d)
  <2>1. Remains(Put(dead[b], o, g))
    BY <1>2, <1>4, <1>5, PutRemains
  <2> QED BY <1>2, <2>1, LinkRemains
<1>7. Block(v, asked[b], {}, Total(b)) /\ DOMAIN v = DOMAIN unit[b] /\ FreeIn(v) = FreeIn(unit[b])
  BY <1>2, BlockLink, LinkKeeps
<1> DEFINE k == free_count[b] - 1
           l == lost[b] + 1
           c == asked[b]
<1>8. /\ unit' = [unit EXCEPT ![b] = v] /\ unit'[b] = v /\ dead' = [dead EXCEPT ![b] = d]
      /\ asked' = [asked EXCEPT ![b] = c] /\ DOMAIN c = DOMAIN asked[b]
  BY <1>1, <1>2, <1>5
<1>9. /\ k \in Int /\ l \in Nat /\ free_count' = [free_count EXCEPT ![b] = k]
      /\ lost' = [lost EXCEPT ![b] = l] /\ Total(b) = k + l
  BY <1>1, <1>5
<1>10. Block(v, c, {}, k + l)
  BY <1>7, <1>9
<1>11. Control'
  BY <1>1 DEF PInv, Control
<1>12. Leftovers'
  <2> HIDE DEF d, b
  <2> QED BY <1>2, <1>6, <1>8, OneDead
<1>13. CurIn'
  <2>1. count' = count /\ cur' = cur /\ pc' = "absorb"
    BY <1>1
  <2>2. o \in DOMAIN unit[b] => o \in FreeIn(unit[b])
    BY <1>1 DEF PInv, CurIn, Units, FreeIn
  <2> HIDE DEF v
  <2>3. o \in DOMAIN v => v[o].bfree
    BY <1>7, <2>2 DEF FreeIn
  <2> QED BY <1>2, <1>8, <2>1, <2>3 DEF CurIn, CurBlock, Units
<1>14. pc' # "release" /\ UNCHANGED <<count, buf_block_map>>
  BY <1>1
<1> HIDE DEF v, b, o, d, k, l, c
<1> QED BY <1>2, <1>8, <1>9, <1>10, <1>11, <1>12, <1>13, <1>14, OneBlock

LEMMA AbsorbEndsKeeps ==
  ASSUME PInv, AbsorbEnds
  PROVE  PInv'
<1> DEFINE b == CurBlock
           o == cur[2]
           x == CurUnit.next
           v == Linked(unit[b], x, o)
           d == Linked(dead[b], x, o)
<1>1. /\ pc = "absorb" /\ pc' = "idle"
      /\ unit' = [unit EXCEPT ![b] = Linked(@, x, o)]
      /\ dead' = [dead EXCEPT ![b] = Linked(@, x, o)]
      /\ UNCHANGED <<count, free_count, lost, buf_block_map, asked, cur, ended>>
  BY DEF AbsorbEnds
<1>2. /\ b \in Blocks /\ b <= count /\ o \in Offsets
      /\ Block(unit[b], asked[b], {}, Total(b))
      /\ \A y \in Blocks : Gone(y) = {}
  BY <1>1, MergeFacts DEF Units
<1> HIDE DEF x
<1>3. Block(v, asked[b], {}, Total(b))
  BY <1>2, BlockLink
<1>4. /\ unit = [y \in Blocks |-> unit[y]] /\ asked = [y \in Blocks |-> asked[y]]
      /\ dead = [y \in Blocks |-> dead[y]] /\ Remains(dead[b])
      /\ free_count \in [Blocks -> Int] /\ lost \in [Blocks -> Nat]
      /\ free_count[b] \in Int /\ lost[b] \in Nat /\ Total(b) = free_count[b] + lost[b]
  BY <1>2, BlockTypes
<1>5. Remains(d)
  BY <1>2, <1>4, LinkRemains
<1> DEFINE k == free_count[b]
           l == lost[b]
           c == asked[b]
<1>6. /\ unit' = [unit EXCEPT ![b] = v] /\ dead' = [dead EXCEPT ![b] = d]
      /\ asked' = [asked EXCEPT ![b] = c] /\ DOMAIN c = DOMAIN asked[b]
      /\ free_count' = [free_count EXCEPT ![b] = k] /\ lost' = [lost EXCEPT ![b] = l]
      /\ k \in Int /\ l \in Nat
  BY <1>1, <1>2, <1>4
<1>7. Block(v, c, {}, k + l)
  BY <1>3, <1>4
<1>8. Leftovers'
  <2> HIDE DEF d, b
  <2> QED BY <1>2, <1>5, <1>6, OneDead
<1>9. Control' /\ CurIn'
  BY <1>1 DEF PInv, Control, CurIn
<1>10. pc' # "release" /\ UNCHANGED <<count, buf_block_map>>
  BY <1>1
<1> HIDE DEF v, b, o, d, k, l, c
<1> QED BY <1>2, <1>6, <1>7, <1>8, <1>9, <1>10, OneBlock

LEMMA ReallocSameKeeps ==
  ASSUME PInv, pc = "idle", NEW b, NEW o, NEW n \in Sizes, Held(b, o), ReallocSame(b, o, n)
  PROVE  PInv'
<1>1. /\ n <= unit[b][o].size /\ asked' = [asked EXCEPT ![b] = Put(@, o, n)]
      /\ UNCHANGED <<count, unit, dead, free_count, lost, buf_block_map, pc, cur, ended>>
  BY DEF ReallocSame, InPlace, Lend, listVars, callVars
<1>2. b \in Blocks /\ o \in DOMAIN asked[b] /\ b <= count
  BY HeldFacts
<1>3. Block(unit[b], asked[b], {}, Total(b)) /\ \A x \in Blocks : Gone(x) = {}
  BY <1>2, Quiet DEF Gone
<1> DEFINE v == unit[b]
           k == free_count[b]
           l == lost[b]
           c == Put(asked[b], o, n)
<1>4. Block(v, c, {}, Total(b))
  BY <1>1, <1>2, <1>3, BlockSame
<1>5. DOMAIN c = DOMAIN asked[b]
  BY <1>2 DEF Put
<1>6. /\ unit = [x \in Blocks |-> unit[x]] /\ asked = [x \in Blocks |-> asked[x]]
      /\ free_count \in [Blocks -> Int] /\ lost \in [Blocks -> Nat]
      /\ free_count[b] \in Int /\ lost[b] \in Nat /\ Total(b) = free_count[b] + lost[b]
  BY <1>2, BlockTypes
<1>7. /\ unit' = [unit EXCEPT ![b] = v] /\ asked' = [asked EXCEPT ![b] = c]
      /\ free_count' = [free_count EXCEPT ![b] = k] /\ lost' = [lost EXCEPT ![b] = l]
      /\ k \in Int /\ l \in Nat /\ Block(v, c, {}, k + l)
  BY <1>1, <1>2, <1>4, <1>6
<1>8. Control' /\ CurIn' /\ Leftovers'
  BY <1>1 DEF PInv, Control, CurIn, Leftovers
<1>9. pc' # "release" /\ UNCHANGED <<count, buf_block_map>>
  BY <1>1
<1> HIDE DEF c, v, k, l
<1> QED BY <1>2, <1>3, <1>5, <1>7, <1>8, <1>9, OneBlock

LEMMA ReallocExtendKeeps ==
  ASSUME PInv, pc = "idle", NEW b, NEW o, NEW n \in Sizes, Held(b, o), ReallocExtend(b, o, n)
  PROVE  PInv'
<1> DEFINE v == Extended(unit[b], o, n)
           c == Put(asked[b], o, n)
           k == IF TakesAll(SizeAble(unit[b], o), n) THEN free_count[b] - 1 ELSE free_count[b]
           l == lost[b]
           d == Left(Buried(dead[b], unit[b], o), unit'[b])
<1>1. /\ ~(n <= unit[b][o].size) /\ FreeNext(unit[b], o) /\ n <= SizeAble(unit[b], o)
      /\ unit' = [unit EXCEPT ![b] = Extended(@, o, n)]
      /\ dead' = [dead EXCEPT ![b] = Left(Buried(@, unit[b], o), unit'[b])]
      /\ free_count' = [free_count EXCEPT
           ![b] = IF TakesAll(SizeAble(unit[b], o), n) THEN @ - 1 ELSE @]
      /\ asked' = [asked EXCEPT ![b] = Put(@, o, n)]
      /\ UNCHANGED <<count, lost, buf_block_map, pc, cur, ended>>
  BY DEF ReallocExtend, Extends, InPlace, Lend, callVars
<1>2. b \in Blocks /\ o \in DOMAIN asked[b] /\ b <= count /\ o \in DOMAIN unit[b] /\ Good(unit[b])
  BY HeldFacts
<1>3. Block(unit[b], asked[b], {}, Total(b)) /\ \A x \in Blocks : Gone(x) = {}
  BY <1>2, Quiet DEF Gone
<1> DEFINE j == IF TakesAll(SizeAble(unit[b], o), n) THEN Total(b) - 1 ELSE Total(b)
<1>4. Block(v, c, {}, j)
  <2>1. n > unit[b][o].size
    BY <1>1, <1>2, Typed
  <2> QED BY <1>1, <1>2, <1>3, <2>1, BlockExtend
<1>5. DOMAIN c = DOMAIN asked[b]
  BY <1>2 DEF Put
<1>6. /\ unit = [x \in Blocks |-> unit[x]] /\ asked = [x \in Blocks |-> asked[x]]
      /\ dead = [x \in Blocks |-> dead[x]] /\ Remains(dead[b])
      /\ free_count \in [Blocks -> Int] /\ lost \in [Blocks -> Nat]
      /\ free_count[b] \in Int /\ lost[b] \in Nat /\ Total(b) = free_count[b] + lost[b]
  BY <1>2, BlockTypes
<1>7. Remains(d)
  <2>1. Remains(Buried(dead[b], unit[b], o))
    BY <1>1, <1>2, <1>6, BuryRemains
  <2> QED BY <2>1, PartRemains
<1>8. k \in Int /\ l \in Nat /\ j = k + l
  <2> HIDE DEF v, c
  <2> QED BY <1>6
<1>9. /\ unit' = [unit EXCEPT ![b] = v] /\ asked' = [asked EXCEPT ![b] = c]
      /\ dead' = [dead EXCEPT ![b] = d]
      /\ free_count' = [free_count EXCEPT ![b] = k] /\ lost' = [lost EXCEPT ![b] = l]
  BY <1>1, <1>2, <1>6
<1>10. Leftovers'
  <2> HIDE DEF d
  <2> QED BY <1>2, <1>7, <1>9, OneDead
<1>11. Control' /\ CurIn'
  BY <1>1 DEF PInv, Control, CurIn
<1>12. pc' # "release" /\ UNCHANGED <<count, buf_block_map>>
  BY <1>1
<1> HIDE DEF v, c, k, l, d, j
<1>13. Block(v, c, {}, k + l)
  BY <1>4, <1>8
<1> QED BY <1>2, <1>3, <1>5, <1>8, <1>9, <1>10, <1>11, <1>12, <1>13, OneBlock

\* The buffer moves: another unit is taken, and the old one is given back.
LEMMA MovePInv ==
  ASSUME PInv, pc = "idle", NEW b \in Blocks, NEW o, Held(b, o), NEW n \in Sizes,
         NEW c, NEW q, Giving(n, c, q),
         asked' = [Forget(asked, b, o) EXCEPT ![c] = Put(@, q, n)],
         pc' = "release", cur' = <<b, o>>, UNCHANGED ended, Leftovers'
  PROVE  PInv'
<1> DEFINE a == Forget(asked, b, o)
           gone == [x \in Blocks |-> IF x = b THEN {o} ELSE {}]
<1>1. /\ Unused' /\ count' \in 0 .. MaxBlocks /\ count <= count'
      /\ unit' = [x \in Blocks |-> unit'[x]]
      /\ free_count' \in [Blocks -> Int] /\ lost' \in [Blocks -> Nat]
      /\ buf_block_map' = buf_block_map \cup {<<c, q>>}
      /\ c \in Blocks
  BY GivingRest
<1>2. asked = [x \in Blocks |-> asked[x]]
  BY DEF PInv, Stores
<1>3. o \in DOMAIN asked[b] /\ o \in DOMAIN unit[b] /\ b <= count /\ o \in Offsets
  BY HeldFacts
<1>4. /\ a = [x \in Blocks |-> a[x]] /\ a[b] = Drop(asked[b], o)
      /\ \A x \in Blocks \ {b} : a[x] = asked[x]
  BY <1>2 DEF Forget
<1>5. gone[b] = {o} /\ \A x \in Blocks \ {b} : gone[x] = {}
  OBVIOUS
<1> HIDE DEF a, gone
<1>6. \A x \in Blocks : Block(unit[x], a[x], gone[x], Total(x))
  <2>1. \A x \in Blocks : Block(unit[x], asked[x], {}, Total(x))
    BY Quiet
  <2>2. Block(unit[b], Drop(asked[b], o), {o}, Total(b))
    BY <1>3, <2>1, BlockForget
  <2> QED BY <1>4, <1>5, <2>1, <2>2
<1>7. asked' = [a EXCEPT ![c] = Put(@, q, n)]
  BY DEF a
<1>8. /\ \A x \in Blocks : Block(unit'[x], asked'[x], gone[x], Total(x)')
      /\ \A x \in Blocks : DOMAIN unit[x] \subseteq DOMAIN unit'[x]
      /\ q \in Offsets
  BY <1>4, <1>6, <1>7, GivenBlocks
<1>9. Control'
  BY <1>1, <1>3 DEF PInv, Control
<1>10. Stores'
  <2>1. asked' = [x \in Blocks |-> asked'[x]]
    BY <1>4, <1>7
  <2> QED BY <1>1, <1>8, <2>1 DEF PInv, Stores
<1>11. Sound'
  <2>1. \A x \in Blocks : Gone(x)' = gone[x]
    BY <1>5 DEF Gone, CurBlock
  <2> QED BY <1>8, <2>1 DEF Sound
<1>12. Known'
  <2>1. ASSUME NEW x \in Blocks, NEW y \in DOMAIN asked'[x] PROVE <<x, y>> \in buf_block_map'
    <3>1. y \in DOMAIN a[x] \/ (x = c /\ y = q)
      BY <1>1, <1>4, <1>7, <2>1 DEF Put
    <3>2. DOMAIN a[x] \subseteq DOMAIN asked[x]
      BY <1>4 DEF Drop
    <3> QED BY <1>1, <3>1, <3>2 DEF PInv, Known
  <2> QED BY <2>1 DEF Known
<1>13. CurIn'
  <2>1. b <= count' /\ o \in DOMAIN unit'[b]
    BY <1>1, <1>3, <1>8, Counts
  <2> QED BY <2>1 DEF CurIn, CurBlock, Units
<1> QED BY <1>1, <1>9, <1>10, <1>11, <1>12, <1>13 DEF PInv

\* The buffer moves nowhere: there is no unit for it.
LEMMA LosePInv ==
  ASSUME PInv, pc = "idle", NEW b \in Blocks, NEW o, Held(b, o), NEW n, AllocFails(n),
         asked' = Forget(asked, b, o), pc' = "release", cur' = <<b, o>>, UNCHANGED ended, Leftovers'
  PROVE  PInv'
<1>1. count' = count + 1 /\ count' \in 0 .. MaxBlocks
  BY Counts DEF AllocFails
<1>2. UNCHANGED <<unit, free_count, lost, buf_block_map>>
  BY DEF AllocFails
<1>3. o \in DOMAIN asked[b] /\ o \in DOMAIN unit[b] /\ b <= count /\ o \in Offsets
  BY HeldFacts
<1>4. asked = [x \in Blocks |-> asked[x]]
  BY DEF PInv, Stores
<1>5. asked'[b] = Drop(asked[b], o) /\ \A x \in Blocks \ {b} : asked'[x] = asked[x]
  BY <1>4 DEF Forget
<1>6. Control'
  BY <1>1, <1>3 DEF PInv, Control
<1>7. Stores'
  BY <1>2, <1>4 DEF PInv, Stores, Forget
<1>8. Sound'
  <2>1. Gone(b)' = {o} /\ \A x \in Blocks \ {b} : Gone(x)' = {}
    BY DEF Gone, CurBlock
  <2>2. \A x \in Blocks : Block(unit[x], asked[x], {}, Total(x))
    BY Quiet
  <2>3. Block(unit[b], Drop(asked[b], o), {o}, Total(b))
    BY <1>3, <2>2, BlockForget
  <2>4. \A x \in Blocks : Total(x)' = Total(x)
    BY <1>2 DEF Total
  <2> QED BY <1>2, <1>5, <2>1, <2>2, <2>3, <2>4 DEF Sound
<1>9. Known'
  <2>1. DOMAIN Drop(asked[b], o) \subseteq DOMAIN asked[b]
    BY DEF Drop
  <2> QED BY <1>2, <1>5, <2>1 DEF PInv, Known
<1>10. CurIn'
  <2>1. b <= count'
    BY <1>1, <1>3, Counts
  <2> QED BY <1>2, <1>3, <2>1 DEF CurIn, CurBlock, Units
<1>11. Unused'
  <2>1. \A x \in Blocks : x > count' => x > count
    BY <1>1, Counts
  <2> QED BY <1>2, <2>1 DEF PInv, Unused
<1> QED BY <1>6, <1>7, <1>8, <1>9, <1>10, <1>11 DEF PInv

LEMMA ReallocKeeps ==
  ASSUME PInv, NEW b \in Blocks, NEW o \in Offsets, NEW n \in Sizes, Realloc(b, o, n)
  PROVE  PInv'
<1>1. pc = "idle" /\ Held(b, o)
  BY DEF Realloc
<1>2. CASE ReallocSame(b, o, n)
  BY <1>1, <1>2, ReallocSameKeeps
<1>3. CASE ReallocLast(b, o, n)
  BY <1>3, EndKeeps DEF ReallocLast
<1>4. CASE ReallocExtend(b, o, n)
  BY <1>1, <1>4, ReallocExtendKeeps
<1>5. CASE ReallocMove(b, o, n)
  <2>1. pc' = "release" /\ cur' = <<b, o>> /\ UNCHANGED ended
    BY <1>5 DEF ReallocMove
  <2>2. CASE \E c \in Blocks, q \in Offsets :
               /\ AllocFound(n, c, q)
               /\ asked' = [Forget(asked, b, o) EXCEPT ![c] = Put(@, q, n)]
               /\ dead' = [dead EXCEPT ![c] = Moved(b, o, c, q)]
    <3>1. PICK c \in Blocks, q \in Offsets :
               /\ AllocFound(n, c, q)
               /\ asked' = [Forget(asked, b, o) EXCEPT ![c] = Put(@, q, n)]
               /\ dead' = [dead EXCEPT ![c] = Moved(b, o, c, q)]
      BY <2>2
    <3>2. Giving(n, c, q)
      BY <3>1, FoundGives
    <3>3. Leftovers'
      <4> DEFINE d == Moved(b, o, c, q)
      <4>1. Remains(d) /\ dead' = [dead EXCEPT ![c] = d]
        BY <3>1, WornRemains DEF Moved
      <4> HIDE DEF d
      <4> QED BY <4>1, OneDead
    <3> QED BY <1>1, <2>1, <3>1, <3>2, <3>3, MovePInv
  <2>3. CASE \E c \in Blocks :
               /\ AllocNew(n, c)
               /\ asked' = [Forget(asked, b, o) EXCEPT ![c] = Put(@, 0, n)]
               /\ dead' = [dead EXCEPT ![c] = Moved(b, o, c, 0)]
    <3>1. PICK c \in Blocks :
               /\ AllocNew(n, c)
               /\ asked' = [Forget(asked, b, o) EXCEPT ![c] = Put(@, 0, n)]
               /\ dead' = [dead EXCEPT ![c] = Moved(b, o, c, 0)]
      BY <2>3
    <3>2. Giving(n, c, 0)
      BY <3>1, NewGives
    <3>3. Leftovers'
      <4> DEFINE d == Moved(b, o, c, 0)
      <4>1. Remains(d) /\ dead' = [dead EXCEPT ![c] = d]
        BY <3>1, WornRemains DEF Moved
      <4> HIDE DEF d
      <4> QED BY <4>1, OneDead
    <3> QED BY <1>1, <2>1, <3>1, <3>2, <3>3, MovePInv
  <2>4. CASE AllocFails(n) /\ asked' = Forget(asked, b, o) /\ UNCHANGED dead
    <3>1. Leftovers'
      BY <2>4 DEF PInv, Leftovers
    <3> QED BY <1>1, <2>1, <2>4, <3>1, LosePInv
  <2> QED BY <1>5, <2>2, <2>3, <2>4 DEF ReallocMove
<1> QED BY <1>2, <1>3, <1>4, <1>5 DEF Realloc

LEMMA InitPoolKeeps ==
  ASSUME PInv, InitPool
  PROVE  PInv'
<1>1. /\ pc = "idle" /\ count' = count + 1 /\ count < MaxBlocks
      /\ UNCHANGED <<unit, dead, free_count, lost, buf_block_map, asked, pc, cur, ended>>
  BY DEF InitPool, callVars
<1>2. count' \in 0 .. MaxBlocks /\ \A b \in Blocks : b > count' => b > count
  BY <1>1, Counts
<1>3. Control' /\ CurIn' /\ Unused'
  BY <1>1, <1>2 DEF PInv, Control, CurIn, Unused
<1>4. Sound' /\ Known' /\ Stores' /\ Leftovers'
  BY <1>1 DEF PInv, Sound, Gone, Total, CurBlock, Known, Stores, Leftovers
<1> QED BY <1>3, <1>4 DEF PInv

LEMMA StutterKeeps ==
  ASSUME PInv, UNCHANGED vars
  PROVE  PInv'
<1>1. UNCHANGED <<count, unit, dead, free_count, lost, buf_block_map, asked, pc, cur, ended>>
  BY DEF vars, listVars, callVars
<1> QED BY <1>1 DEF PInv, Control, CurIn, CurBlock, Units, Sound, Gone, Total, Stores, Known,
                    Unused, Leftovers

LEMMA NextPInv ==
  PInv /\ [Next]_vars => PInv'
<1> SUFFICES ASSUME PInv, [Next]_vars PROVE PInv'
  OBVIOUS
<1>1. CASE Call
  <2>1. ASSUME NEW n \in Sizes, Alloc(n) PROVE PInv'
    BY <2>1, AllocKeeps
  <2>2. ASSUME NEW b \in Blocks, NEW o \in Offsets, Free(b, o) PROVE PInv'
    BY <2>2, FreeKeeps
  <2>3. ASSUME NEW b \in Blocks, NEW o \in Offsets, NEW n \in Resizes, Realloc(b, o, n) PROVE PInv'
    BY <2>3, ReallocKeeps, SizeAssumption
  <2> QED BY <1>1, <2>1, <2>2, <2>3 DEF Call
<1>2. CASE FreeStep
  <2>1. CASE Strays
    BY <2>1, EndKeeps DEF Strays
  <2> QED BY <1>2, <2>1, ReleaseKeeps, WalkBackKeeps, WalkEndsKeeps, AbsorbKeeps,
             AbsorbAgainKeeps, AbsorbEndsKeeps DEF FreeStep
<1>3. CASE CallerWrites
  <2>1. ASSUME NEW b \in Blocks, NEW o \in Offsets, Overrun(b, o) PROVE PInv'
    BY <2>1, EndKeeps DEF Overrun
  <2>2. ASSUME NEW b \in Blocks, NEW o \in Offsets, NEW x \in Offsets, Overwrite(b, o, x)
        PROVE  PInv'
    BY <2>2, OverwriteKeeps
  <2> QED BY <1>3, <2>1, <2>2 DEF CallerWrites
<1>4. CASE InitPool
  BY <1>4, InitPoolKeeps
<1>5. CASE UninitPool
  BY <1>5, EndKeeps DEF UninitPool
<1>6. CASE UNCHANGED vars
  BY <1>6, StutterKeeps
<1> QED BY <1>1, <1>2, <1>3, <1>4, <1>5, <1>6 DEF Next

LEMMA Inductive ==
  Spec => []PInv
BY InitPInv, NextPInv, PTL DEF Spec
-----------------------------------------------------------------------------
LEMMA PInvTypes ==
  PInv => TypeOK
<1> SUFFICES ASSUME PInv PROVE TypeOK
  OBVIOUS
<1>1. /\ Control /\ unit = [b \in Blocks |-> unit[b]] /\ asked = [b \in Blocks |-> asked[b]]
      /\ dead = [b \in Blocks |-> dead[b]]
      /\ free_count \in [Blocks -> Int] /\ lost \in [Blocks -> Nat]
      /\ buf_block_map \subseteq Blocks \X Offsets
  BY DEF PInv, Stores, Leftovers
<1>2. \A b \in Blocks :
        /\ Good(unit[b]) /\ asked[b] \in [DOMAIN asked[b] -> Sizes]
        /\ DOMAIN asked[b] \subseteq DOMAIN unit[b]
  BY DEF PInv, Sound, Block, Used
<1>3. Maps(unit, Headers) /\ Maps(asked, Sizes)
  BY <1>1, <1>2 DEF Maps, Good
<1>4. Maps(dead, Headers)
  BY <1>1 DEF PInv, Leftovers, Remains, Maps
<1> QED BY <1>1, <1>3, <1>4 DEF TypeOK, Control

LEMMA PInvSound ==
  PInv => UnitsSound
BY DEF PInv, Sound, Block, Good, UnitsSound, Total

LEMMA PInvLent ==
  PInv => Lent
<1> SUFFICES ASSUME PInv, NEW b \in Blocks
             PROVE  /\ Used(unit[b]) = DOMAIN asked[b] \cup Gone(b)
                    /\ pc = "release" /\ CurBlock = b => cur[2] \notin DOMAIN asked[b]
                    /\ \A o \in DOMAIN asked[b] :
                         <<b, o>> \in buf_block_map /\ asked[b][o] <= unit[b][o].size
  BY DEF Lent, Used, Gone
<1>1. Block(unit[b], asked[b], Gone(b), Total(b))
  BY DEF PInv, Sound
<1>2. pc = "release" /\ CurBlock = b => cur[2] \notin DOMAIN asked[b]
  BY <1>1 DEF Block, Gone
<1> QED BY <1>1, <1>2 DEF Block, PInv, Known

\* The headers, those on a list and those left behind, the counts and the map
\* hold what i_write_head_info and the lists can put there (mem_pool.hpp:26-61,
\* 170-179).
THEOREM PoolTypes == Spec => []TypeOK
BY Inductive, PInvTypes, PTL

\* However calls of alloc, realloc and free follow each other, and whether or not
\* a stale prev leads i_merge_unit to an absorbed header, the units of each block
\* follow each other without gap or overlap, and free_count_ is the number of the
\* free ones less one for each merge at an absorbed header: nothing else makes it
\* wrong (mem_pool.hpp:76-92, 107-126, 181-204).
THEOREM UnitsAreSound == Spec => []UnitsSound
BY Inductive, PInvSound, PTL

\* No two callers hold the same unit, no free unit is held, and free knows what
\* is held, also after a merge at an absorbed header (mem_pool.hpp:55-97,
\* 300-344).
THEOREM BuffersAreLent == Spec => []Lent
BY Inductive, PInvLent, PTL
=============================================================================
