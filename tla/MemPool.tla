------------------------------ MODULE MemPool ------------------------------
(***************************************************************************)
(* src/bas/mem_pool.hpp: blocks cut into units, each a header followed by  *)
(* the space it lends.                                                     *)
(*                                                                         *)
(* A unit is named by its offset in its block.  unit[b] has the headers on *)
(* the list of block b, dead[b] those that another unit has absorbed and   *)
(* whose bytes are still there: nothing erases a header, so a prev that    *)
(* was not brought up to date may lead to one.  A caller gets a buffer,    *)
(* here the unit it lies in, and writes into it when it likes.  mutex_ is  *)
(* held for the whole of a call, so the steps of i_merge_unit are seen by  *)
(* no other call; they are cut because the loop follows pointers that may  *)
(* be wrong.  After undefined behaviour the model says nothing (ended).    *)
(***************************************************************************)
EXTENDS Integers, FiniteSets

CONSTANTS
  BlockSize,   \* block_size
  HeaderSize,  \* sizeof(alloc_unit)
  MaxBlocks,   \* bound: blocks made
  Sizes,       \* bound: what a caller asks for
  Resizes,     \* bound: what a caller asks of realloc
  MaxLost      \* bound: what lost may be in a block when a call begins

ASSUME SizeAssumption ==
  /\ {BlockSize, HeaderSize, MaxBlocks} \subseteq Nat \ {0}
  /\ BlockSize > HeaderSize
  /\ Sizes \subseteq Nat \ {0} /\ Resizes \subseteq Sizes
  /\ MaxLost \in Nat

Blocks  == 1 .. MaxBlocks
Offsets == 0 .. BlockSize - 1
Null    == -1

VARIABLES
  count,          \* block_list_.size()
  unit,           \* the headers on the list of a block
  dead,           \* the headers of a block that were absorbed and are intact
  free_count,     \* free_count_ of a block
  lost,           \* history: how often a merge at an absorbed header took free_count_ down
  buf_block_map,  \* buf_block_map_, whose values follow from its keys
  asked,          \* the buffers callers hold in a block, and the size they asked for
  pc,             \* where free_buffer and i_merge_unit stand
  cur,            \* their cur: a block and an offset
  ended           \* what the model ends with

listVars == <<count, unit, dead, free_count, lost>>
callVars == <<pc, cur>>
vars == <<listVars, buf_block_map, asked, callVars, ended>>

Unit(size, bfree, prev, next) ==
  [size |-> size, bfree |-> bfree, prev |-> prev, next |-> next]

\* An entry of a partial function written or removed.
Put(f, o, h) == [x \in DOMAIN f \cup {o} |-> IF x = o THEN h ELSE f[x]]
Drop(f, o)   == [x \in DOMAIN f \ {o} |-> f[x]]

\* i_write_head_info, at a header or where there was none.
WriteHead(u, o, size, bfree, prev, next) ==
  Put(u, o, Unit(size, bfree, IF prev = o THEN Null ELSE prev, next))

\* The header at x has none of the bytes from s to e.
Clear(x, s, e) == x + HeaderSize <= s \/ e <= x

\* What the headers of u, and what writing the bytes from s to e, leave of the
\* absorbed headers d.
Left(d, u) ==
  [x \in {y \in DOMAIN d : \A o \in DOMAIN u : Clear(y, o, o + HeaderSize)} |-> d[x]]
Wiped(d, s, e) == [x \in {y \in DOMAIN d : Clear(y, s, e)} |-> d[x]]

\* block_t::i_init
Fresh == [o \in {0} |-> Unit(BlockSize, TRUE, Null, Null)]

Init ==
  /\ count = 0
  /\ unit = [b \in Blocks |-> Fresh]
  /\ dead = [b \in Blocks |-> [o \in {} |-> 0]]
  /\ lost = [b \in Blocks |-> 0]
  /\ free_count = [b \in Blocks |-> 1]
  /\ buf_block_map = {}
  /\ asked = [b \in Blocks |-> [o \in {} |-> 0]]
  /\ pc = "idle" /\ cur = <<1, 0>>
  /\ ended = "no"

\* mem_pool_manager_t::init.  A block is as i_init leaves it until it is used.
InitPool ==
  /\ pc = "idle"
  /\ count < MaxBlocks
  /\ count' = count + 1
  /\ UNCHANGED <<unit, dead, free_count, lost, buf_block_map, asked, callVars, ended>>

\* uninit deletes the blocks and leaves the list: nobody may call after it.
UninitPool ==
  /\ pc = "idle"
  /\ ended' = "uninit"
  /\ UNCHANGED <<listVars, buf_block_map, asked, callVars>>
-----------------------------------------------------------------------------
(* alloc                                                                   *)

FreeIn(u)    == {o \in DOMAIN u : u[o].bfree}
FitIn(u, n)  == {o \in FreeIn(u) : u[o].size >= n + HeaderSize}

\* best_match: the smallest unit that fits, and of those the first.
BestMatch(u, n, o) ==
  /\ o \in FitIn(u, n)
  /\ \A q \in FitIn(u, n) : u[o].size < u[q].size \/ (u[o].size = u[q].size /\ o <= q)

\* need_len
NeedLength(n) == n + HeaderSize

\* Mutated form: a rest of nothing becomes a unit.
TakesLess(size, n) == size - n < 0

\* Whether nothing is left over: the rest could hold no more than a header.
TakesAll(size, n) == size - n <= HeaderSize

\* alloc_buffer, once best_match has found the unit o and its prev.  prev of the
\* unit after a rest is left as it is.
AllocBuffer(u, o, n) ==
  LET rest == o + NeedLength(n) IN
  IF TakesAll(u[o].size, NeedLength(n))
  THEN WriteHead(u, o, u[o].size, FALSE, u[o].prev, u[o].next)
  ELSE WriteHead(WriteHead(u, o, NeedLength(n), FALSE, u[o].prev, rest),
                 rest, u[o].size - NeedLength(n), TRUE, o, u[o].next)

\* Mutated form: free_count_ is taken down for every buffer.
OneLess(u, o, n) == 1

\* --free_count_
Spent(u, o, n) == IF TakesAll(u[o].size, NeedLength(n)) THEN 1 ELSE 0

\* The first block with a free unit is the only one that is looked into.
Tried(b) == b <= count /\ free_count[b] # 0 /\ \A a \in 1 .. b - 1 : free_count[a] = 0
Found(n) == \E b \in Blocks : Tried(b) /\ FitIn(unit[b], n) # {}

\* The buffer at o in b for n bytes, out of the block's units u.
Carve(b, u, o, n) ==
  /\ unit' = [unit EXCEPT ![b] = AllocBuffer(u, o, n)]
  /\ free_count' = [free_count EXCEPT ![b] = @ - Spent(u, o, n)]
  /\ buf_block_map' = buf_block_map \cup {<<b, o>>}
  /\ UNCHANGED lost

\* The absorbed headers of b once a unit has been carved.
Worn(b) == Left(dead[b], unit'[b])

AllocFound(n, b, o) ==
  /\ Tried(b) /\ BestMatch(unit[b], n, o)
  /\ Carve(b, unit[b], o, n)
  /\ UNCHANGED count

AllocNew(n, b) ==
  /\ ~Found(n)
  /\ b = count + 1 /\ b <= MaxBlocks
  /\ count' = b
  /\ n + HeaderSize <= BlockSize
  /\ Carve(b, Fresh, 0, n)

\* What fits in no block still gets one, and returns 0.
AllocFails(n) ==
  /\ ~Found(n)
  /\ count < MaxBlocks
  /\ count' = count + 1
  /\ n + HeaderSize > BlockSize
  /\ UNCHANGED <<unit, free_count, lost, buf_block_map>>

\* The caller of alloc or realloc holds the unit at o in b, having asked for n.
Lend(b, o, n) == asked' = [asked EXCEPT ![b] = Put(@, o, n)]

Alloc(n) ==
  /\ pc = "idle"
  /\ \/ \E b \in Blocks, o \in Offsets :
          /\ AllocFound(n, b, o) /\ Lend(b, o, n)
          /\ dead' = [dead EXCEPT ![b] = Worn(b)]
     \/ \E b \in Blocks :
          /\ AllocNew(n, b) /\ Lend(b, 0, n)
          /\ dead' = [dead EXCEPT ![b] = Worn(b)]
     \/ AllocFails(n) /\ UNCHANGED <<asked, dead>>
  /\ UNCHANGED <<callVars, ended>>
-----------------------------------------------------------------------------
(* free, and the end of a realloc that moves                               *)

Held(b, o) == b \in Blocks /\ o \in DOMAIN asked[b]

\* The caller gives the buffer back.
Forget(f, b, o) == [f EXCEPT ![b] = Drop(@, o)]

Free(b, o) ==
  /\ pc = "idle" /\ Held(b, o)
  /\ <<b, o>> \in buf_block_map
  /\ buf_block_map' = buf_block_map \ {<<b, o>>}
  /\ asked' = Forget(asked, b, o)
  /\ pc' = "release" /\ cur' = <<b, o>>
  /\ UNCHANGED <<listVars, ended>>

\* The headers that are intact, and the one at cur.
CurBlock == cur[1]
Units    == unit[CurBlock]
Dead     == dead[CurBlock]
Memory   ==
  [o \in DOMAIN Units \cup DOMAIN Dead |-> IF o \in DOMAIN Units THEN Units[o] ELSE Dead[o]]
CurUnit  == Memory[cur[2]]

\* Reading the header at o finds one, or there is none to read.
Intact(o) == o \in DOMAIN Memory \cup {Null}

\* free_buffer
Release ==
  /\ pc = "release"
  /\ unit' = [unit EXCEPT ![CurBlock] =
       Put(@, cur[2], Unit(Units[cur[2]].size, TRUE, Units[cur[2]].prev, Units[cur[2]].next))]
  /\ free_count' = [free_count EXCEPT ![CurBlock] = @ + 1]
  /\ pc' = IF Units[cur[2]].prev = Null /\ Units[cur[2]].next = Null THEN "idle" ELSE "walk"
  /\ UNCHANGED <<count, dead, lost, buf_block_map, asked, cur, ended>>

\* while (cur->prev && cur->prev->bfree) cur = cur->prev, also to an absorbed one
WalkBack ==
  /\ pc = "walk" /\ cur[2] \in DOMAIN Memory
  /\ CurUnit.prev \in DOMAIN Memory /\ Memory[CurUnit.prev].bfree
  /\ cur' = <<CurBlock, CurUnit.prev>>
  /\ UNCHANGED <<listVars, buf_block_map, asked, pc, ended>>

WalkEnds ==
  /\ pc = "walk" /\ cur[2] \in DOMAIN Memory
  /\ \/ CurUnit.prev = Null
     \/ CurUnit.prev \in DOMAIN Memory /\ ~Memory[CurUnit.prev].bfree
  /\ pc' = "absorb"
  /\ UNCHANGED <<listVars, buf_block_map, asked, cur, ended>>

\* Mutated form: cur->next->prev = cur->next
LinkedToSelf(u, o, p) == IF o \in DOMAIN u THEN [u EXCEPT ![o].prev = o] ELSE u

\* cur->next->prev = cur, where the next unit is one of u.
Linked(u, o, p) == IF o \in DOMAIN u THEN [u EXCEPT ![o].prev = p] ELSE u

\* cur->next->bfree
FreeNext(u, o) == u[o].next # Null /\ u[u[o].next].bfree

\* What the header at o becomes when its unit takes in the one after it.
Grown(u, o) ==
  LET nx == u[o].next
  IN Unit(u[o].size + u[nx].size, u[o].bfree, u[o].prev, u[nx].next)

\* The unit at o, which is on the list, takes in the one after it.
Joined(u, o) ==
  LET nx == u[o].next
  IN Linked(Put(Drop(u, nx), o, Grown(u, o)), u[nx].next, o)

\* An unit's header stays behind when another absorbs it.
Buried(d, u, o) == Put(d, u[o].next, u[u[o].next])

Absorb ==
  /\ pc = "absorb" /\ cur[2] \in DOMAIN Units
  /\ FreeNext(Units, cur[2])
  /\ unit' = [unit EXCEPT ![CurBlock] = Joined(@, cur[2])]
  /\ dead' = [dead EXCEPT ![CurBlock] = Buried(@, Units, cur[2])]
  /\ free_count' = [free_count EXCEPT ![CurBlock] = @ - 1]
  /\ UNCHANGED <<count, lost, buf_block_map, asked, callVars, ended>>

\* The same where cur was absorbed itself: the unit it takes in stays on the list.
AbsorbAgain ==
  LET nx == CurUnit.next
  IN /\ pc = "absorb" /\ cur[2] \in DOMAIN Dead
     /\ Intact(nx) /\ FreeNext(Memory, cur[2]) /\ Intact(Memory[nx].next)
     /\ unit' = [unit EXCEPT ![CurBlock] = Linked(@, Memory[nx].next, cur[2])]
     /\ dead' = [dead EXCEPT ![CurBlock] =
          Linked(Put(@, cur[2], Grown(Memory, cur[2])), Memory[nx].next, cur[2])]
     /\ free_count' = [free_count EXCEPT ![CurBlock] = @ - 1]
     /\ lost' = [lost EXCEPT ![CurBlock] = @ + 1]
     /\ UNCHANGED <<count, buf_block_map, asked, callVars, ended>>

AbsorbEnds ==
  /\ pc = "absorb" /\ cur[2] \in DOMAIN Memory
  /\ Intact(CurUnit.next) /\ ~FreeNext(Memory, cur[2])
  /\ unit' = [unit EXCEPT ![CurBlock] = Linked(@, CurUnit.next, cur[2])]
  /\ dead' = [dead EXCEPT ![CurBlock] = Linked(@, CurUnit.next, cur[2])]
  /\ pc' = "idle"
  /\ UNCHANGED <<count, free_count, lost, buf_block_map, asked, cur, ended>>

\* The header that i_merge_unit reads, or writes to, is there no more.
Strays ==
  /\ \/ pc \in {"walk", "absorb"} /\ cur[2] \notin DOMAIN Memory
     \/ pc = "walk" /\ cur[2] \in DOMAIN Memory /\ ~Intact(CurUnit.prev)
     \/ pc = "absorb" /\ cur[2] \in DOMAIN Memory /\ ~Intact(CurUnit.next)
     \/ /\ pc = "absorb" /\ cur[2] \in DOMAIN Memory /\ Intact(CurUnit.next)
        /\ FreeNext(Memory, cur[2]) /\ ~Intact(Memory[CurUnit.next].next)
  /\ ended' = "overwritten"
  /\ UNCHANGED <<listVars, buf_block_map, asked, callVars>>

FreeStep == Release \/ WalkBack \/ WalkEnds \/ Absorb \/ AbsorbAgain \/ AbsorbEnds \/ Strays
-----------------------------------------------------------------------------
(* realloc                                                                 *)

\* Mutated form: the header counts twice.
LoosePlace(b, o, n) == n <= unit[b][o].size + HeaderSize

\* new_size <= cur->size, which counts the header too.
InPlace(b, o, n) == n <= unit[b][o].size

ReallocSame(b, o, n) ==
  /\ InPlace(b, o, n)
  /\ Lend(b, o, n)
  /\ UNCHANGED <<listVars, buf_block_map, callVars, ended>>

\* if (!next->bfree), where there is no next.
ReallocLast(b, o, n) ==
  /\ ~InPlace(b, o, n)
  /\ unit[b][o].next = Null
  /\ ended' = "null next"
  /\ UNCHANGED <<listVars, buf_block_map, asked, callVars>>

\* size_able
SizeAble(u, o) == u[o].size + u[u[o].next].size - HeaderSize

Extends(b, o, n) == FreeNext(unit[b], o) /\ n <= SizeAble(unit[b], o)

\* realloc_buffer takes all or a part of the next unit; prev of the one after it
\* is left as it is.
Extended(u, o, n) ==
  LET nx   == u[o].next
      rest == o + NeedLength(n) IN
  IF TakesAll(SizeAble(u, o), n)
  THEN WriteHead(Drop(u, nx), o, SizeAble(u, o) + HeaderSize, FALSE, u[o].prev, u[nx].next)
  ELSE WriteHead(WriteHead(Drop(u, nx), o, NeedLength(n), FALSE, u[o].prev, rest),
                 rest, SizeAble(u, o) - n, TRUE, o, u[nx].next)

ReallocExtend(b, o, n) ==
  /\ ~InPlace(b, o, n)
  /\ Extends(b, o, n)
  /\ unit' = [unit EXCEPT ![b] = Extended(@, o, n)]
  /\ dead' = [dead EXCEPT ![b] = Left(Buried(@, unit[b], o), unit'[b])]
  /\ free_count' = [free_count EXCEPT
       ![b] = IF TakesAll(SizeAble(unit[b], o), n) THEN @ - 1 ELSE @]
  /\ Lend(b, o, n)
  /\ UNCHANGED <<count, lost, buf_block_map, callVars, ended>>

\* memmove(new_buf, old_buf, size): what it leaves of the absorbed headers of c.
Moved(b, o, c, q) ==
  Wiped(Worn(c), q + HeaderSize, q + HeaderSize + unit[b][o].size)

\* alloc, memmove and free_buffer; the old buffer goes even if there is no new
\* one, and its entry of buf_block_map_ stays.
ReallocMove(b, o, n) ==
  /\ ~InPlace(b, o, n)
  /\ unit[b][o].next # Null /\ ~Extends(b, o, n)
  /\ \/ \E c \in Blocks, q \in Offsets :
          /\ AllocFound(n, c, q)
          /\ asked' = [Forget(asked, b, o) EXCEPT ![c] = Put(@, q, n)]
          /\ dead' = [dead EXCEPT ![c] = Moved(b, o, c, q)]
     \/ \E c \in Blocks :
          /\ AllocNew(n, c)
          /\ asked' = [Forget(asked, b, o) EXCEPT ![c] = Put(@, 0, n)]
          /\ dead' = [dead EXCEPT ![c] = Moved(b, o, c, 0)]
     \/ AllocFails(n) /\ asked' = Forget(asked, b, o) /\ UNCHANGED dead
  /\ pc' = "release" /\ cur' = <<b, o>>
  /\ UNCHANGED ended

Realloc(b, o, n) ==
  /\ pc = "idle" /\ Held(b, o)
  /\ \/ ReallocSame(b, o, n) \/ ReallocLast(b, o, n)
     \/ ReallocExtend(b, o, n) \/ ReallocMove(b, o, n)
-----------------------------------------------------------------------------
(* The callers write into what they hold, whatever the pool is doing.       *)

\* An absorbed header x in the buffer at o of b is written over.
Overwrite(b, o, x) ==
  /\ Held(b, o)
  /\ x \in DOMAIN dead[b]
  /\ ~Clear(x, o + HeaderSize, o + HeaderSize + asked[b][o])
  /\ dead' = [dead EXCEPT ![b] = Drop(@, x)]
  /\ UNCHANGED <<count, unit, free_count, lost, buf_block_map, asked, callVars, ended>>

\* The buffer is shorter than what was asked for (ReallocSame), and its caller
\* writes all of it: into the next header, or past the end of the block.
Overrun(b, o) ==
  /\ Held(b, o)
  /\ asked[b][o] + HeaderSize > unit[b][o].size
  /\ ended' = "overrun"
  /\ UNCHANGED <<listVars, buf_block_map, asked, callVars>>
-----------------------------------------------------------------------------
Call ==
  \/ \E n \in Sizes : Alloc(n)
  \/ \E b \in Blocks, o \in Offsets :
       Free(b, o) \/ \E n \in Resizes : Realloc(b, o, n)

CallerWrites ==
  \E b \in Blocks, o \in Offsets : Overrun(b, o) \/ \E x \in Offsets : Overwrite(b, o, x)

Next ==
  /\ ended = "no"
  /\ \/ (\A b \in Blocks : lost[b] <= MaxLost) /\ Call
     \/ FreeStep
     \/ CallerWrites
     \/ InitPool \/ UninitPool

Spec == Init /\ [][Next]_vars

\* The thread inside free or realloc goes on; nobody is obliged to call.
FairSpec == Spec /\ WF_vars(ended = "no" /\ FreeStep)
-----------------------------------------------------------------------------
(* Properties.                                                             *)

Headers == [size : 1 .. BlockSize, bfree : BOOLEAN, prev : Offsets \cup {Null},
            next : Offsets \cup {Null}]

\* For each block, a function of some of its offsets.
Maps(f, S) ==
  /\ f = [b \in Blocks |-> f[b]]
  /\ \A b \in Blocks : DOMAIN f[b] \subseteq Offsets /\ f[b] \in [DOMAIN f[b] -> S]

TypeOK ==
  /\ count \in 0 .. MaxBlocks
  /\ Maps(unit, Headers) /\ Maps(dead, Headers)
  /\ free_count \in [Blocks -> Int] /\ lost \in [Blocks -> Nat]
  /\ buf_block_map \subseteq Blocks \X Offsets
  /\ Maps(asked, Sizes)
  /\ pc \in {"idle", "release", "walk", "absorb"}
  /\ cur \in Blocks \X Offsets
  /\ ended \in {"no", "overwritten", "overrun", "null next", "uninit"}

\* The units of a block follow each other without gap or overlap from its start
\* to its end, in the order of the list (mem_pool.hpp:12-24).
Tiled(u) ==
  /\ 0 \in DOMAIN u
  /\ \A o \in DOMAIN u :
       /\ u[o].next = (IF o + u[o].size = BlockSize THEN Null ELSE o + u[o].size)
       /\ u[o].next # Null => u[o].next \in DOMAIN u
       /\ \A q \in DOMAIN u : o < q => o + u[o].size <= q

\* Splits, merges and reallocs in any order keep the list of units; free_count_
\* falls short of the number of free units by what merges that began at an
\* absorbed header took off it (mem_pool.hpp:187-192), and by nothing else.
UnitsSound ==
  \A b \in Blocks :
    Tiled(unit[b]) /\ free_count[b] + lost[b] = Cardinality(FreeIn(unit[b]))

\* free_count_ is the number of units that are not in use (the comment at
\* mem_pool.hpp:243): a block that has it at 0 is passed over (line 282).
FreeCounted == \A b \in Blocks : free_count[b] = Cardinality(FreeIn(unit[b]))

\* A unit is in use if and only if one caller holds it, and then free() knows it
\* and it has the space that was asked for, but for what ReallocSame takes for
\* space: no more than a header (mem_pool.hpp:102, 337).
Lent ==
  \A b \in Blocks :
    /\ DOMAIN unit[b] \ FreeIn(unit[b])
         = DOMAIN asked[b] \cup (IF pc = "release" /\ CurBlock = b THEN {cur[2]} ELSE {})
    /\ pc = "release" /\ CurBlock = b => cur[2] \notin DOMAIN asked[b]
    /\ \A o \in DOMAIN asked[b] :
         <<b, o>> \in buf_block_map /\ asked[b][o] <= unit[b][o].size

\* The loops of i_merge_unit come to an end, from absorbed headers too
\* (mem_pool.hpp:187, 188), unless one they read has been written over.
FreeReturns == pc # "idle" ~> pc = "idle" \/ ended \in {"overwritten", "overrun"}
=============================================================================
