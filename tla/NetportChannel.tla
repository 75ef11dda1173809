--------------------------- MODULE NetportChannel ---------------------------
(***************************************************************************)
(* The promise of two netports, proved: Netport implements MessageChannel. *)
(*                                                                         *)
(* The promise rests on where each end is in the stream of bytes that the  *)
(* other sends.  The bytes on the wire follow one another as the accepted  *)
(* messages prescribe (Chain).  What is being written continues the last   *)
(* of them, and what waits in cmd_info_list_ and in the queue of the       *)
(* strand comes after that, in the order of the calls and with none left   *)
(* out (Writer).  What is being read continues the bytes read before, of   *)
(* which cmd_hdr, cmd_body and the messages handed up are made (Reader).   *)
(*                                                                         *)
(* At the end: where nothing can move any more, the work is done.          *)
(***************************************************************************)
EXTENDS NetportProofs

-----------------------------------------------------------------------------
(* What an end sends, as a stream of bytes.                                *)

\* The origin of the stream counts as message 0, which is empty.
SizeIn(cl, n) == IF n = 0 THEN 0 ELSE cl[n].size

\* n is the first call after m that was accepted.
IsNext(cl, m, n) ==
  /\ n \in Accepted(cl) /\ m < n
  /\ \A j \in Accepted(cl) : j <= m \/ n <= j

\* The last byte of message n.
End(cl, n) == Image(n, SizeIn(cl, n))

\* Byte c comes right after byte b.
Comes(cl, b, c) ==
  \/ b.i < SizeIn(cl, b.ci) /\ c = Image(b.ci, b.i + 1)
  \/ b = End(cl, b.ci) /\ \E n \in Accepted(cl) : IsNext(cl, b.ci, n) /\ c = Image(n, 0)

\* Places on the wire w, the one before its first byte included.
At(last, w, i) == IF i = 0 THEN last ELSE w[i]
Tip(last, w)   == At(last, w, Len(w))

\* Nothing is lost or out of place on the wire.
Chain(cl, last, w) == \A i \in 1 .. Len(w) : Comes(cl, At(last, w, i - 1), w[i])

\* What waits to be written waits in the order of the calls, behind front.
Ascending(s) == \A i, j \in 1 .. Len(s) : i < j => s[i] < s[j]
SendsAscend(q) ==
  \A i, j \in 1 .. Len(q) :
    i < j /\ q[i].fn = "send" /\ q[j].fn = "send" => q[i].arg < q[j].arg
Sorted(front, list, q) ==
  /\ Ascending(list) /\ SendsAscend(q)
  /\ \A n \in Elems(list) : front < n
  /\ \A fo \in Elems(q) : fo.fn = "send" =>
       front < fo.arg /\ \A n \in Elems(list) : n < fo.arg

\* Nothing is left out.
Complete(cl, front, list, q) ==
  \A n \in Accepted(cl) : n <= front \/ n \in Elems(list) \/ Fo("send", n) \in Elems(q)

\* The message whose bytes came last, or come next.
Front(cur, tip) == IF cur = 0 THEN tip.ci ELSE cur

\* A write in flight has got as far as the tip of the stream.
WriteAt(cl, tip, o) ==
  /\ o.pc \notin {"err", "report"}
  /\ o.ci \in Accepted(cl) /\ o.len = SizeIn(cl, o.ci) + 1
  /\ o.pc = "io" => Comes(cl, tip, Image(o.ci, o.got))
  /\ o.pc # "io" => tip = End(cl, o.ci)

Flowing == link /\ \A e \in Ends : open[e]

Writer(e, tip) ==
  /\ \A o \in WriteOps(ops[e]) : WriteAt(calls[e], tip, o)
  /\ \A fo \in Elems(queue[e]) : fo.fn = "sent" => tip = End(calls[e], cur_send[e])
  /\ cur_send[e] = 0 => tip = End(calls[e], tip.ci) /\ cmd_info_list[e] = <<>>
  /\ Sorted(Front(cur_send[e], tip), cmd_info_list[e], queue[e])
  /\ Complete(calls[e], Front(cur_send[e], tip), cmd_info_list[e], queue[e])

\* The bytes up to last have been read: all of the k-th message and nothing of
\* the next one,
Between(cl, last, k) == last = End(cl, last.ci) /\ Nth(cl, last.ci) = k

\* or the header of the message after it,
HeaderAt(cl, last, k, hdr) ==
  /\ hdr = Image(last.ci, 0)
  /\ last.ci \in Accepted(cl) /\ Nth(cl, last.ci) = k + 1

\* and the first j bytes of its body.
BodyAt(cl, last, j, body) ==
  last = Image(last.ci, j) /\ \A i \in 1 .. j : body[i] = Image(last.ci, i)

\* The same for end d, which reads what its peer sends.
Done(d, last) == Between(calls[Peer(d)], last, Len(delivered[d]))
HeaderIn(d, last) ==
  HeaderAt(calls[Peer(d)], last, Len(delivered[d]), cmd_hdr[d]) /\ last = cmd_hdr[d]
BodyIn(d, last, j) ==
  /\ HeaderAt(calls[Peer(d)], last, Len(delivered[d]), cmd_hdr[d])
  /\ BodyAt(calls[Peer(d)], last, j, cmd_body[d])
  /\ body_len[d] = SizeIn(calls[Peer(d)], last.ci)

\* What a read has done, or the callback it ended with.
ReadAt(d, last, o) ==
  /\ o.kind = "hdr" => /\ o.len = 1
                       /\ o.pc = "io" => Done(d, last)
                       /\ o.pc \in {"ok", "call"} => HeaderIn(d, last)
  /\ o.kind = "body" /\ o.pc \in {"io", "ok", "call"} =>
       /\ BodyIn(d, last, o.off + o.got)
       /\ flag[d] = 0 => o.len = body_len[d]
       /\ o.pc # "io" => o.got = o.len

RecvAt(d, last, arg) ==
  /\ flag[d] = 1 => HeaderIn(d, last)
  /\ flag[d] # 1 => BodyIn(d, last, has_recved[d] + arg)
  /\ flag[d] = 0 => arg = body_len[d]

Reader(d, last) ==
  /\ ~Without(queue[d], {"bind"}) => Done(d, last)
  /\ \A o \in ReadOps(ops[d]) : ReadAt(d, last, o)
  /\ \A fo \in Elems(queue[d]) : fo.fn = "recv" => RecvAt(d, last, fo.arg)

\* What has been read up to, what is on the wire and what is still to be written.
Stream(e, last) ==
  /\ last \in BytesTo(Len(calls[e]))
  /\ Chain(calls[e], last, wire[e])
  /\ Flowing => Writer(e, Tip(last, wire[e]))
  /\ open[Peer(e)] => Reader(Peer(e), last)

\* Each number up to that of the accepted calls is that of one of them.
Numbered(cl) ==
  \A k \in 1 .. Cardinality(Accepted(cl)) : \E n \in Accepted(cl) : Nth(cl, n) = k

\* d is what the k-th message becomes when it is handed up.
Whole(cl, k, d) ==
  LET n == d.hdr.ci
  IN /\ d.hdr = Image(n, 0) /\ n \in Accepted(cl) /\ Nth(cl, n) = k
     /\ d.body = [i \in 1 .. cl[n].size |-> [ci |-> n, i |-> i, enc |-> FALSE]]

InOrder(cl, dl) == \A k \in 1 .. Len(dl) : Whole(cl, k, dl[k])

StreamInv(e) ==
  /\ \E last \in Bytes : Stream(e, last)
  /\ Numbered(calls[e])
  /\ InOrder(calls[e], delivered[Peer(e)])
  /\ open[e] => port_cb[e]

ChannelInv == \A e \in Ends : StreamInv(e)
-----------------------------------------------------------------------------
(* The calls, and how they are numbered.                                   *)

UpTo(cl, n) == {m \in Accepted(cl) : m <= n}

LEMMA CallFacts ==
  ASSUME NEW cl \in Calls
  PROVE  /\ Len(cl) \in Nat /\ Accepted(cl) \subseteq 1 .. Len(cl)
         /\ IsFiniteSet(Accepted(cl)) /\ Cardinality(Accepted(cl)) \in Nat
         /\ \A n \in 1 .. Len(cl) : cl[n].size \in Nat /\ cl[n].ok \in BOOLEAN
         /\ \A n \in 1 .. Len(cl) : cl[n].size \in Sizes /\ cl[n].magic \in Magics
         /\ \A n \in 0 .. Len(cl) : SizeIn(cl, n) \in Nat
<1>1. /\ Len(cl) \in Nat /\ DOMAIN cl = 1 .. Len(cl)
      /\ \A n \in 1 .. Len(cl) : cl[n] \in [size : Sizes, magic : Magics, ok : BOOLEAN]
  BY LenProperties, ElementOfSeq DEF Calls
<1>2. Accepted(cl) \subseteq 1 .. Len(cl)
  BY <1>1 DEF Accepted
<1>3. IsFiniteSet(Accepted(cl)) /\ Cardinality(Accepted(cl)) \in Nat
  <2>1. IsFiniteSet(1 .. Len(cl))
    BY <1>1, FS_Interval
  <2> QED BY <1>2, <2>1, FS_Subset, FS_CardinalityType
<1>4. \A n \in 1 .. Len(cl) : cl[n].size \in Nat
  BY <1>1, Bounds
<1>5. \A n \in 1 .. Len(cl) : cl[n].ok \in BOOLEAN /\ cl[n].size \in Sizes /\ cl[n].magic \in Magics
  BY <1>1
<1>6. \A n \in 0 .. Len(cl) : SizeIn(cl, n) \in Nat
  BY <1>1, <1>4 DEF SizeIn
<1> QED BY <1>1, <1>2, <1>3, <1>4, <1>5, <1>6

LEMMA NthNat ==
  ASSUME NEW cl \in Calls, NEW n
  PROVE  /\ IsFiniteSet(UpTo(cl, n)) /\ Nth(cl, n) = Cardinality(UpTo(cl, n))
         /\ Nth(cl, n) \in Nat /\ Nth(cl, n) <= Cardinality(Accepted(cl))
<1>1. UpTo(cl, n) \subseteq Accepted(cl) /\ Nth(cl, n) = Cardinality(UpTo(cl, n))
  BY DEF UpTo, Nth
<1> QED BY <1>1, CallFacts, FS_Subset, FS_CardinalityType

LEMMA NthZero ==
  ASSUME NEW cl \in Calls
  PROVE  Nth(cl, 0) = 0
<1>1. UpTo(cl, 0) = {}
  BY CallFacts DEF UpTo
<1> QED BY <1>1, NthNat, FS_EmptySet

LEMMA NthNext ==
  ASSUME NEW cl \in Calls, NEW m \in Nat, NEW n, IsNext(cl, m, n)
  PROVE  Nth(cl, n) = Nth(cl, m) + 1
<1>1. Accepted(cl) \subseteq 1 .. Len(cl) /\ Len(cl) \in Nat
  BY CallFacts
<1>2. UpTo(cl, n) = UpTo(cl, m) \cup {n} /\ n \notin UpTo(cl, m)
  BY <1>1 DEF UpTo, IsNext
<1> QED BY <1>2, NthNat, FS_AddElement

LEMMA NthGrows ==
  ASSUME NEW cl \in Calls, NEW m \in Accepted(cl), NEW n \in Accepted(cl), m < n
  PROVE  Nth(cl, m) < Nth(cl, n)
<1>1. Accepted(cl) \subseteq 1 .. Len(cl) /\ Len(cl) \in Nat
  BY CallFacts
<1>2. UpTo(cl, m) \subseteq UpTo(cl, n) \ {n} /\ n \in UpTo(cl, n)
  BY <1>1 DEF UpTo
<1>3. IsFiniteSet(UpTo(cl, n)) /\ Nth(cl, m) = Cardinality(UpTo(cl, m)) /\ Nth(cl, m) \in Nat
      /\ Nth(cl, n) = Cardinality(UpTo(cl, n)) /\ Nth(cl, n) \in Nat
  BY NthNat
<1>4. Cardinality(UpTo(cl, n) \ {n}) = Nth(cl, n) - 1 /\ IsFiniteSet(UpTo(cl, n) \ {n})
  BY <1>2, <1>3, FS_RemoveElement
<1>5. Cardinality(UpTo(cl, m)) <= Cardinality(UpTo(cl, n) \ {n})
  BY <1>2, <1>4, FS_Subset
<1> QED BY <1>3, <1>4, <1>5

\* A number is that of one call at most.
LEMMA NthOfOne ==
  ASSUME NEW cl \in Calls, NEW m \in Accepted(cl), NEW n \in Accepted(cl),
         Nth(cl, m) = Nth(cl, n)
  PROVE  m = n
<1>1. m \in Nat /\ n \in Nat
  BY CallFacts
<1>2. Nth(cl, m) \in Nat /\ Nth(cl, n) \in Nat
  BY NthNat
<1>3. ~(m < n) /\ ~(n < m)
  BY <1>2, NthGrows
<1> QED BY <1>1, <1>3

\* The messages accepted by calls cl, in the order of the calls.
SentBy(cl) ==
  [k \in 1 .. Cardinality(Accepted(cl)) |->
     MessageOf(cl, CHOOSE n \in Accepted(cl) : Nth(cl, n) = k)]

LEMMA SentOf ==
  ASSUME NEW cl \in Calls, NEW n \in Accepted(cl)
  PROVE  /\ Nth(cl, n) \in 1 .. Cardinality(Accepted(cl))
         /\ SentBy(cl)[Nth(cl, n)] = MessageOf(cl, n)
<1> DEFINE k == Nth(cl, n)
<1>1. k \in 1 .. Cardinality(Accepted(cl))
  <2>1. n \in UpTo(cl, n) /\ UpTo(cl, n) # {}
    BY CallFacts DEF UpTo
  <2>2. k # 0
    BY <2>1, NthNat, FS_EmptySet
  <2> QED BY <2>2, NthNat, CallFacts
<1>2. PICK m : m = CHOOSE j \in Accepted(cl) : Nth(cl, j) = k
  OBVIOUS
<1>3. m \in Accepted(cl) /\ Nth(cl, m) = k
  BY <1>2
<1>4. m = n
  BY <1>3, NthOfOne
<1> QED BY <1>1, <1>2, <1>4 DEF SentBy
-----------------------------------------------------------------------------
(* What was said of the calls stays true when there are more of them.      *)

Grown(cl, more) ==
  /\ cl \in Calls /\ more \in Calls
  /\ Len(cl) <= Len(more) /\ \A n \in 1 .. Len(cl) : more[n] = cl[n]

LEMMA GrownAppend ==
  ASSUME NEW cl \in Calls, NEW r \in [size : Sizes, magic : Magics, ok : BOOLEAN]
  PROVE  /\ Grown(cl, Append(cl, r)) /\ Len(Append(cl, r)) = Len(cl) + 1
         /\ Append(cl, r)[Len(cl) + 1] = r /\ Append(cl, r) \in Calls
<1>1. /\ Append(cl, r) \in Calls /\ Len(cl) \in Nat /\ Len(Append(cl, r)) = Len(cl) + 1
      /\ Append(cl, r)[Len(cl) + 1] = r
      /\ \A i \in 1 .. Len(cl) : Append(cl, r)[i] = cl[i]
  BY AppendProperties, LenProperties DEF Calls
<1> QED BY <1>1 DEF Grown

LEMMA GrownSame ==
  ASSUME NEW cl, NEW more, Grown(cl, more)
  PROVE  /\ \A n \in 1 .. Len(cl) : /\ n \in Accepted(more) <=> n \in Accepted(cl)
                                    /\ MessageOf(more, n) = MessageOf(cl, n)
         /\ \A n \in 0 .. Len(cl) : /\ SizeIn(more, n) = SizeIn(cl, n)
                                    /\ End(more, n) = End(cl, n)
                                    /\ Nth(more, n) = Nth(cl, n)
         /\ Accepted(cl) \subseteq Accepted(more) /\ Accepted(cl) \subseteq 1 .. Len(cl)
<1>1. /\ cl \in Calls /\ more \in Calls /\ Len(cl) \in Nat /\ Len(more) \in Nat
      /\ Len(cl) <= Len(more) /\ \A n \in 1 .. Len(cl) : more[n] = cl[n]
      /\ Accepted(cl) \subseteq 1 .. Len(cl)
  BY CallFacts DEF Grown
<1>2. DOMAIN cl = 1 .. Len(cl) /\ DOMAIN more = 1 .. Len(more)
  BY <1>1, LenProperties DEF Calls
<1>3. \A n \in 1 .. Len(cl) : n \in Accepted(more) <=> n \in Accepted(cl)
  BY <1>1, <1>2 DEF Accepted
<1>4. \A n \in 1 .. Len(cl) : MessageOf(more, n) = MessageOf(cl, n)
  BY <1>1 DEF MessageOf
<1>5. \A n \in 0 .. Len(cl) : SizeIn(more, n) = SizeIn(cl, n)
  BY <1>1 DEF SizeIn
<1>6. \A n \in 0 .. Len(cl) : End(more, n) = End(cl, n)
  BY <1>5 DEF End
<1>7. ASSUME NEW n \in 0 .. Len(cl) PROVE Nth(more, n) = Nth(cl, n)
  <2>1. Accepted(more) \subseteq 1 .. Len(more)
    BY <1>1, CallFacts
  <2>2. UpTo(more, n) = UpTo(cl, n)
    BY <1>1, <1>3, <2>1 DEF UpTo
  <2> QED BY <2>2 DEF UpTo, Nth
<1>8. Accepted(cl) \subseteq Accepted(more)
  BY <1>1, <1>3
<1> QED BY <1>1, <1>3, <1>4, <1>5, <1>6, <1>7, <1>8

LEMMA NextGrown ==
  ASSUME NEW cl, NEW more, Grown(cl, more), NEW m, NEW n, IsNext(cl, m, n)
  PROVE  IsNext(more, m, n)
<1>1. n \in Accepted(cl) /\ m < n /\ \A j \in Accepted(cl) : j <= m \/ n <= j
  BY DEF IsNext
<1>2. cl \in Calls /\ more \in Calls
  BY DEF Grown
<1>3. /\ Len(cl) \in Nat /\ Len(more) \in Nat
      /\ Accepted(more) \subseteq 1 .. Len(more) /\ Accepted(cl) \subseteq 1 .. Len(cl)
  BY <1>2, CallFacts
<1>4. n \in Accepted(more) /\ n \in 1 .. Len(cl)
  BY <1>1, GrownSame
<1>5. ASSUME NEW j \in Accepted(more) PROVE j <= m \/ n <= j
  <2>1. CASE j \in 1 .. Len(cl)
    BY <1>1, <2>1, GrownSame
  <2>2. CASE j \notin 1 .. Len(cl)
    BY <1>3, <1>4, <2>2
  <2> QED BY <2>1, <2>2
<1> QED BY <1>1, <1>4, <1>5 DEF IsNext

LEMMA ComesGrown ==
  ASSUME NEW cl, NEW more, Grown(cl, more), NEW b, b.ci \in 0 .. Len(cl), NEW c,
         Comes(cl, b, c)
  PROVE  Comes(more, b, c)
<1>1. SizeIn(more, b.ci) = SizeIn(cl, b.ci) /\ End(more, b.ci) = End(cl, b.ci)
  BY GrownSame
<1>2. \A n : IsNext(cl, b.ci, n) => IsNext(more, b.ci, n)
  BY NextGrown
<1>3. CASE b.i < SizeIn(cl, b.ci) /\ c = Image(b.ci, b.i + 1)
  BY <1>1, <1>3 DEF Comes
<1>4. CASE b = End(cl, b.ci) /\ \E n \in Accepted(cl) : IsNext(cl, b.ci, n) /\ c = Image(n, 0)
  BY <1>1, <1>2, <1>4, GrownSame DEF Comes
<1> QED BY <1>3, <1>4 DEF Comes

\* Where a byte of the stream is from.
LEMMA AtType ==
  ASSUME NEW S, NEW last \in S, NEW w \in Seq(S)
  PROVE  /\ Len(w) \in Nat /\ \A i \in 0 .. Len(w) : At(last, w, i) \in S
         /\ Tip(last, w) \in S
<1>1. Len(w) \in Nat /\ \A i \in 1 .. Len(w) : w[i] \in S
  BY LenProperties, ElementOfSeq
<1>2. \A i \in 0 .. Len(w) : At(last, w, i) \in S
  BY <1>1 DEF At
<1> QED BY <1>1, <1>2 DEF Tip

LEMMA ChainGrown ==
  ASSUME NEW cl, NEW more, Grown(cl, more), NEW last \in BytesTo(Len(cl)),
         NEW w \in Seq(BytesTo(Len(cl))), Chain(cl, last, w)
  PROVE  Chain(more, last, w)
<1> SUFFICES ASSUME NEW i \in 1 .. Len(w)
             PROVE  Comes(more, At(last, w, i - 1), w[i])
  BY DEF Chain
<1>1. Comes(cl, At(last, w, i - 1), w[i])
  BY DEF Chain
<1>2. Len(w) \in Nat /\ i - 1 \in 0 .. Len(w)
  BY LenProperties
<1>3. At(last, w, i - 1) \in BytesTo(Len(cl))
  BY <1>2, AtType
<1>4. At(last, w, i - 1).ci \in 0 .. Len(cl)
  BY <1>3 DEF BytesTo
<1> QED BY <1>1, <1>4, ComesGrown

LEMMA InOrderGrown ==
  ASSUME NEW cl, NEW more, Grown(cl, more), NEW dl, InOrder(cl, dl)
  PROVE  InOrder(more, dl)
<1> SUFFICES ASSUME NEW k \in 1 .. Len(dl) PROVE Whole(more, k, dl[k])
  BY DEF InOrder
<1> DEFINE n == dl[k].hdr.ci
<1>1. /\ dl[k].hdr = Image(n, 0) /\ n \in Accepted(cl) /\ Nth(cl, n) = k
      /\ dl[k].body = [i \in 1 .. cl[n].size |-> [ci |-> n, i |-> i, enc |-> FALSE]]
  BY DEF InOrder, Whole
<1>2. n \in 1 .. Len(cl) /\ n \in 0 .. Len(cl)
  BY <1>1, CallFacts DEF Grown
<1>3. n \in Accepted(more) /\ Nth(more, n) = k /\ more[n] = cl[n]
  BY <1>1, <1>2, GrownSame DEF Grown
<1> QED BY <1>1, <1>3 DEF Whole

LEMMA NumberedGrown ==
  ASSUME NEW cl \in Calls, NEW r \in [size : Sizes, magic : Magics, ok : BOOLEAN],
         NEW more, more = Append(cl, r)
  PROVE  /\ r.ok => /\ Accepted(more) = Accepted(cl) \cup {Len(cl) + 1}
                    /\ Cardinality(Accepted(more)) = Cardinality(Accepted(cl)) + 1
                    /\ Nth(more, Len(cl) + 1) = Cardinality(Accepted(cl)) + 1
         /\ ~r.ok => Accepted(more) = Accepted(cl)
         /\ Numbered(cl) => Numbered(more)
<1> DEFINE n == Len(cl) + 1
<1>1. Grown(cl, more) /\ Len(more) = n /\ more[n] = r /\ more \in Calls
  BY GrownAppend
<1>2. /\ Len(cl) \in Nat /\ Accepted(cl) \subseteq 1 .. Len(cl)
      /\ IsFiniteSet(Accepted(cl)) /\ Cardinality(Accepted(cl)) \in Nat
      /\ Accepted(more) \subseteq 1 .. Len(more)
  BY <1>1, CallFacts
<1>3. \A m \in 1 .. Len(cl) : m \in Accepted(more) <=> m \in Accepted(cl)
  BY <1>1, GrownSame
<1>4. n \in Accepted(more) <=> r.ok
  <2>1. n \in DOMAIN more
    BY <1>1, <1>2, LenProperties DEF Calls
  <2> QED BY <1>1, <2>1 DEF Accepted
<1>5. \A m \in 1 .. Len(more) : m \in 1 .. Len(cl) \/ m = n
  BY <1>1, <1>2
<1>6. n \notin Accepted(cl)
  BY <1>2
<1> HIDE DEF n
<1>7. /\ r.ok => Accepted(more) = Accepted(cl) \cup {n}
      /\ ~r.ok => Accepted(more) = Accepted(cl)
  BY <1>2, <1>3, <1>4, <1>5
<1>8. ASSUME r.ok
      PROVE  /\ Cardinality(Accepted(more)) = Cardinality(Accepted(cl)) + 1
             /\ Nth(more, n) = Cardinality(Accepted(cl)) + 1
  <2>1. Cardinality(Accepted(more)) = Cardinality(Accepted(cl)) + 1
    BY <1>2, <1>6, <1>7, <1>8, FS_AddElement
  <2>2. UpTo(more, n) = Accepted(more)
    BY <1>1, <1>2 DEF UpTo, n
  <2> QED BY <1>1, <2>1, <2>2, NthNat
<1>9. ASSUME Numbered(cl) PROVE Numbered(more)
  <2> SUFFICES ASSUME NEW k \in 1 .. Cardinality(Accepted(more))
               PROVE  \E m \in Accepted(more) : Nth(more, m) = k
    BY DEF Numbered
  <2>1. CASE k \in 1 .. Cardinality(Accepted(cl))
    <3>1. PICK m \in Accepted(cl) : Nth(cl, m) = k
      BY <1>9, <2>1 DEF Numbered
    <3>2. m \in Accepted(more) /\ m \in 0 .. Len(cl)
      BY <1>2, <1>7, <3>1
    <3>3. Nth(more, m) = Nth(cl, m)
      BY <1>1, <3>2, GrownSame
    <3> QED BY <3>1, <3>2, <3>3
  <2>2. CASE k \notin 1 .. Cardinality(Accepted(cl))
    <3>1. r.ok
      BY <1>7, <2>2
    <3>2. k = Cardinality(Accepted(cl)) + 1 /\ n \in Accepted(more)
      BY <1>2, <1>4, <1>8, <2>2, <3>1
    <3> QED BY <1>8, <3>1, <3>2
  <2> QED BY <2>1, <2>2
<1> QED BY <1>7, <1>8, <1>9 DEF n

LEMMA GrownSelf ==
  ASSUME NEW cl \in Calls
  PROVE  Grown(cl, cl)
BY CallFacts DEF Grown
-----------------------------------------------------------------------------
(* Steps that do not read keep what is known of reading.                   *)

Reading(d) == <<flag[d], has_recved[d], cmd_hdr[d], cmd_body[d], body_len[d], delivered[d]>>

LEMMA ReaderKept ==
  ASSUME TypeOK, NEW d \in Ends, NEW last \in BytesTo(Len(calls[Peer(d)])), Reader(d, last),
         Grown(calls[Peer(d)], calls'[Peer(d)]), Reading(d)' = Reading(d),
         ReadOps(ops'[d]) \subseteq ReadOps(ops[d]),
         \A fo \in Elems(queue'[d]) : fo \in Elems(queue[d]) \/ fo.fn \notin {"bind", "recv"}
  PROVE  Reader(d, last)'
<1> DEFINE cl == calls[Peer(d)]
           more == calls'[Peer(d)]
           k == Len(delivered[d])
<1>1. /\ flag'[d] = flag[d] /\ has_recved'[d] = has_recved[d] /\ cmd_hdr'[d] = cmd_hdr[d]
      /\ cmd_body'[d] = cmd_body[d] /\ body_len'[d] = body_len[d] /\ Len(delivered'[d]) = k
  BY DEF Reading
<1>2. last.ci \in 0 .. Len(cl)
  BY DEF BytesTo
<1>3. ASSUME Done(d, last) PROVE Done(d, last)'
  <2>1. last = End(cl, last.ci) /\ Nth(cl, last.ci) = k
    BY <1>3 DEF Done, Between
  <2>2. End(more, last.ci) = End(cl, last.ci) /\ Nth(more, last.ci) = Nth(cl, last.ci)
    BY <1>2, GrownSame
  <2> QED BY <1>1, <2>1, <2>2 DEF Done, Between
<1>4. ASSUME HeaderAt(cl, last, k, cmd_hdr[d])
      PROVE  HeaderAt(more, last, k, cmd_hdr[d])
  <2>1. Nth(more, last.ci) = Nth(cl, last.ci) /\ Accepted(cl) \subseteq Accepted(more)
    BY <1>2, GrownSame
  <2> QED BY <1>4, <2>1 DEF HeaderAt
<1>5. ASSUME HeaderIn(d, last) PROVE HeaderIn(d, last)'
  BY <1>1, <1>4, <1>5 DEF HeaderIn
<1>6. ASSUME NEW j, BodyIn(d, last, j) PROVE BodyIn(d, last, j)'
  <2>1. SizeIn(more, last.ci) = SizeIn(cl, last.ci)
    BY <1>2, GrownSame
  <2> QED BY <1>1, <1>4, <1>6, <2>1 DEF BodyIn, BodyAt
<1>7. ASSUME ~Without(queue'[d], {"bind"}) PROVE Done(d, last)'
  <2>1. ~Without(queue[d], {"bind"})
    BY <1>7 DEF Without
  <2> QED BY <1>3, <2>1 DEF Reader
<1>8. ASSUME NEW o \in ReadOps(ops'[d]) PROVE ReadAt(d, last, o)'
  <2>1. ReadAt(d, last, o)
    BY DEF Reader
  <2> QED BY <1>1, <1>3, <1>5, <1>6, <2>1 DEF ReadAt
<1>9. ASSUME NEW fo \in Elems(queue'[d]), fo.fn = "recv" PROVE RecvAt(d, last, fo.arg)'
  <2>1. RecvAt(d, last, fo.arg)
    BY <1>9 DEF Reader
  <2> QED BY <1>1, <1>5, <1>6, <2>1 DEF RecvAt
<1> QED BY <1>7, <1>8, <1>9 DEF Reader
-----------------------------------------------------------------------------
(* The order of what waits to be sent.                                      *)

\* What waits was accepted, and is not what is being sent.
Waiting(cl, cur, list, q) ==
  /\ cl \in Calls /\ q \in Seq(Fos) /\ list \in Seq(1 .. MaxSends)
  /\ cur \in Accepted(cl) \cup {0}
  /\ \A n \in Elems(list) : n \in Accepted(cl)
  /\ \A fo \in Elems(q) : fo.fn = "send" => fo.arg \in Accepted(cl)

LEMMA AllWaiting ==
  ASSUME TypeOK, NEW e \in Ends, OwnedInv(e)
  PROVE  Waiting(calls[e], cur_send[e], cmd_info_list[e], queue[e])
<1> DEFINE cl == calls[e]
           hp == heap[e]
           q == queue[e]
           list == cmd_info_list[e]
           cur == cur_send[e]
<1>1. Owners(q, list, cur, hp, cl)
  BY OwnersAt
<1>2. /\ cl \in Calls /\ q \in Seq(Fos) /\ list \in Seq(1 .. MaxSends) /\ cur \in 0 .. MaxSends
      /\ MaxSends \in Nat /\ DOMAIN cl = 1 .. Len(cl)
  BY <1>1, Bounds, LenProperties DEF Owners, Calls
<1> HIDE DEF cl, hp, q, list, cur
<1>3. ASSUME NEW n \in Nat \ {0}, HeldBy(q, list, cur, n) # 0 PROVE n \in Accepted(cl)
  <2>1. Owed(hp, cl, n) # 0
    BY <1>1, <1>3, HeldFacts
  <2> QED BY <1>2, <2>1 DEF Owed, Accepted
<1>4. cur \in Accepted(cl) \cup {0}
  <2>1. ASSUME cur # 0 PROVE HeldBy(q, list, cur, cur) # 0
    <3>1. cur \in Nat \ {0}
      BY <1>2, <2>1
    <3> QED BY <1>1, <3>1, HeldFacts
  <2> QED BY <1>2, <1>3, <2>1
<1>5. ASSUME NEW n \in Elems(list) PROVE n \in Accepted(cl)
  <2>1. PICK i \in 1 .. Len(list) : list[i] = n
    BY DEF Elems
  <2>2. n \in Nat \ {0}
    BY <1>2, <2>1, ElementOfSeq
  <2>3. Occurs(list, n) # 0
    BY <1>2, <2>1, OccursNat
  <2>4. HeldBy(q, list, cur, n) # 0
    <3>1. /\ Occurs(q, Fo("send", n)) \in Nat /\ Occurs(list, n) \in Nat
          /\ HeldBy(q, list, cur, n) =
               Occurs(q, Fo("send", n)) + Occurs(list, n) + (IF cur = n THEN 1 ELSE 0)
      BY <1>1, <2>2, HeldFacts
    <3> QED BY <2>3, <3>1
  <2> QED BY <1>3, <2>2, <2>4
<1>6. ASSUME NEW fo \in Elems(q), fo.fn = "send" PROVE fo.arg \in Accepted(cl)
  <2>1. PICK i \in 1 .. Len(q) : q[i] = fo
    BY DEF Elems
  <2>2. fo \in Fos
    BY <1>2, <2>1, ElementOfSeq
  <2>3. fo.arg \in Nat \ {0} /\ fo = Fo("send", fo.arg)
    BY <1>6, <2>2, SendShape DEF OwnedInv, Fos, q
  <2>4. PICK n \in Nat \ {0} : n = fo.arg /\ fo = Fo("send", n)
    BY <2>3
  <2>5. Occurs(q, Fo("send", n)) # 0
    BY <1>2, <2>1, <2>4, OccursNat
  <2>6. HeldBy(q, list, cur, n) # 0
    <3>1. /\ Occurs(q, Fo("send", n)) \in Nat /\ Occurs(list, n) \in Nat
          /\ HeldBy(q, list, cur, n) =
               Occurs(q, Fo("send", n)) + Occurs(list, n) + (IF cur = n THEN 1 ELSE 0)
      BY <1>1, HeldFacts
    <3> QED BY <2>5, <3>1
  <2> QED BY <1>3, <2>4, <2>6
<1>7. Waiting(cl, cur, list, q)
  BY <1>2, <1>4, <1>5, <1>6 DEF Waiting
<1> QED BY <1>7 DEF cl, q, list, cur

LEMMA SeqTail ==
  ASSUME NEW S, NEW s \in Seq(S), s # <<>>
  PROVE  /\ Len(s) \in Nat \ {0} /\ Head(s) = s[1] /\ Len(Tail(s)) = Len(s) - 1
         /\ \A i \in 1 .. Len(Tail(s)) : Tail(s)[i] = s[i + 1] /\ i + 1 \in 1 .. Len(s)
BY EmptySeq, LenProperties, HeadTailProperties

LEMMA SeqAppend ==
  ASSUME NEW S, NEW s \in Seq(S), NEW x \in S
  PROVE  /\ Len(s) \in Nat /\ Len(Append(s, x)) = Len(s) + 1
         /\ \A i \in 1 .. Len(s) : Append(s, x)[i] = s[i]
         /\ \A i \in 1 .. Len(Append(s, x)) : i \in 1 .. Len(s) \/ i = Len(s) + 1
         /\ Append(s, x)[Len(s) + 1] = x
<1>1. /\ Len(s) \in Nat /\ Len(Append(s, x)) = Len(s) + 1 /\ Append(s, x)[Len(s) + 1] = x
      /\ \A i \in 1 .. Len(s) : Append(s, x)[i] = s[i]
  BY AppendProperties, LenProperties
<1>2. \A i \in 1 .. Len(Append(s, x)) : i \in 1 .. Len(s) \/ i = Len(s) + 1
  BY <1>1
<1> QED BY <1>1, <1>2

LEMMA AscendTail ==
  ASSUME NEW s \in Seq(1 .. MaxSends), s # <<>>, Ascending(s)
  PROVE  Ascending(Tail(s)) /\ \A n \in Elems(Tail(s)) : Head(s) < n
<1>1. /\ Len(s) \in Nat \ {0} /\ Head(s) = s[1] /\ Len(Tail(s)) = Len(s) - 1
      /\ \A i \in 1 .. Len(Tail(s)) : Tail(s)[i] = s[i + 1] /\ i + 1 \in 1 .. Len(s)
  BY SeqTail
<1>2. Ascending(Tail(s))
  BY <1>1 DEF Ascending
<1>3. \A i \in 1 .. Len(Tail(s)) : Head(s) < Tail(s)[i]
  BY <1>1 DEF Ascending
<1> QED BY <1>2, <1>3 DEF Elems

LEMMA AscendAppend ==
  ASSUME NEW s \in Seq(Nat), NEW x \in Nat, Ascending(s),
         \A n \in Elems(s) : n < x
  PROVE  Ascending(Append(s, x))
<1>1. /\ Len(s) \in Nat /\ Len(Append(s, x)) = Len(s) + 1
      /\ \A i \in 1 .. Len(s) : Append(s, x)[i] = s[i] /\ s[i] \in Elems(s)
      /\ \A i \in 1 .. Len(Append(s, x)) : i \in 1 .. Len(s) \/ i = Len(s) + 1
      /\ Append(s, x)[Len(s) + 1] = x
  BY SeqAppend DEF Elems
<1> QED BY <1>1 DEF Ascending

LEMMA SendsTail ==
  ASSUME NEW q \in Seq(Fos), q # <<>>, SendsAscend(q)
  PROVE  /\ SendsAscend(Tail(q))
         /\ Head(q).fn = "send" =>
              \A fo \in Elems(Tail(q)) : fo.fn = "send" => Head(q).arg < fo.arg
<1>1. /\ Len(q) \in Nat \ {0} /\ Head(q) = q[1] /\ Len(Tail(q)) = Len(q) - 1
      /\ \A i \in 1 .. Len(Tail(q)) : Tail(q)[i] = q[i + 1] /\ i + 1 \in 1 .. Len(q)
  BY SeqTail
<1>2. SendsAscend(Tail(q))
  BY <1>1 DEF SendsAscend
<1>3. Head(q).fn = "send" =>
        \A i \in 1 .. Len(Tail(q)) : Tail(q)[i].fn = "send" => Head(q).arg < Tail(q)[i].arg
  BY <1>1 DEF SendsAscend
<1> QED BY <1>2, <1>3 DEF Elems

LEMMA SendsAppend ==
  ASSUME NEW q \in Seq(Fos), NEW x \in Fos, SendsAscend(q),
         x.fn = "send" => \A fo \in Elems(q) : fo.fn = "send" => fo.arg < x.arg
  PROVE  SendsAscend(Append(q, x))
<1>1. /\ Len(q) \in Nat /\ Len(Append(q, x)) = Len(q) + 1
      /\ \A i \in 1 .. Len(q) : Append(q, x)[i] = q[i] /\ q[i] \in Elems(q)
      /\ \A i \in 1 .. Len(Append(q, x)) : i \in 1 .. Len(q) \/ i = Len(q) + 1
      /\ Append(q, x)[Len(q) + 1] = x
  BY SeqAppend DEF Elems
<1> QED BY <1>1 DEF SendsAscend

\* What waits is in order behind front, and nothing is left out.
InLine(cl, front, list, q) == Sorted(front, list, q) /\ Complete(cl, front, list, q)

LEMMA LinePost ==
  ASSUME NEW cl, NEW front, NEW list, NEW q \in Seq(Fos), InLine(cl, front, list, q),
         NEW fo \in Fos, fo.fn # "send"
  PROVE  InLine(cl, front, list, Append(q, fo))
<1>1. Elems(Append(q, fo)) = Elems(q) \cup {fo}
  BY ElemsAppend
<1>2. SendsAscend(Append(q, fo))
  BY SendsAppend DEF InLine, Sorted
<1> QED BY <1>1, <1>2 DEF InLine, Sorted, Complete

LEMMA LinePop ==
  ASSUME NEW cl, NEW front, NEW list, NEW q \in Seq(Fos), InLine(cl, front, list, q),
         q # <<>>, Head(q).fn # "send"
  PROVE  InLine(cl, front, list, Tail(q))
<1>1. Elems(q) = {Head(q)} \cup Elems(Tail(q))
  BY ElemsSplit
<1>2. SendsAscend(Tail(q))
  BY SendsTail DEF InLine, Sorted
<1>3. \A n : Head(q) # Fo("send", n)
  BY DEF Fo
<1>4. Sorted(front, list, Tail(q))
  BY <1>1, <1>2 DEF InLine, Sorted
<1> QED BY <1>1, <1>3, <1>4 DEF InLine, Complete

\* send_message adds the newest.
LEMMA LineCall ==
  ASSUME NEW cl, NEW cur, NEW list, NEW q, Waiting(cl, cur, list, q),
         NEW front \in 0 .. Len(cl), InLine(cl, front, list, q),
         NEW r \in [size : Sizes, magic : Magics, ok : BOOLEAN],
         NEW m \in 1 .. MaxSends, m = Len(cl) + 1
  PROVE  InLine(Append(cl, r), front, list, IF r.ok THEN Append(q, Fo("send", m)) ELSE q)
<1> DEFINE more == Append(cl, r)
           fo == Fo("send", m)
<1>1. /\ cl \in Calls /\ Len(cl) \in Nat /\ Accepted(cl) \subseteq 1 .. Len(cl) /\ q \in Seq(Fos)
  BY CallFacts DEF Waiting
<1>2. /\ r.ok => Accepted(more) = Accepted(cl) \cup {m}
      /\ ~r.ok => Accepted(more) = Accepted(cl)
  BY <1>1, NumberedGrown
<1>3. fo \in Fos /\ fo.fn = "send" /\ fo.arg = m
  BY <1>1, Bounds DEF Fo, Fos
<1>4. /\ \A n \in Elems(list) : n < m
      /\ \A p \in Elems(q) : p.fn = "send" => p.arg < m
      /\ front < m
  BY <1>1 DEF Waiting
<1> HIDE DEF more, fo
<1>5. CASE r.ok
  <2>1. Elems(Append(q, fo)) = Elems(q) \cup {fo}
    BY <1>1, <1>3, ElemsAppend
  <2>2. SendsAscend(Append(q, fo))
    BY <1>1, <1>3, <1>4, SendsAppend DEF InLine, Sorted
  <2>3. Sorted(front, list, Append(q, fo))
    BY <1>3, <1>4, <2>1, <2>2 DEF InLine, Sorted
  <2>4. Complete(more, front, list, Append(q, fo))
    BY <1>2, <1>5, <2>1 DEF InLine, Complete, fo
  <2> QED BY <1>5, <2>3, <2>4 DEF InLine, more, fo
<1>6. CASE ~r.ok
  BY <1>2, <1>6 DEF InLine, Complete, more
<1> QED BY <1>5, <1>6

\* i_send_message_strand puts it at the end of cmd_info_list_, or sends it at
\* once if nothing else waits.
LEMMA LineTake ==
  ASSUME NEW cl, NEW cur, NEW list, NEW q, Waiting(cl, cur, list, q),
         NEW front \in Nat, InLine(cl, front, list, q),
         q # <<>>, Head(q).fn = "send", NEW m, m = Head(q).arg
  PROVE  /\ m \in Accepted(cl)
         /\ InLine(cl, front, Append(list, m), Tail(q))
         /\ list = <<>> => IsNext(cl, front, m) /\ InLine(cl, m, list, Tail(q))
<1>1. /\ cl \in Calls /\ q \in Seq(Fos) /\ Len(cl) \in Nat /\ Accepted(cl) \subseteq 1 .. Len(cl)
      /\ list \in Seq(1 .. MaxSends) /\ MaxSends \in Nat
  BY CallFacts, Bounds DEF Waiting
<1>2. Elems(q) = {Head(q)} \cup Elems(Tail(q)) /\ Head(q) \in Fos /\ Tail(q) \in Seq(Fos)
  BY <1>1, ElemsSplit, ElemsTail
<1>3. m \in Accepted(cl) /\ m \in Nat /\ Head(q) = Fo("send", m)
  BY <1>1, <1>2, SendShape DEF Waiting
<1>4. /\ SendsAscend(Tail(q))
      /\ \A fo \in Elems(Tail(q)) : fo.fn = "send" => m < fo.arg
  BY <1>1, SendsTail DEF InLine, Sorted
<1>5. /\ front < m /\ \A n \in Elems(list) : n < m /\ front < n
      /\ Ascending(list)
      /\ \A fo \in Elems(Tail(q)) : fo.fn = "send" =>
           front < fo.arg /\ \A n \in Elems(list) : n < fo.arg
  BY <1>2 DEF InLine, Sorted
<1>6. \A n \in Accepted(cl) :
        n <= front \/ n \in Elems(list) \/ n = m \/ Fo("send", n) \in Elems(Tail(q))
  <2>1. \A n \in Accepted(cl) : n <= front \/ n \in Elems(list) \/ Fo("send", n) \in Elems(q)
    BY DEF InLine, Complete
  <2>2. \A n : Head(q) = Fo("send", n) => n = m
    BY <1>3 DEF Fo
  <2> QED BY <1>2, <2>1, <2>2
<1>7. InLine(cl, front, Append(list, m), Tail(q))
  <2>1. list \in Seq(Nat)
    <3>1. 1 .. MaxSends \subseteq Nat
      OBVIOUS
    <3> QED BY <1>1, <3>1, SeqMonotonic
  <2>2. Elems(Append(list, m)) = Elems(list) \cup {m}
    BY <1>3, <2>1, ElemsAppend
  <2>3. Ascending(Append(list, m))
    BY <1>3, <1>5, <2>1, AscendAppend
  <2>4. Sorted(front, Append(list, m), Tail(q))
    BY <1>4, <1>5, <2>2, <2>3 DEF Sorted
  <2>5. Complete(cl, front, Append(list, m), Tail(q))
    BY <1>6, <2>2 DEF Complete
  <2> QED BY <2>4, <2>5 DEF InLine
<1>8. ASSUME list = <<>> PROVE IsNext(cl, front, m) /\ InLine(cl, m, list, Tail(q))
  <2>1. Elems(list) = {}
    BY <1>8 DEF Elems
  <2>2. ASSUME NEW n \in Accepted(cl)
        PROVE  n <= front \/ n = m \/ (Fo("send", n) \in Elems(Tail(q)) /\ m < n)
    <3>1. Fo("send", n) \in Elems(Tail(q)) => m < n
      BY <1>4 DEF Fo
    <3>2. n <= front \/ n \in Elems(list) \/ n = m \/ Fo("send", n) \in Elems(Tail(q))
      BY <1>6
    <3>3. n \notin Elems(list)
      BY <2>1
    <3> QED BY <3>1, <3>2, <3>3
  <2>3. IsNext(cl, front, m)
    <3>1. \A n \in Accepted(cl) : n <= front \/ m <= n
      <4> TAKE n \in Accepted(cl)
      <4>1. n \in Nat
        BY <1>1
      <4> QED BY <1>3, <2>2, <4>1
    <3> QED BY <1>3, <1>5, <3>1 DEF IsNext
  <2>4. Sorted(m, list, Tail(q))
    BY <1>4, <1>5, <2>1 DEF Sorted
  <2>5. Complete(cl, m, list, Tail(q))
    <3>1. ASSUME NEW n \in Accepted(cl) PROVE n <= m \/ Fo("send", n) \in Elems(Tail(q))
      <4>1. n \in Nat /\ m \in Nat /\ front < m
        BY <1>1, <1>3, <1>5
      <4>2. n <= front \/ n = m => n <= m
        BY <4>1
      <4> QED BY <2>2, <4>2, Zenon
    <3> QED BY <3>1, Zenon DEF Complete
  <2> QED BY <2>3, <2>4, <2>5 DEF InLine
<1> QED BY <1>3, <1>7, <1>8

\* i_on_send_strand sends what waits at the front of cmd_info_list_.
LEMMA LineNext ==
  ASSUME NEW cl, NEW cur, NEW list, NEW q, Waiting(cl, cur, list, q),
         NEW front \in Nat, InLine(cl, front, list, q), list # <<>>, NEW m, m = Head(list)
  PROVE  /\ m \in Accepted(cl) /\ IsNext(cl, front, m)
         /\ InLine(cl, m, Tail(list), q)
<1>1. /\ cl \in Calls /\ Len(cl) \in Nat /\ Accepted(cl) \subseteq 1 .. Len(cl)
      /\ list \in Seq(1 .. MaxSends)
  BY CallFacts DEF Waiting
<1>2. Elems(list) = {m} \cup Elems(Tail(list))
  BY <1>1, ElemsSplit
<1>3. m \in Accepted(cl) /\ m \in Nat /\ \A n \in Accepted(cl) : n \in Nat
  <2>1. m \in Accepted(cl)
    BY <1>2 DEF Waiting
  <2> QED BY <1>1, <2>1
<1>4. Ascending(Tail(list)) /\ \A n \in Elems(Tail(list)) : m < n
  BY <1>1, AscendTail DEF InLine, Sorted
<1>5. /\ SendsAscend(q) /\ front < m
      /\ \A fo \in Elems(q) : fo.fn = "send" =>
           m < fo.arg /\ \A n \in Elems(Tail(list)) : n < fo.arg
  BY <1>2 DEF InLine, Sorted
<1>6. \A n \in Accepted(cl) :
        n <= front \/ n = m \/ n \in Elems(Tail(list)) \/ Fo("send", n) \in Elems(q)
  BY <1>2 DEF InLine, Complete
<1>7. \A n \in Accepted(cl) : Fo("send", n) \in Elems(q) => m < n
  BY <1>5 DEF Fo
<1>8. IsNext(cl, front, m)
  BY <1>3, <1>4, <1>5, <1>6, <1>7 DEF IsNext
<1>9. Sorted(m, Tail(list), q)
  BY <1>4, <1>5 DEF Sorted
<1>10. Complete(cl, m, Tail(list), q)
  BY <1>3, <1>5, <1>6 DEF Complete
<1> QED BY <1>3, <1>8, <1>9, <1>10 DEF InLine
-----------------------------------------------------------------------------
(* Steps of the end that writes.                                           *)

\* An end that is closed stays closed, and has callbacks until then.
LEMMA OpenBefore ==
  ASSUME TypeOK, NEW e \in Ends, EndStep(e)
  PROVE  /\ link' = link /\ open'[Peer(e)] = open[Peer(e)] /\ (open'[e] => open[e])
         /\ open'[e] => port_cb'[e] = port_cb[e]
         /\ ClearStrand(e) \/ OnErrorStrand(e) => ~open'[e]
<1>1. open'[Peer(e)] = open[Peer(e)]
  BY EndFacts, OtherOwn DEF Own
<1>2. CASE SendMessage(e) \/ Clear(e) \/ BindSocketStrand(e) \/ SendMessageStrand(e)
             \/ OnSendStrand(e) \/ OnRecvStrand(e)
  <2>1. UNCHANGED <<link, open, port_cb>>
    BY <1>2 DEF SendMessage, Clear, BindSocketStrand, SendMessageStrand, OnSendStrand,
                OnRecvStrand, netVars, sockVars, userVars
  <2>3. ASSUME ClearStrand(e) \/ OnErrorStrand(e) PROVE ~open'[e]
    BY <2>3 DEF ClearStrand, OnErrorStrand, DoClear, Set, TypeOK
  <2> QED BY <1>1, <2>1, <2>3
<1>3. CASE ClearStrand(e) \/ OnErrorStrand(e)
  <2>1. link' = link /\ open' = Set(open, e, FALSE)
    BY <1>3 DEF ClearStrand, OnErrorStrand, DoClear, netVars
  <2>2. ~open'[e]
    BY <2>1 DEF Set, TypeOK
  <2> QED BY <1>1, <2>1, <2>2
<1>4. CASE \E o \in ops[e] : IoStep(e, o)
  <2>1. UNCHANGED <<link, open, port_cb>>
    BY <1>4 DEF IoStep, IoWrite, IoRead, IoFail, HandlerCopy, HandlerCall, netVars, sockVars,
                userVars
  <2>2. ASSUME ClearStrand(e) \/ OnErrorStrand(e) PROVE ~open'[e]
    BY <2>2 DEF ClearStrand, OnErrorStrand, DoClear, Set, TypeOK
  <2> QED BY <1>1, <2>1, <2>2
<1> QED BY <1>2, <1>3, <1>4 DEF EndStep, StrandStep

\* A queue changes, but nothing in it that is to be sent.
QueueMoves(q, new) ==
  \/ new = q
  \/ q # <<>> /\ Head(q).fn # "send" /\ new = Tail(q)
  \/ \E fo \in Fos :
       /\ fo.fn \notin {"send", "sent"}
       /\ \/ new = Append(q, fo)
          \/ q # <<>> /\ Head(q).fn # "send" /\ new = Append(Tail(q), fo)

LEMMA LineMoves ==
  ASSUME NEW cl, NEW front, NEW list, NEW q \in Seq(Fos), InLine(cl, front, list, q),
         NEW new, QueueMoves(q, new)
  PROVE  /\ InLine(cl, front, list, new)
         /\ \A fo \in Elems(new) : fo.fn = "sent" => fo \in Elems(q)
<1>1. CASE new = q
  BY <1>1
<1>2. CASE q # <<>> /\ Head(q).fn # "send" /\ new = Tail(q)
  BY <1>2, LinePop, ElemsTail
<1>3. ASSUME NEW fo \in Fos, fo.fn \notin {"send", "sent"}, new = Append(q, fo)
      PROVE  /\ InLine(cl, front, list, new)
             /\ \A p \in Elems(new) : p.fn = "sent" => p \in Elems(q)
  BY <1>3, LinePost, ElemsAppend
<1>4. ASSUME NEW fo \in Fos, fo.fn \notin {"send", "sent"}, q # <<>>, Head(q).fn # "send",
             new = Append(Tail(q), fo)
      PROVE  /\ InLine(cl, front, list, new)
             /\ \A p \in Elems(new) : p.fn = "sent" => p \in Elems(q)
  <2>1. InLine(cl, front, list, Tail(q)) /\ Tail(q) \in Seq(Fos) /\ Elems(Tail(q)) \subseteq Elems(q)
    <3>1. InLine(cl, front, list, Tail(q))
      BY <1>4, LinePop
    <3>2. Tail(q) \in Seq(Fos) /\ Elems(Tail(q)) \subseteq Elems(q)
      <4>1. q # <<>>
        BY <1>4
      <4> QED BY <4>1, ElemsTail, Zenon
    <3> QED BY <3>1, <3>2
  <2>2. Elems(Append(Tail(q), fo)) = Elems(Tail(q)) \cup {fo}
    <3>1. PICK rest \in Seq(Fos) : rest = Tail(q)
      BY <2>1
    <3>2. Elems(Append(rest, fo)) = Elems(rest) \cup {fo}
      BY ElemsAppend
    <3> QED BY <3>1, <3>2
  <2>3. fo.fn \notin {"send", "sent"} /\ new = Append(Tail(q), fo)
    BY <1>4
  <2>4. InLine(cl, front, list, new)
    BY <2>1, <2>3, LinePost
  <2> QED BY <2>1, <2>2, <2>3, <2>4
<1> QED BY <1>1, <1>2, <1>3, <1>4 DEF QueueMoves

\* Steps that have no part in writing.
LEMMA WriterKept ==
  ASSUME TypeOK, NEW e \in Ends, NEW tip, Writer(e, tip),
         calls'[e] = calls[e], cur_send'[e] = cur_send[e],
         cmd_info_list'[e] = cmd_info_list[e],
         QueueMoves(queue[e], queue'[e]), WriteOps(ops'[e]) \subseteq WriteOps(ops[e])
  PROVE  Writer(e, tip)'
<1> DEFINE front == Front(cur_send[e], tip)
<1>1. queue[e] \in Seq(Fos) /\ InLine(calls[e], front, cmd_info_list[e], queue[e])
  BY DEF TypeOK, Writer, InLine
<1>2. /\ InLine(calls[e], front, cmd_info_list[e], queue'[e])
      /\ \A fo \in Elems(queue'[e]) : fo.fn = "sent" => fo \in Elems(queue[e])
  BY <1>1, LineMoves
<1>3. \A o \in WriteOps(ops'[e]) : WriteAt(calls[e], tip, o)
  BY DEF Writer
<1>4. \A fo \in Elems(queue'[e]) : fo.fn = "sent" => tip = End(calls[e], cur_send[e])
  BY <1>2 DEF Writer
<1>5. cur_send[e] = 0 => tip = End(calls[e], tip.ci) /\ cmd_info_list[e] = <<>>
  BY DEF Writer
<1> QED BY <1>2, <1>3, <1>4, <1>5 DEF Writer, InLine

LEMMA ReadStarts ==
  ASSUME TypeOK, NEW e \in Ends, NEW o, o.kind # "write", Start(e, o)
  PROVE  WriteOps(ops'[e]) = WriteOps(ops[e])
BY DEF Start, Set, TypeOK, WriteOps

LEMMA WriterOther ==
  ASSUME TypeOK, NEW e \in Ends, NEW tip, Writer(e, tip),
         Clear(e) \/ BindSocketStrand(e) \/ OnRecvStrand(e)
  PROVE  Writer(e, tip)'
<1>1. UNCHANGED <<calls, cur_send, cmd_info_list>>
  BY DEF Clear, BindSocketStrand, OnRecvStrand, sendVars
<1>2. WriteOps(ops'[e]) = WriteOps(ops[e])
  <2>1. ASSUME NEW ci, NEW off, NEW len, NEW kind \in {"hdr", "body"}, Start(e, Op(kind, ci, off, len))
        PROVE  WriteOps(ops'[e]) = WriteOps(ops[e])
    BY <2>1, ReadStarts DEF Op
  <2>2. CASE Clear(e)
    BY <2>2 DEF Clear
  <2>3. CASE BindSocketStrand(e)
    BY <2>1, <2>3 DEF BindSocketStrand, ReadHeader
  <2>4. CASE OnRecvStrand(e)
    BY <2>1, <2>4 DEF OnRecvStrand, WholeBody, BadHeader, EmptyBody, StartBody, LastPiece,
                      NextPiece, FinishCommand, ReadHeader
  <2> QED BY <2>2, <2>3, <2>4
<1>3. QueueMoves(queue[e], queue'[e])
  <2>1. \A fn \in {"clear", "error"} :
          Fo(fn, 0) \in Fos /\ Fo(fn, 0).fn \notin {"send", "sent"}
    BY DEF Fo, Fos
  <2>2. CASE Clear(e)
    <3>1. queue'[e] = Append(queue[e], Fo("clear", 0)) \/ queue'[e] = queue[e]
      BY <2>2 DEF Clear, Set, TypeOK
    <3> QED BY <2>1, <3>1 DEF QueueMoves
  <2>3. ASSUME Pop(e), queue[e] # <<>>, Head(queue[e]).fn # "send"
        PROVE  QueueMoves(queue[e], queue'[e])
    BY <2>3 DEF Pop, QueueMoves, Set, TypeOK
  <2>4. CASE BindSocketStrand(e)
    BY <2>3, <2>4 DEF BindSocketStrand, Runs
  <2>5. CASE OnRecvStrand(e)
    <3>1. queue[e] # <<>> /\ Head(queue[e]).fn = "recv"
      BY <2>5 DEF OnRecvStrand, Runs
    <3>2. Pop(e) \/ queue' = Set(queue, e, Append(Tail(queue[e]), Fo("error", 0)))
      BY <2>5 DEF OnRecvStrand, WholeBody, BadHeader, EmptyBody, StartBody, LastPiece,
                  NextPiece
    <3>3. CASE queue' = Set(queue, e, Append(Tail(queue[e]), Fo("error", 0)))
      <4>1. queue'[e] = Append(Tail(queue[e]), Fo("error", 0))
        BY <3>3 DEF Set, TypeOK
      <4> QED BY <2>1, <3>1, <4>1 DEF QueueMoves
    <3> QED BY <2>3, <3>1, <3>2, <3>3
  <2> QED BY <2>2, <2>4, <2>5
<1> QED BY <1>1, <1>2, <1>3, WriterKept

LEMMA SendMessageFacts ==
  ASSUME TypeOK, NEW e \in Ends, SendMessage(e)
  PROVE  /\ UNCHANGED <<recvVars, cur_send, cmd_info_list, sockVars, userVars, netVars, ops>>
         /\ Len(calls[e]) + 1 \in 1 .. MaxSends
         /\ \E r \in [size : Sizes, magic : Magics, ok : BOOLEAN] :
              /\ calls' = Set(calls, e, Append(calls[e], r))
              /\ calls'[e] = Append(calls[e], r)
              /\ queue'[e] = IF r.ok THEN Append(queue[e], Fo("send", Len(calls[e]) + 1))
                             ELSE queue[e]
<1>1. /\ UNCHANGED <<recvVars, cur_send, cmd_info_list, sockVars, userVars, netVars, ops>>
      /\ Len(calls[e]) < MaxSends
  BY DEF SendMessage
<1>2. Len(calls[e]) + 1 \in 1 .. MaxSends
  BY <1>1, LenCalls, Bounds
<1>3. PICK size \in Sizes, magic \in Magics, ok \in {TRUE, ~MayRefuse} :
        /\ calls' = Set(calls, e, Append(calls[e], [size |-> size, magic |-> magic, ok |-> ok]))
        /\ queue' = IF ok THEN Set(queue, e, Append(queue[e], Fo("send", Len(calls[e]) + 1)))
                    ELSE queue
  BY DEF SendMessage
<1>4. PICK r : r = [size |-> size, magic |-> magic, ok |-> ok]
  OBVIOUS
<1>5. r \in [size : Sizes, magic : Magics, ok : BOOLEAN]
  BY <1>4, ParameterAssumption
<1>6. calls' = Set(calls, e, Append(calls[e], r)) /\ calls'[e] = Append(calls[e], r)
  BY <1>3, <1>4 DEF Set, TypeOK
<1>7. queue'[e] = IF r.ok THEN Append(queue[e], Fo("send", Len(calls[e]) + 1)) ELSE queue[e]
  <2>1. r.ok = ok
    BY <1>4
  <2>2. CASE ok
    BY <1>3, <2>1, <2>2 DEF Set, TypeOK
  <2>3. CASE ~ok
    BY <1>3, <2>1, <2>3
  <2> QED BY <2>2, <2>3
<1> QED BY <1>1, <1>2, <1>5, <1>6, <1>7

LEMMA WriterCalls ==
  ASSUME TypeOK, NEW e \in Ends, OwnedInv(e), NEW tip \in BytesTo(Len(calls[e])),
         Writer(e, tip), SendMessage(e)
  PROVE  Writer(e, tip)'
<1> DEFINE cl == calls[e]
           more == calls'[e]
           cur == cur_send[e]
           list == cmd_info_list[e]
           q == queue[e]
           front == Front(cur, tip)
           m == Len(cl) + 1
<1>1. /\ cur_send'[e] = cur /\ cmd_info_list'[e] = list /\ ops'[e] = ops[e] /\ m \in 1 .. MaxSends
  BY SendMessageFacts
<1>2. PICK r \in [size : Sizes, magic : Magics, ok : BOOLEAN] :
        /\ more = Append(cl, r)
        /\ queue'[e] = IF r.ok THEN Append(q, Fo("send", m)) ELSE q
  BY SendMessageFacts
<1>3. Waiting(cl, cur, list, q) /\ cl \in Calls /\ q \in Seq(Fos)
  BY AllWaiting DEF Waiting
<1>4. Grown(cl, more) /\ Len(cl) \in Nat /\ Accepted(cl) \subseteq 1 .. Len(cl)
  BY <1>2, <1>3, GrownAppend, CallFacts
<1>5. tip.ci \in 0 .. Len(cl) /\ cur \in 0 .. Len(cl) /\ front \in 0 .. Len(cl)
  BY <1>3, <1>4 DEF BytesTo, Waiting, Front
<1>6. /\ InLine(cl, front, list, q)
      /\ \A o \in WriteOps(ops[e]) : WriteAt(cl, tip, o)
      /\ \A fo \in Elems(q) : fo.fn = "sent" => tip = End(cl, cur)
      /\ cur = 0 => tip = End(cl, tip.ci) /\ list = <<>>
  BY DEF Writer, InLine
<1> HIDE DEF cl, more, cur, list, q, front, m
<1>7. InLine(more, front, list, queue'[e])
  <2>1. m = Len(cl) + 1
    BY DEF m
  <2> QED BY <1>1, <1>2, <1>3, <1>5, <1>6, <2>1, LineCall
<1>8. /\ End(more, cur) = End(cl, cur) /\ End(more, tip.ci) = End(cl, tip.ci)
      /\ Accepted(cl) \subseteq Accepted(more)
      /\ \A n \in 1 .. Len(cl) : SizeIn(more, n) = SizeIn(cl, n) /\ End(more, n) = End(cl, n)
  BY <1>4, <1>5, GrownSame
<1>9. \A fo \in Elems(queue'[e]) : fo.fn = "sent" => fo \in Elems(q)
  <2>1. CASE r.ok
    <3>1. Fo("send", m) \in Fos /\ Fo("send", m).fn = "send"
      BY <1>1 DEF Fo, Fos
    <3>2. Elems(queue'[e]) = Elems(q) \cup {Fo("send", m)}
      BY <1>2, <1>3, <2>1, <3>1, ElemsAppend
    <3> QED BY <3>1, <3>2
  <2>2. CASE ~r.ok
    BY <1>2, <2>2
  <2> QED BY <2>1, <2>2
<1>10. ASSUME NEW o \in WriteOps(ops[e]) PROVE WriteAt(more, tip, o)
  <2>1. WriteAt(cl, tip, o)
    BY <1>6
  <2>2. o.ci \in Accepted(cl) /\ o.ci \in 1 .. Len(cl)
    BY <1>4, <2>1 DEF WriteAt
  <2>3. \A c : Comes(cl, tip, c) => Comes(more, tip, c)
    BY <1>4, <1>5, ComesGrown
  <2> QED BY <1>8, <2>1, <2>2, <2>3 DEF WriteAt
<1>11. /\ \A fo \in Elems(queue'[e]) : fo.fn = "sent" => tip = End(more, cur)
       /\ cur = 0 => tip = End(more, tip.ci) /\ list = <<>>
  BY <1>6, <1>8, <1>9
<1> QED BY <1>1, <1>7, <1>10, <1>11 DEF Writer, InLine, cl, more, cur, list, q, front

LEMMA ImageFields ==
  ASSUME NEW n, NEW i
  PROVE  Image(n, i).ci = n /\ Image(n, i).i = i
BY DEF Image

\* A write that starts goes on where the stream ends.
LEMMA WriteStarts ==
  ASSUME TypeOK, NEW e \in Ends, NEW tip, NEW m \in Accepted(calls[e]),
         tip = End(calls[e], tip.ci), IsNext(calls[e], tip.ci, m)
  PROVE  WriteAt(calls[e], tip, Write(e, m))
<1>1. m \in 1 .. Len(calls[e]) /\ Len(calls[e]) \in Nat
  BY LenCalls, CallFacts
<1>2. Comes(calls[e], tip, Image(m, 0))
  BY DEF Comes
<1>3. /\ Write(e, m).pc = "io" /\ Write(e, m).ci = m /\ Write(e, m).got = 0
      /\ Write(e, m).len = calls[e][m].size + 1
  BY DEF Write, Op
<1>4. SizeIn(calls[e], m) = calls[e][m].size
  BY <1>1 DEF SizeIn
<1> QED BY <1>2, <1>3, <1>4 DEF WriteAt

LEMMA WriterSends ==
  ASSUME TypeOK, NEW e \in Ends, EndInv(e), NEW tip \in BytesTo(Len(calls[e])),
         Writer(e, tip), SendMessageStrand(e), open[e]
  PROVE  Writer(e, tip)'
<1> DEFINE cl == calls[e]
           cur == cur_send[e]
           list == cmd_info_list[e]
           q == queue[e]
           front == Front(cur, tip)
           m == Arg(e)
<1>1. /\ q # <<>> /\ Head(q).fn = "send" /\ m = Head(q).arg /\ queue'[e] = Tail(q)
      /\ calls'[e] = cl
      /\ QueueSend(e) \/ StartSend(e)
  BY DEF SendMessageStrand, Runs, Pop, Set, TypeOK, Arg, DropSend
<1>2. Waiting(cl, cur, list, q) /\ cl \in Calls /\ q \in Seq(Fos)
  BY AllWaiting DEF Waiting, EndInv
<1>3. Len(cl) \in Nat /\ Accepted(cl) \subseteq 1 .. Len(cl)
  BY <1>2, CallFacts
<1>4. tip.ci \in Nat /\ front \in Nat
  BY <1>2, <1>3 DEF BytesTo, Waiting, Front
<1>5. /\ InLine(cl, front, list, q)
      /\ \A o \in WriteOps(ops[e]) : WriteAt(cl, tip, o)
      /\ \A fo \in Elems(q) : fo.fn = "sent" => tip = End(cl, cur)
      /\ cur = 0 => tip = End(cl, tip.ci) /\ list = <<>>
  BY DEF Writer, InLine
<1>6. Elems(queue'[e]) \subseteq Elems(q)
  BY <1>1, <1>2, ElemsTail
<1>7. ASSUME QueueSend(e) PROVE Writer(e, tip)'
  <2>1. /\ cur # 0 /\ cur_send'[e] = cur /\ ops'[e] = ops[e]
        /\ cmd_info_list'[e] = Append(list, m)
    BY <1>7 DEF QueueSend, Sending, Set, TypeOK
  <2> HIDE DEF cl, cur, list, q, front, m
  <2>2. InLine(cl, front, Append(list, m), Tail(q))
    BY <1>1, <1>2, <1>4, <1>5, LineTake
  <2> QED BY <1>1, <1>5, <1>6, <2>1, <2>2 DEF Writer, InLine, cl, cur, list, q, front
<1>8. ASSUME StartSend(e) PROVE Writer(e, tip)'
  <2>1. /\ cur = 0 /\ cur_send'[e] = m /\ cmd_info_list'[e] = list
        /\ ops'[e] = ops[e] \cup {Write(e, m)}
    BY <1>8 DEF StartSend, Sending, Start, Set, TypeOK
  <2>2. WriteOps(ops[e]) = {} /\ Without(q, {"sent"})
    BY <2>1 DEF EndInv, Current
  <2>3. front = tip.ci
    BY <2>1 DEF Front
  <2> HIDE DEF cl, cur, list, q, front, m
  <2>4. m \in Accepted(cl) /\ IsNext(cl, front, m) /\ InLine(cl, m, list, Tail(q))
    BY <1>1, <1>2, <1>4, <1>5, <2>1, LineTake
  <2>5. WriteAt(cl, tip, Write(e, m))
    BY <1>5, <2>1, <2>3, <2>4, WriteStarts DEF cl
  <2>6. \A o \in WriteOps(ops'[e]) : WriteAt(cl, tip, o)
    BY <2>1, <2>2, <2>5 DEF WriteOps
  <2>7. \A fo \in Elems(queue'[e]) : fo.fn # "sent"
    BY <1>6, <2>2 DEF Without
  <2>8. m # 0 /\ Front(m, tip) = m
    BY <1>3, <2>4 DEF Front
  <2> QED BY <1>1, <2>1, <2>4, <2>6, <2>7, <2>8 DEF Writer, InLine, cl, list
<1> QED BY <1>1, <1>7, <1>8

LEMMA WriterSent ==
  ASSUME TypeOK, NEW e \in Ends, EndInv(e), NEW tip \in BytesTo(Len(calls[e])),
         Writer(e, tip), OnSendStrand(e), open[e]
  PROVE  Writer(e, tip)'
<1> DEFINE cl == calls[e]
           cur == cur_send[e]
           list == cmd_info_list[e]
           q == queue[e]
<1>1. /\ q # <<>> /\ Head(q).fn = "sent" /\ queue'[e] = Tail(q) /\ calls'[e] = cl
      /\ LastSent(e) \/ NextSent(e)
  BY DEF OnSendStrand, Runs, Pop, Set, TypeOK
<1>2. Waiting(cl, cur, list, q) /\ cl \in Calls /\ q \in Seq(Fos)
  BY AllWaiting DEF Waiting, EndInv
<1>3. /\ Len(cl) \in Nat /\ Accepted(cl) \subseteq 1 .. Len(cl)
      /\ Head(q) \in Elems(q)
  BY <1>1, <1>2, CallFacts, ElemsTail
<1>4. cur # 0 /\ cur \in Accepted(cl)
  BY <1>1, <1>2, <1>3 DEF EndInv, Current, Without, Waiting
<1>5. WriteOps(ops[e]) = {} /\ Without(Tail(q), {"sent"})
  BY <1>1, <1>2, SingleTail DEF EndInv, WritesOnce
<1>6. tip = End(cl, cur) /\ tip.ci = cur
  BY <1>1, <1>3, ImageFields DEF Writer, End
<1>7. InLine(cl, cur, list, Tail(q))
  <2>1. InLine(cl, cur, list, q)
    BY <1>4 DEF Writer, InLine, Front
  <2> QED BY <1>1, <1>2, <2>1, LinePop
<1>8. ASSUME LastSent(e) PROVE Writer(e, tip)'
  <2>1. list = <<>> /\ cur_send'[e] = 0 /\ cmd_info_list'[e] = list /\ ops'[e] = ops[e]
    BY <1>8 DEF LastSent, Set, TypeOK
  <2>2. Front(0, tip) = cur
    BY <1>6 DEF Front
  <2>3. \A fo \in Elems(queue'[e]) : fo.fn # "sent"
    BY <1>1, <1>5 DEF Without
  <2> QED BY <1>1, <1>5, <1>6, <1>7, <2>1, <2>2, <2>3 DEF Writer, InLine
<1>9. ASSUME NextSent(e) PROVE Writer(e, tip)'
  <2>1. PICK m : m = Head(list)
    OBVIOUS
  <2>2. /\ list # <<>> /\ cur_send'[e] = m /\ cmd_info_list'[e] = Tail(list)
        /\ ops'[e] = ops[e] \cup {Write(e, m)}
    BY <1>9, <2>1 DEF NextSent, PopFront, Start, Set, TypeOK
  <2> HIDE DEF cl, cur, list, q
  <2>3. Waiting(cl, cur, list, Tail(q))
    <3>1. Tail(q) \in Seq(Fos) /\ Elems(Tail(q)) \subseteq Elems(q)
      BY <1>1, <1>2, ElemsTail
    <3> QED BY <1>2, <3>1 DEF Waiting
  <2>4. m \in Accepted(cl) /\ IsNext(cl, cur, m) /\ InLine(cl, m, Tail(list), Tail(q))
    <3>1. cur \in Nat
      BY <1>3, <1>4
    <3> QED BY <1>7, <2>1, <2>2, <2>3, <3>1, LineNext
  <2>5. WriteAt(cl, tip, Write(e, m))
    BY <1>6, <2>4, WriteStarts DEF cl
  <2>6. \A o \in WriteOps(ops'[e]) : WriteAt(cl, tip, o)
    BY <1>5, <2>2, <2>5 DEF WriteOps
  <2>7. \A fo \in Elems(queue'[e]) : fo.fn # "sent"
    BY <1>1, <1>5 DEF Without, q
  <2>8. m # 0 /\ Front(m, tip) = m
    BY <1>3, <2>4 DEF Front
  <2> QED BY <1>1, <2>2, <2>4, <2>6, <2>7, <2>8 DEF Writer, InLine, cl, list, q
<1> QED BY <1>1, <1>8, <1>9

\* One more byte is written.
LEMMA WriterWrites ==
  ASSUME TypeOK, NEW e \in Ends, EndInv(e), NEW last \in BytesTo(Len(calls[e])),
         NEW o \in ops[e], IoWrite(e, o), Flowing,
         Chain(calls[e], last, wire[e]), Writer(e, Tip(last, wire[e]))
  PROVE  Chain(calls'[e], last, wire'[e]) /\ Writer(e, Tip(last, wire[e]))'
<1> DEFINE cl == calls[e]
           w == wire[e]
           tip == Tip(last, w)
           byte == Image(o.ci, o.got)
           p == Advanced(o)
<1>1. /\ o.kind = "write" /\ o.pc = "io" /\ open[e] /\ open[Peer(e)] /\ link
      /\ wire'[e] = Append(w, byte) /\ ops'[e] = (ops[e] \ {o}) \cup {p}
      /\ calls'[e] = cl /\ cur_send'[e] = cur_send[e]
      /\ cmd_info_list'[e] = cmd_info_list[e] /\ queue'[e] = queue[e]
  <2>1. /\ o.kind = "write" /\ o.pc = "io" /\ open[e] /\ open[Peer(e)] /\ link
    BY EndFacts DEF IoWrite, Flowing
  <2>2. /\ wire' = Set(wire, e, Append(w, byte)) /\ Replace(e, o, p)
        /\ UNCHANGED <<calls, cur_send, cmd_info_list, queue>>
    BY <2>1 DEF IoWrite, sendVars
  <2> QED BY <2>1, <2>2 DEF Replace, Set, TypeOK
<1>2. o \in Operations /\ o.got < o.len /\ o.got \in Nat /\ o \in WriteOps(ops[e])
  <2>1. o \in Operations
    BY DEF TypeOK
  <2> QED BY <1>1, <2>1 DEF EndInv, Framed, Operations, WriteOps
<1>3. /\ p.kind = o.kind /\ p.ci = o.ci /\ p.len = o.len /\ p.got = o.got + 1
      /\ p.pc = IF o.got + 1 = o.len THEN "ok" ELSE "io"
  BY <1>2 DEF Advanced, Operations
<1>4. /\ o.ci \in Accepted(cl) /\ o.len = SizeIn(cl, o.ci) + 1 /\ Comes(cl, tip, byte)
  BY <1>1, <1>2 DEF Writer, WriteAt
<1>5. cl \in Calls /\ o.ci \in 1 .. Len(cl) /\ SizeIn(cl, o.ci) \in Nat /\ Len(cl) \in Nat
  <2>1. cl \in Calls /\ Len(cl) \in Nat
    BY LenCalls
  <2>2. o.ci \in 1 .. Len(cl)
    BY <1>4, <2>1, CallFacts
  <2> QED BY <2>1, <2>2, CallFacts
<1>6. byte \in BytesTo(Len(cl)) /\ byte.ci = o.ci /\ byte.i = o.got
  <2>1. (o.got > 0) \in BOOLEAN
    BY <1>2
  <2> QED BY <1>2, <1>5, <2>1 DEF Image, BytesTo
<1>7. w \in Seq(BytesTo(Len(cl)))
  BY DEF EndInv, KnownBytes
<1> HIDE DEF byte, p, cl, w
<1>8. /\ Len(w) \in Nat /\ Len(Append(w, byte)) = Len(w) + 1
      /\ \A i \in 1 .. Len(w) : Append(w, byte)[i] = w[i]
      /\ Append(w, byte)[Len(w) + 1] = byte
  BY <1>6, <1>7, SeqAppend
<1>9. Tip(last, Append(w, byte)) = byte
  BY <1>8 DEF Tip, At
<1>10. Chain(cl, last, Append(w, byte))
  <2> SUFFICES ASSUME NEW i \in 1 .. Len(Append(w, byte))
               PROVE  Comes(cl, At(last, Append(w, byte), i - 1), Append(w, byte)[i])
    BY DEF Chain
  <2>1. At(last, Append(w, byte), i - 1) = At(last, w, i - 1)
    BY <1>8 DEF At
  <2>2. CASE i \in 1 .. Len(w)
    <3>1. Append(w, byte)[i] = w[i]
      BY <1>8, <2>2
    <3> QED BY <2>1, <2>2, <3>1 DEF Chain, cl, w
  <2>3. CASE i = Len(w) + 1
    <3>1. Append(w, byte)[i] = byte /\ i - 1 = Len(w)
      BY <1>8, <2>3
    <3> QED BY <1>4, <2>1, <3>1 DEF Tip
  <2> QED BY <1>8, <2>2, <2>3
<1>11. WriteAt(cl, byte, p)
  <2>1. CASE o.got + 1 = o.len
    <3>1. p.pc = "ok" /\ o.got = SizeIn(cl, o.ci)
      BY <1>2, <1>3, <1>4, <1>5, <2>1
    <3>2. byte = End(cl, p.ci)
      BY <1>3, <3>1 DEF End, byte
    <3> QED BY <1>3, <1>4, <3>1, <3>2 DEF WriteAt
  <2>2. CASE o.got + 1 # o.len
    <3>1. p.pc = "io" /\ byte.i < SizeIn(cl, o.ci)
      BY <1>2, <1>3, <1>4, <1>5, <1>6, <2>2
    <3>2. Comes(cl, byte, Image(p.ci, p.got))
      BY <1>3, <1>6, <3>1 DEF Comes
    <3> QED BY <1>3, <1>4, <3>1, <3>2 DEF WriteAt
  <2> QED BY <2>1, <2>2
<1>12. \A x \in WriteOps(ops'[e]) : WriteAt(cl, byte, x)
  <2>1. \A x \in WriteOps(ops[e]) : x = o
    BY <1>2 DEF EndInv, WritesOnce, Single
  <2> QED BY <1>1, <1>11, <2>1 DEF WriteOps
<1>13. Without(queue[e], {"sent"})
  BY <1>2 DEF EndInv, WritesOnce, Single
<1>14. cur_send[e] # 0
  BY <1>1, <1>2 DEF EndInv, Current
<1>15. Writer(e, byte)'
  <2>1. Front(cur_send[e], byte) = cur_send[e] /\ Front(cur_send[e], tip) = cur_send[e]
    BY <1>14 DEF Front
  <2>2. Sorted(cur_send[e], cmd_info_list[e], queue[e]) /\ Complete(cl, cur_send[e], cmd_info_list[e], queue[e])
    BY <2>1 DEF Writer, cl, w
  <2>3. /\ \A x \in WriteOps(ops'[e]) : WriteAt(calls'[e], byte, x)
        /\ \A fo \in Elems(queue'[e]) : fo.fn # "sent"
        /\ cur_send'[e] # 0
        /\ Front(cur_send'[e], byte) = cur_send'[e]
        /\ Sorted(cur_send'[e], cmd_info_list'[e], queue'[e])
        /\ Complete(calls'[e], cur_send'[e], cmd_info_list'[e], queue'[e])
    BY <1>1, <1>12, <1>13, <1>14, <2>1, <2>2 DEF Without
  <2> QED BY <2>3 DEF Writer, byte
<1> QED BY <1>1, <1>9, <1>10, <1>15 DEF byte

LEMMA WriterIo ==
  ASSUME TypeOK, NEW e \in Ends, EndInv(e), NEW tip, Writer(e, tip), Flowing,
         NEW o \in ops[e], IoRead(e, o) \/ IoFail(e, o) \/ HandlerCopy(e, o) \/ HandlerCall(e, o)
  PROVE  Writer(e, tip)'
<1>1. /\ UNCHANGED <<calls, cur_send, cmd_info_list>> /\ o \in Operations
      /\ open[e] /\ link /\ open[Peer(e)]
  BY EndFacts DEF IoRead, IoFail, HandlerCopy, HandlerCall, sendVars, Flowing, TypeOK
<1>2. ASSUME o.kind = "write" PROVE o.pc \notin {"err", "report"}
  BY <1>2 DEF Writer, WriteAt, WriteOps
<1>3. ASSUME NEW p, p.kind = o.kind, o.kind # "write", Replace(e, o, p)
      PROVE  WriteOps(ops'[e]) \subseteq WriteOps(ops[e])
  BY <1>3 DEF Replace, WriteOps, Set, TypeOK
<1>4. ASSUME Remove(e, o)
      PROVE  WriteOps(ops'[e]) \subseteq WriteOps(ops[e])
  BY <1>4 DEF Remove, WriteOps, Set, TypeOK
<1>5. ASSUME UNCHANGED queue PROVE QueueMoves(queue[e], queue'[e])
  BY <1>5 DEF QueueMoves
<1>6. CASE IoRead(e, o)
  <2>1. o.kind # "write" /\ Replace(e, o, Advanced(o)) /\ UNCHANGED queue
    BY <1>6 DEF IoRead
  <2>2. Advanced(o).kind = o.kind
    BY <1>1 DEF Advanced, Operations
  <2> QED BY <1>1, <1>3, <1>5, <2>1, <2>2, WriterKept
<1>7. CASE IoFail(e, o)
  BY <1>1, <1>7 DEF IoFail
<1>8. CASE HandlerCopy(e, o)
  <2>1. UNCHANGED queue
    BY <1>8 DEF HandlerCopy
  <2>2. CASE Remove(e, o)
    BY <1>1, <1>4, <1>5, <2>1, <2>2, WriterKept
  <2>3. ASSUME NEW pc \in {"call", "report"}, o.kind # "write", Replace(e, o, [o EXCEPT !.pc = pc])
        PROVE  Writer(e, tip)'
    <3>1. [o EXCEPT !.pc = pc].kind = o.kind
      BY <1>1 DEF Operations
    <3> QED BY <1>1, <1>3, <1>5, <2>1, <2>3, <3>1, WriterKept
  <2>4. ASSUME o.kind = "write", o.pc = "ok", Replace(e, o, [o EXCEPT !.pc = "call"])
        PROVE  Writer(e, tip)'
    <3> DEFINE p == [o EXCEPT !.pc = "call"]
    <3>1. p.pc = "call" /\ p.ci = o.ci /\ p.len = o.len
      BY <1>1 DEF Operations
    <3>2. WriteAt(calls[e], tip, o)
      BY <2>4 DEF Writer, WriteOps
    <3>3. WriteAt(calls[e], tip, p)
      BY <2>4, <3>1, <3>2 DEF WriteAt
    <3>4. ops'[e] = (ops[e] \ {o}) \cup {p}
      BY <2>4 DEF Replace, Set, TypeOK
    <3> HIDE DEF p
    <3>5. \A x \in WriteOps(ops'[e]) : WriteAt(calls[e], tip, x)
      BY <3>3, <3>4 DEF Writer, WriteOps
    <3> QED BY <1>1, <2>1, <3>5 DEF Writer
  <2> QED BY <1>2, <1>8, <2>2, <2>3, <2>4 DEF HandlerCopy
<1>9. CASE HandlerCall(e, o)
  <2>1. Remove(e, o) /\ o.pc \in {"call", "report"} /\ o.len \in Nat
    BY <1>1, <1>9 DEF HandlerCall, Operations
  <2>2. CASE UNCHANGED queue
    BY <1>1, <1>4, <1>5, <2>1, <2>2, WriterKept
  <2>3. ASSUME NEW fo \in Fos, fo.fn \notin {"send", "sent"},
               queue' = Set(queue, e, Append(queue[e], fo))
        PROVE  Writer(e, tip)'
    <3>1. queue'[e] = Append(queue[e], fo)
      BY <2>3 DEF Set, TypeOK
    <3>2. QueueMoves(queue[e], queue'[e])
      BY <2>3, <3>1 DEF QueueMoves
    <3> QED BY <1>1, <1>4, <2>1, <3>2, WriterKept
  <2>4. ASSUME o.pc = "report", queue' = Set(queue, e, Append(queue[e], Fo("error", 0)))
        PROVE  Writer(e, tip)'
    BY <2>3, <2>4, FoType
  <2>5. ASSUME o.kind # "write", queue' = Set(queue, e, Append(queue[e], Fo("recv", o.len)))
        PROVE  Writer(e, tip)'
    BY <2>1, <2>3, <2>5, FoType
  <2>6. ASSUME o.kind = "write", o.pc = "call",
               queue' = Set(queue, e, Append(queue[e], Fo("sent", o.len)))
        PROVE  Writer(e, tip)'
    <3> DEFINE fo == Fo("sent", o.len)
               front == Front(cur_send[e], tip)
    <3>1. fo \in Fos /\ fo.fn = "sent"
      BY <2>1, FoType
    <3>2. queue'[e] = Append(queue[e], fo) /\ queue[e] \in Seq(Fos)
      BY <2>6 DEF Set, TypeOK
    <3>3. o \in WriteOps(ops[e]) /\ WriteAt(calls[e], tip, o) /\ o.ci = cur_send[e]
      BY <1>1, <2>6 DEF Writer, WriteOps, EndInv, Current
    <3>4. tip = End(calls[e], cur_send[e])
      BY <2>6, <3>3 DEF WriteAt
    <3> HIDE DEF fo, front
    <3>5. InLine(calls[e], front, cmd_info_list[e], queue'[e])
      BY <3>1, <3>2, LinePost DEF Writer, InLine, front
    <3>6. \A x \in WriteOps(ops'[e]) : WriteAt(calls[e], tip, x)
      BY <1>4, <2>1 DEF Writer
    <3>7. cur_send[e] = 0 => tip = End(calls[e], tip.ci) /\ cmd_info_list[e] = <<>>
      BY DEF Writer
    <3> QED BY <1>1, <3>4, <3>5, <3>6, <3>7 DEF Writer, InLine, front
  <2> QED BY <1>9, <2>1, <2>2, <2>4, <2>5, <2>6 DEF HandlerCall
<1> QED BY <1>6, <1>7, <1>8, <1>9

LEMMA FlowingBefore ==
  ASSUME TypeOK, NEW e \in Ends, EndStep(e), Flowing'
  PROVE  Flowing /\ open'[e] /\ ~ClearStrand(e) /\ ~OnErrorStrand(e)
<1>1. link' /\ open'[e] /\ open'[Peer(e)]
  BY EndFacts DEF Flowing
<1>2. link /\ open[e] /\ open[Peer(e)] /\ ~ClearStrand(e) /\ ~OnErrorStrand(e)
  BY <1>1, OpenBefore
<1> QED BY <1>1, <1>2, EndFacts DEF Flowing

\* What a step of an end does to its calls and to the bytes it has sent.
LEMMA CallsBefore ==
  ASSUME TypeOK, NEW e \in Ends, EndStep(e)
  PROVE  /\ calls'[e] = calls[e] \/ SendMessage(e)
         /\ Grown(calls[e], calls'[e])
         /\ Numbered(calls[e]) => Numbered(calls'[e])
<1>1. calls[e] \in Calls
  BY LenCalls
<1>2. calls'[e] = calls[e] \/ SendMessage(e)
  BY DEF EndStep, StrandStep, IoStep, Clear, BindSocketStrand, SendMessageStrand, OnSendStrand,
         OnRecvStrand, ClearStrand, OnErrorStrand, DoClear, IoWrite, IoRead, IoFail,
         HandlerCopy, HandlerCall
<1>3. CASE calls'[e] = calls[e]
  BY <1>1, <1>3, GrownSelf
<1>4. CASE SendMessage(e)
  BY <1>1, <1>2, <1>4, SendMessageFacts, GrownAppend, NumberedGrown
<1> QED BY <1>2, <1>3, <1>4

LEMMA WireBefore ==
  ASSUME TypeOK, NEW e \in Ends, EndStep(e)
  PROVE  wire'[e] = wire[e] \/ \E o \in ops[e] : IoWrite(e, o) /\ Flowing
<1>1. CASE wire' = wire
  BY <1>1
<1>2. CASE SendMessage(e) \/ Clear(e) \/ StrandStep(e)
  BY <1>2 DEF SendMessage, Clear, StrandStep, BindSocketStrand, SendMessageStrand, OnSendStrand,
              OnRecvStrand, ClearStrand, OnErrorStrand, DoClear, netVars
<1>3. ASSUME NEW o \in ops[e], IoStep(e, o)
      PROVE  wire'[e] = wire[e] \/ (IoWrite(e, o) /\ Flowing)
  <2>1. CASE IoWrite(e, o)
    <3>1. wire' = wire \/ (link /\ open[e] /\ open[Peer(e)])
      BY <2>1 DEF IoWrite
    <3> QED BY <2>1, <3>1, EndFacts DEF Flowing
  <2>2. CASE IoRead(e, o)
    BY <2>2, EndFacts DEF IoRead, Set, TypeOK
  <2>3. CASE IoFail(e, o) \/ HandlerCopy(e, o) \/ HandlerCall(e, o)
    BY <2>3 DEF IoFail, HandlerCopy, HandlerCall, netVars
  <2> QED BY <1>3, <2>1, <2>2, <2>3 DEF IoStep
<1> QED BY <1>2, <1>3 DEF EndStep

\* The stream that an end writes, when that end makes a step.
LEMMA StreamWrites ==
  ASSUME IInv, NEW e \in Ends, NEW last, Stream(e, last), EndStep(e)
  PROVE  Stream(e, last)'
<1> DEFINE cl == calls[e]
           w == wire[e]
           tip == Tip(last, w)
<1>1. TypeOK /\ EndInv(e) /\ KnownBytes(e) /\ OwnedInv(e)
  BY DEF IInv, EndInv
<1>2. /\ last \in BytesTo(Len(cl)) /\ Chain(cl, last, w)
      /\ Flowing => Writer(e, tip)
      /\ open[Peer(e)] => Reader(Peer(e), last)
  BY DEF Stream
<1>3. /\ Grown(cl, calls'[e]) /\ w \in Seq(BytesTo(Len(cl)))
      /\ calls'[e] = cl \/ SendMessage(e)
  BY <1>1, CallsBefore DEF KnownBytes
<1>4. tip \in BytesTo(Len(cl))
  BY <1>2, <1>3, AtType
<1>5. last \in BytesTo(Len(calls'[e]))
  BY <1>1, <1>2, CallsGrow, BytesGrow
<1>6. Chain(calls'[e], last, w)
  BY <1>2, <1>3, ChainGrown
<1>7. ASSUME open'[Peer(e)] PROVE Reader(Peer(e), last)'
  <2>1. Peer(e) \in Ends /\ Peer(e) # e /\ Peer(Peer(e)) = e
    BY EndFacts
  <2>2. Own(Peer(e))' = Own(Peer(e))
    BY <1>1, <2>1, OtherOwn
  <2>3. /\ open[Peer(e)] /\ Reading(Peer(e))' = Reading(Peer(e))
        /\ ReadOps(ops'[Peer(e)]) \subseteq ReadOps(ops[Peer(e)])
        /\ queue'[Peer(e)] = queue[Peer(e)]
    BY <1>7, <2>2 DEF Own, Reading
  <2> QED BY <1>1, <1>2, <1>3, <2>1, <2>3, ReaderKept
<1>8. ASSUME NEW o \in ops[e], IoWrite(e, o), Flowing
      PROVE  Chain(calls'[e], last, wire'[e]) /\ Writer(e, Tip(last, wire[e]))'
  BY <1>1, <1>2, <1>8, WriterWrites
<1>9. ASSUME ~(\E o \in ops[e] : IoWrite(e, o) /\ Flowing), Flowing'
      PROVE  Writer(e, Tip(last, wire[e]))'
  <2>1. Flowing /\ open[e] /\ ~ClearStrand(e) /\ ~OnErrorStrand(e)
    BY <1>1, <1>9, FlowingBefore DEF Flowing
  <2>2. wire'[e] = w
    BY <1>1, <1>9, WireBefore
  <2>3. PICK t : t = tip
    OBVIOUS
  <2>4. Writer(e, t) /\ t \in BytesTo(Len(cl))
    BY <1>2, <1>4, <2>1, <2>3
  <2>5. Writer(e, t)'
    <3>1. CASE SendMessage(e)
      BY <1>1, <2>4, <3>1, WriterCalls
    <3>2. CASE Clear(e) \/ BindSocketStrand(e) \/ OnRecvStrand(e)
      BY <1>1, <2>4, <3>2, WriterOther
    <3>3. CASE SendMessageStrand(e)
      BY <1>1, <2>1, <2>4, <3>3, WriterSends
    <3>4. CASE OnSendStrand(e)
      BY <1>1, <2>1, <2>4, <3>4, WriterSent
    <3>5. ASSUME NEW o \in ops[e], IoStep(e, o) PROVE Writer(e, t)'
      <4>1. IoRead(e, o) \/ IoFail(e, o) \/ HandlerCopy(e, o) \/ HandlerCall(e, o)
        BY <1>9, <2>1, <3>5 DEF IoStep
      <4> QED BY <1>1, <2>1, <2>4, <4>1, WriterIo
    <3> QED BY <2>1, <3>1, <3>2, <3>3, <3>4, <3>5 DEF EndStep, StrandStep
  <2>6. Tip(last, wire'[e]) = t
    BY <2>2, <2>3
  <2> QED BY <2>5, <2>6
<1>10. Chain(calls'[e], last, wire'[e])
  BY <1>1, <1>6, <1>8, WireBefore
<1>11. Flowing' => Writer(e, Tip(last, wire[e]))'
  BY <1>8, <1>9
<1> QED BY <1>5, <1>7, <1>10, <1>11 DEF Stream
-----------------------------------------------------------------------------
(* Steps of the end that reads.                                            *)

\* What the other end has still to write is not touched.
LEMMA OtherWriter ==
  ASSUME TypeOK, NEW d \in Ends, EndStep(d), NEW tip, Writer(Peer(d), tip)
  PROVE  Writer(Peer(d), tip)'
<1>1. Own(Peer(d))' = Own(Peer(d))
  BY EndFacts, OtherOwn
<1>2. /\ calls'[Peer(d)] = calls[Peer(d)] /\ ops'[Peer(d)] = ops[Peer(d)]
      /\ queue'[Peer(d)] = queue[Peer(d)] /\ cur_send'[Peer(d)] = cur_send[Peer(d)]
      /\ cmd_info_list'[Peer(d)] = cmd_info_list[Peer(d)]
  BY <1>1 DEF Own
<1> QED BY <1>2 DEF Writer

\* Nothing new is read.
LEMMA ReaderStays ==
  ASSUME NEW d, NEW last, Reader(d, last), Reading(d)' = Reading(d),
         calls'[Peer(d)] = calls[Peer(d)],
         \A o \in ReadOps(ops'[d]) : o \in ReadOps(ops[d]) \/ ReadAt(d, last, o),
         \A fo \in Elems(queue'[d]) :
           \/ fo \in Elems(queue[d])
           \/ fo.fn # "bind" /\ (fo.fn = "recv" => RecvAt(d, last, fo.arg))
  PROVE  Reader(d, last)'
<1>1. /\ flag'[d] = flag[d] /\ has_recved'[d] = has_recved[d] /\ cmd_hdr'[d] = cmd_hdr[d]
      /\ cmd_body'[d] = cmd_body[d] /\ body_len'[d] = body_len[d] /\ delivered'[d] = delivered[d]
  BY DEF Reading
<1>2. /\ Done(d, last)' <=> Done(d, last)
      /\ HeaderIn(d, last)' <=> HeaderIn(d, last)
      /\ \A j : BodyIn(d, last, j)' <=> BodyIn(d, last, j)
  BY <1>1 DEF Done, HeaderIn, BodyIn
<1>3. ASSUME ~Without(queue'[d], {"bind"}) PROVE Done(d, last)'
  <2>1. ~Without(queue[d], {"bind"})
    BY <1>3 DEF Without
  <2> QED BY <1>2, <2>1 DEF Reader
<1>4. ASSUME NEW o \in ReadOps(ops'[d]) PROVE ReadAt(d, last, o)'
  <2>1. ReadAt(d, last, o)
    BY DEF Reader
  <2> QED BY <1>1, <1>2, <2>1 DEF ReadAt
<1>5. ASSUME NEW fo \in Elems(queue'[d]), fo.fn = "recv" PROVE RecvAt(d, last, fo.arg)'
  <2>1. RecvAt(d, last, fo.arg)
    BY <1>5 DEF Reader
  <2> QED BY <1>1, <1>2, <2>1 DEF RecvAt
<1> QED BY <1>3, <1>4, <1>5 DEF Reader

\* The strand starts the next read.
LEMMA ReaderStarts ==
  ASSUME TypeOK, NEW d \in Ends, EndInv(d), queue[d] # <<>>,
         Head(queue[d]).fn \in {"bind", "recv"}, queue'[d] = Tail(queue[d]),
         NEW o, o.kind # "write", o.pc = "io", ops'[d] = ops[d] \cup {o},
         NEW last, ReadAt(d, last, o)'
  PROVE  Reader(d, last)'
<1>1. Without(queue'[d], {"bind", "recv"}) /\ ReadOps(ops'[d]) = {o}
  BY StartRead
<1> QED BY <1>1 DEF Reader, Without

LEMMA ReaderBinds ==
  ASSUME TypeOK, NEW d \in Ends, EndInv(d), NEW last, Reader(d, last), BindSocketStrand(d)
  PROVE  Reader(d, last)'
<1> DEFINE o == Op("hdr", 0, 0, 1)
<1>1. /\ queue[d] # <<>> /\ Head(queue[d]).fn = "bind" /\ Pop(d) /\ Start(d, o)
      /\ UNCHANGED <<delivered, calls>>
  BY DEF BindSocketStrand, Runs, ReadHeader
<1>2. queue'[d] = Tail(queue[d]) /\ ops'[d] = ops[d] \cup {o}
  BY <1>1 DEF Pop, Start, Set, TypeOK
<1>3. o.kind = "hdr" /\ o.len = 1 /\ o.pc = "io"
  BY DEF Op
<1> HIDE DEF o
<1>4. ~Without(queue[d], {"bind"})
  BY <1>1, HeadType DEF Without
<1>5. Done(d, last)'
  BY <1>1, <1>4 DEF Reader, Done
<1>6. ReadAt(d, last, o)'
  BY <1>3, <1>5 DEF ReadAt
<1> QED BY <1>1, <1>2, <1>3, <1>6, ReaderStarts

\* RC4 undoes RC4.
LEMMA Decoded ==
  ASSUME NEW n, NEW i
  PROVE  Codec([ci |-> n, i |-> i, enc |-> TRUE]) = [ci |-> n, i |-> i, enc |-> FALSE]
<1>1. PICK b : b = [ci |-> n, i |-> i, enc |-> TRUE]
  OBVIOUS
<1>2. PICK plain : plain = ~b.enc
  OBVIOUS
<1>3. Codec(b) = [b EXCEPT !.enc = plain]
  BY <1>2, Zenon DEF Codec
<1>4. [b EXCEPT !.enc = plain] = [ci |-> n, i |-> i, enc |-> plain]
  BY <1>1
<1>5. plain = FALSE
  <2>1. b.enc = TRUE
    BY <1>1
  <2> QED BY <1>2, <2>1, Zenon
<1>6. Codec(b) = [ci |-> n, i |-> i, enc |-> plain]
  BY <1>3, <1>4
<1> QED BY <1>1, <1>5, <1>6, Zenon

\* The end of a command: it is handed up, and the next header asked for.
LEMMA ReaderFinishes ==
  ASSUME TypeOK, NEW d \in Ends, EndInv(d), Len(calls[Peer(d)]) <= MaxSends, open[d], port_cb[d],
         queue[d] # <<>>, Head(queue[d]).fn = "recv", Pop(d), UNCHANGED calls,
         NEW len \in Nat, NEW body, FinishCommand(d, body, len),
         \A i \in 1 .. len : body[i] \in Bytes,
         NEW last \in BytesTo(Len(calls[Peer(d)])),
         HeaderAt(calls[Peer(d)], last, Len(delivered[d]), cmd_hdr[d]),
         BodyAt(calls[Peer(d)], last, len, body), len = SizeIn(calls[Peer(d)], last.ci),
         InOrder(calls[Peer(d)], delivered[d])
  PROVE  Reader(d, last)' /\ InOrder(calls[Peer(d)], delivered[d])'
<1> DEFINE cl == calls[Peer(d)]
           dl == delivered[d]
           k == Len(dl)
           n == last.ci
           plain == [i \in 1 .. len |-> Codec(body[i])]
           c == [hdr |-> cmd_hdr[d], body |-> plain]
           o == Op("hdr", 0, 0, 1)
<1>1. /\ queue'[d] = Tail(queue[d]) /\ ops'[d] = ops[d] \cup {o}
      /\ delivered'[d] = Append(dl, c)
  BY DEF FinishCommand, ReadHeader, Pop, Start, Set, TypeOK
<1>2. /\ cmd_hdr[d] = Image(n, 0) /\ n \in Accepted(cl) /\ Nth(cl, n) = k + 1
      /\ last = Image(n, len) /\ \A i \in 1 .. len : body[i] = Image(n, i)
  BY DEF HeaderAt, BodyAt
<1>3. n \in 1 .. Len(cl) /\ Len(cl) \in Nat /\ n # 0
  BY <1>2, LenCalls, CallFacts, EndFacts
<1>4. len = cl[n].size
  BY <1>3 DEF SizeIn
<1>5. plain = [i \in 1 .. len |-> [ci |-> n, i |-> i, enc |-> FALSE]]
  <2>1. ASSUME NEW i \in 1 .. len
        PROVE  Codec(Image(n, i)) = [ci |-> n, i |-> i, enc |-> FALSE]
    <3>1. (i > 0) = TRUE
      <4>1. i > 0
        OBVIOUS
      <4> QED BY <4>1, Zenon
    <3>2. Image(n, i) = [ci |-> n, i |-> i, enc |-> TRUE]
      BY <3>1 DEF Image
    <3> QED BY <3>2, Decoded
  <2> QED BY <1>2, <2>1
<1>6. /\ dl \in Seq([hdr : Bytes, body : Seq(Bytes)])
      /\ c \in [hdr : Bytes, body : Seq(Bytes)]
  <2>1. plain \in Seq(Bytes)
    BY PlainType
  <2>2. cmd_hdr[d] \in Bytes
    BY HeaderKnown
  <2> QED BY <2>1, <2>2 DEF TypeOK
<1>7. Whole(cl, k + 1, c)
  BY <1>2, <1>4, <1>5, ImageFields DEF Whole
<1>8. o.kind = "hdr" /\ o.len = 1 /\ o.pc = "io"
  BY DEF Op
<1> HIDE DEF c, o, plain
<1>9. /\ Len(dl) \in Nat /\ Len(Append(dl, c)) = Len(dl) + 1 /\ Append(dl, c)[Len(dl) + 1] = c
      /\ \A i \in 1 .. Len(dl) : Append(dl, c)[i] = dl[i]
      /\ \A i \in 1 .. Len(Append(dl, c)) : i \in 1 .. Len(dl) \/ i = Len(dl) + 1
  <2>1. PICK R : R = [hdr : Bytes, body : Seq(Bytes)]
    OBVIOUS
  <2>2. dl \in Seq(R) /\ c \in R
    BY <1>6, <2>1
  <2> HIDE DEF dl
  <2> QED BY <2>2, SeqAppend
<1>10. InOrder(cl, Append(dl, c))
  <2> SUFFICES ASSUME NEW i \in 1 .. Len(Append(dl, c)) PROVE Whole(cl, i, Append(dl, c)[i])
    BY DEF InOrder
  <2>1. CASE i \in 1 .. Len(dl)
    BY <1>9, <2>1 DEF InOrder
  <2>2. CASE i = Len(dl) + 1
    BY <1>7, <1>9, <2>2
  <2> QED BY <1>9, <2>1, <2>2
<1>11. Done(d, last)'
  <2>1. last = End(cl, n) /\ Nth(cl, n) = Len(delivered'[d])
    BY <1>1, <1>2, <1>9 DEF End
  <2> QED BY <2>1 DEF Done, Between
<1>12. ReadAt(d, last, o)'
  BY <1>8, <1>11 DEF ReadAt
<1>13. Reader(d, last)'
  BY <1>1, <1>8, <1>12, ReaderStarts
<1> QED BY <1>1, <1>10, <1>13

\* A read into the body starts, at the first byte or at the next piece.
LEMMA ReaderGoesOn ==
  ASSUME TypeOK, NEW d \in Ends, EndInv(d), queue[d] # <<>>, Head(queue[d]).fn = "recv",
         Pop(d), UNCHANGED <<calls, cmd_hdr, delivered>>,
         NEW off \in Nat, NEW len, Start(d, Op("body", 0, off, len)),
         NEW last, HeaderAt(calls[Peer(d)], last, Len(delivered[d]), cmd_hdr[d]),
         BodyAt(calls[Peer(d)], last, off, cmd_body'[d]),
         body_len'[d] = SizeIn(calls[Peer(d)], last.ci), flag'[d] = 0 => len = body_len'[d]
  PROVE  Reader(d, last)'
<1> DEFINE o == Op("body", 0, off, len)
<1>1. queue'[d] = Tail(queue[d]) /\ ops'[d] = ops[d] \cup {o}
  BY DEF Pop, Start, Set, TypeOK
<1>2. /\ o.kind = "body" /\ o.off = off /\ o.got = 0 /\ o.len = len /\ o.pc = "io"
      /\ o.off + o.got = off
  BY DEF Op
<1> HIDE DEF o
<1>3. BodyIn(d, last, o.off + o.got)'
  BY <1>2 DEF BodyIn
<1>4. ReadAt(d, last, o)'
  BY <1>2, <1>3 DEF ReadAt
<1> QED BY <1>1, <1>2, <1>4, ReaderStarts

LEMMA ReaderReceives ==
  ASSUME TypeOK, NEW d \in Ends, EndInv(d), Len(calls[Peer(d)]) <= MaxSends, open[d], port_cb[d],
         NEW last \in BytesTo(Len(calls[Peer(d)])), Reader(d, last),
         InOrder(calls[Peer(d)], delivered[d]), OnRecvStrand(d)
  PROVE  Reader(d, last)' /\ InOrder(calls[Peer(d)], delivered[d])'
<1> DEFINE cl == calls[Peer(d)]
           k == Len(delivered[d])
           n == last.ci
<1>1. /\ queue[d] # <<>> /\ Head(queue[d]).fn = "recv" /\ UNCHANGED calls
      /\ \/ flag[d] = 0 /\ WholeBody(d)
         \/ flag[d] = 1 /\ (BadHeader(d) \/ EmptyBody(d) \/ StartBody(d))
         \/ flag[d] = 2 /\ (LastPiece(d) \/ NextPiece(d))
  BY DEF OnRecvStrand, Runs
<1>2. /\ queue[d] \in Seq(Fos) /\ Arg(d) \in Nat /\ Arg(d) = Head(queue[d]).arg
      /\ RecvAt(d, last, Arg(d)) /\ has_recved[d] \in Nat /\ body_len[d] \in Nat
  BY <1>1, HeadType DEF Reader, Arg, TypeOK
<1>3. CASE flag[d] = 1 /\ BadHeader(d)
  <2>1. UNCHANGED <<recvVars, ops>>
    BY <1>3 DEF BadHeader
  <2>2. Reading(d)' = Reading(d) /\ delivered' = delivered
    BY <2>1 DEF Reading, recvVars
  <2>3. \A fo \in Elems(queue'[d]) : fo \in Elems(queue[d]) \/ fo.fn \notin {"bind", "recv"}
    <3>1. Tail(queue[d]) \in Seq(Fos) /\ Elems(Tail(queue[d])) \subseteq Elems(queue[d])
      BY <1>1, <1>2, ElemsTail
    <3>2. Fo("error", 0) \in Fos /\ Fo("error", 0).fn = "error"
      BY DEF Fo, Fos
    <3>3. PICK rest \in Seq(Fos) : rest = Tail(queue[d])
      BY <3>1
    <3>4. Elems(Append(rest, Fo("error", 0))) = Elems(rest) \cup {Fo("error", 0)}
      BY <3>2, ElemsAppend
    <3>5. queue'[d] = rest \/ queue'[d] = Append(rest, Fo("error", 0))
      BY <1>3, <3>3 DEF BadHeader, Pop, Set, TypeOK
    <3> QED BY <3>1, <3>2, <3>3, <3>4, <3>5
  <2>4. Reader(d, last)'
    BY <1>1, <2>1, <2>2, <2>3, ReaderStays
  <2> QED BY <1>1, <2>2, <2>4
<1>4. ASSUME flag[d] = 1, HeaderGood(d)
      PROVE  /\ HeaderAt(cl, last, k, cmd_hdr[d]) /\ last = Image(n, 0)
             /\ BodyLen(d) = SizeIn(cl, n) /\ BodyLen(d) \in Nat
  <2>1. HeaderAt(cl, last, k, cmd_hdr[d]) /\ last = cmd_hdr[d] /\ cmd_hdr[d] = Image(n, 0)
    BY <1>2, <1>4 DEF RecvAt, HeaderIn, HeaderAt
  <2>2. BodyLen(d) = SizeIn(cl, n)
    BY <1>4, <2>1 DEF BodyLen, SizeIn, HeaderGood
  <2>3. BodyLen(d) \in Nat
    BY <1>1, <1>4, HeaderKnown
  <2> QED BY <2>1, <2>2, <2>3
<1>5. CASE flag[d] = 1 /\ EmptyBody(d)
  <2>1. HeaderGood(d) /\ BodyLen(d) = 0 /\ Pop(d) /\ FinishCommand(d, <<>>, 0)
    BY <1>5 DEF EmptyBody
  <2>2. BodyAt(cl, last, 0, <<>>) /\ SizeIn(cl, n) = 0
    BY <1>4, <1>5, <2>1 DEF BodyAt
  <2>3. \A i \in 1 .. 0 : <<>>[i] \in Bytes
    OBVIOUS
  <2> QED BY <1>1, <1>4, <1>5, <2>1, <2>2, <2>3, ReaderFinishes
<1>6. CASE flag[d] = 1 /\ StartBody(d)
  <2>1. /\ HeaderGood(d) /\ BodyLen(d) > 0 /\ Pop(d) /\ UNCHANGED <<cmd_hdr, delivered>>
        /\ body_len'[d] = BodyLen(d) /\ flag'[d] = (IF BodyLen(d) > MaxRecv THEN 2 ELSE 0)
        /\ Start(d, Op("body", 0, 0, RecvSize(BodyLen(d))))
    BY <1>6 DEF StartBody, Set, TypeOK
  <2>2. HeaderAt(cl, last, k, cmd_hdr[d]) /\ BodyLen(d) = SizeIn(cl, n)
    BY <1>4, <1>6, <2>1
  <2>3. BodyAt(cl, last, 0, cmd_body'[d])
    BY <1>4, <1>6, <2>1 DEF BodyAt
  <2>4. flag'[d] = 0 => RecvSize(BodyLen(d)) = body_len'[d]
    BY <2>1 DEF RecvSize
  <2>5. Reader(d, last)'
    BY <1>1, <2>1, <2>2, <2>3, <2>4, ReaderGoesOn
  <2> QED BY <1>1, <2>1, <2>5
<1>7. ASSUME flag[d] # 1, FinishCommand(d, cmd_body[d], body_len[d]), Pop(d),
             has_recved[d] + Arg(d) = body_len[d]
      PROVE  Reader(d, last)' /\ InOrder(calls[Peer(d)], delivered[d])'
  <2>1. BodyIn(d, last, body_len[d])
    BY <1>2, <1>7 DEF RecvAt
  <2>2. /\ HeaderAt(cl, last, k, cmd_hdr[d]) /\ BodyAt(cl, last, body_len[d], cmd_body[d])
        /\ body_len[d] = SizeIn(cl, n)
    BY <2>1 DEF BodyIn
  <2>3. \A i \in 1 .. body_len[d] : cmd_body[d][i] \in Bytes
    <3>1. cmd_body[d] \in Seq(Bytes) /\ Len(cmd_body[d]) = body_len[d]
      BY <1>7 DEF EndInv, Framed
    <3> QED BY <3>1, ElementOfSeq
  <2> QED BY <1>1, <1>2, <1>7, <2>2, <2>3, ReaderFinishes
<1>8. CASE flag[d] = 0 /\ WholeBody(d)
  <2>1. has_recved[d] = 0 /\ Arg(d) = body_len[d]
    BY <1>2, <1>8 DEF EndInv, Framed, RecvAt
  <2> QED BY <1>2, <1>7, <1>8, <2>1 DEF WholeBody
<1>9. CASE flag[d] = 2 /\ LastPiece(d)
  BY <1>7, <1>9 DEF LastPiece, Total
<1>10. CASE flag[d] = 2 /\ NextPiece(d)
  <2> DEFINE total == has_recved[d] + Arg(d)
             len == RecvSize(body_len[d] - total)
  <2>1. /\ Pop(d) /\ Start(d, Op("body", 0, total, len))
        /\ UNCHANGED <<flag, cmd_hdr, cmd_body, body_len, delivered>>
    BY <1>10 DEF NextPiece, Total, Place
  <2>2. BodyIn(d, last, total) /\ total \in Nat
    BY <1>2, <1>10 DEF RecvAt
  <2> HIDE DEF len, total
  <2>3. /\ HeaderAt(cl, last, k, cmd_hdr[d]) /\ BodyAt(cl, last, total, cmd_body'[d])
        /\ body_len'[d] = SizeIn(cl, n) /\ flag'[d] # 0
    BY <1>10, <2>1, <2>2 DEF BodyIn
  <2>4. Reader(d, last)'
    BY <1>1, <2>1, <2>2, <2>3, ReaderGoesOn
  <2> QED BY <1>1, <2>1, <2>4
<1> QED BY <1>1, <1>3, <1>5, <1>6, <1>8, <1>9, <1>10

\* One more byte is read, and it is the one expected.
LEMMA ReaderReads ==
  ASSUME TypeOK, NEW d \in Ends, EndInv(d), KnownBytes(Peer(d)),
         NEW last \in BytesTo(Len(calls[Peer(d)])),
         Reader(d, last), Chain(calls[Peer(d)], last, wire[Peer(d)]),
         NEW o \in ops[d], IoRead(d, o), NEW byte, byte = Head(wire[Peer(d)])
  PROVE  Reader(d, byte)'
<1> DEFINE cl == calls[Peer(d)]
           w == wire[Peer(d)]
           k == Len(delivered[d])
           n == last.ci
           j == o.off + o.got
<1>0. PICK q : q = Advanced(o)
  OBVIOUS
<1>1. /\ o.kind # "write" /\ o.pc = "io" /\ open[d] /\ w # <<>>
      /\ ops'[d] = (ops[d] \ {o}) \cup {q}
      /\ UNCHANGED <<queue, flag, has_recved, body_len, delivered, calls>>
  BY <1>0 DEF IoRead, Replace, Set, TypeOK
<1>2. byte = Head(w)
  OBVIOUS
<1>3. /\ o.kind = "hdr" => cmd_hdr'[d] = byte
      /\ o.kind # "hdr" => /\ cmd_hdr' = cmd_hdr
                           /\ cmd_body' = [cmd_body EXCEPT ![d][j + 1] = byte]
  BY <1>2 DEF IoRead, Set, TypeOK
<1>4. /\ o \in Operations /\ o.got < o.len /\ o.got \in Nat /\ o.off \in Nat /\ o.len \in Nat
      /\ o \in ReadOps(ops[d]) /\ o.kind \in {"hdr", "body", "write"}
  <2>1. o \in Operations
    BY DEF TypeOK
  <2> QED BY <1>1, <2>1 DEF EndInv, Framed, ReadOps, Operations
<1>5. /\ q.kind = o.kind /\ q.off = o.off /\ q.len = o.len /\ q.got = o.got + 1
      /\ q.pc = IF o.got + 1 = o.len THEN "ok" ELSE "io"
  BY <1>0, <1>4 DEF Advanced, Operations
<1>6. /\ cl \in Calls /\ w \in Seq(BytesTo(Len(cl))) /\ n \in 0 .. Len(cl) /\ Len(cl) \in Nat
      /\ SizeIn(cl, n) \in Nat
  <2>1. cl \in Calls /\ Len(cl) \in Nat /\ n \in 0 .. Len(cl)
    BY LenCalls, EndFacts DEF BytesTo
  <2>2. SizeIn(cl, n) \in Nat
    BY <2>1, CallFacts
  <2> QED BY <2>1, <2>2 DEF KnownBytes
<1> HIDE DEF cl, w, k, n
<1>7. Comes(cl, last, byte)
  <2>1. Len(w) \in Nat \ {0} /\ byte = w[1]
    BY <1>1, <1>2, <1>6, SeqTail
  <2>2. Comes(cl, At(last, w, 1 - 1), w[1])
    BY <2>1 DEF Chain, cl, w
  <2> QED BY <2>1, <2>2 DEF At
<1>8. ReadAt(d, last, o) /\ Piece(o, flag[d], has_recved[d], body_len[d])
  BY <1>4 DEF Reader, EndInv, Framed
<1>9. ASSUME o.kind = "hdr" PROVE ReadAt(d, byte, q)'
  <2>1. last = End(cl, n) /\ Nth(cl, n) = k /\ o.len = 1
    BY <1>1, <1>8, <1>9 DEF ReadAt, Done, Between, cl, n, k
  <2>2. last.i = SizeIn(cl, n)
    BY <2>1 DEF End, Image
  <2>3. PICK m \in Accepted(cl) : IsNext(cl, n, m) /\ byte = Image(m, 0)
    BY <1>6, <1>7, <2>2 DEF Comes, n
  <2>4. Nth(cl, m) = k + 1 /\ byte.ci = m
    BY <1>6, <2>1, <2>3, NthNext, ImageFields
  <2>5. HeaderIn(d, byte)'
    BY <1>1, <1>3, <1>9, <2>3, <2>4 DEF HeaderIn, HeaderAt, cl, k
  <2>6. q.pc = "ok"
    BY <1>4, <1>5, <2>1
  <2>7. ReadAt(d, byte, q)'
    BY <1>5, <1>9, <2>1, <2>5, <2>6 DEF ReadAt
  <2> QED BY <2>7
<1>10. ASSUME o.kind = "body" PROVE ReadAt(d, byte, q)'
  <2>1. /\ HeaderAt(cl, last, k, cmd_hdr[d]) /\ BodyAt(cl, last, j, cmd_body[d])
        /\ body_len[d] = SizeIn(cl, n) /\ (flag[d] = 0 => o.len = body_len[d])
    BY <1>1, <1>8, <1>10 DEF ReadAt, BodyIn, cl, n, k
  <2>2. /\ flag[d] # 1 /\ o.off = has_recved[d] /\ has_recved[d] + o.len <= body_len[d]
    BY <1>8, <1>10 DEF Piece
  <2>3. j \in Nat /\ j < SizeIn(cl, n) /\ body_len[d] \in Nat
    BY <1>4, <1>6, <2>1, <2>2
  <2>4. last = Image(n, j) /\ last.i = j /\ \A i \in 1 .. j : cmd_body[d][i] = Image(n, i)
    BY <2>1, ImageFields DEF BodyAt, n
  <2>5. byte = Image(n, j + 1)
    <3>1. last # End(cl, n)
      BY <2>3, <2>4, ImageFields DEF End
    <3> QED BY <1>7, <2>4, <3>1 DEF Comes, n
  <2>6. /\ byte.ci = n /\ byte.i = j + 1
    BY <2>5, ImageFields
  <2> DEFINE buf == cmd_body[d]
  <2>7. cmd_body'[d] = [buf EXCEPT ![j + 1] = byte] /\ cmd_hdr'[d] = cmd_hdr[d]
    BY <1>3, <1>10 DEF TypeOK
  <2>8. buf \in Seq(Bytes) /\ Len(buf) = body_len[d]
    BY <1>1, <2>2 DEF EndInv, Framed
  <2>9. j + 1 \in 1 .. Len(buf) /\ DOMAIN buf = 1 .. Len(buf)
    BY <2>1, <2>3, <2>8, LenProperties
  <2>10. \A i \in 1 .. j + 1 : cmd_body'[d][i] = Image(n, i)
    <3> HIDE DEF buf, j
    <3> TAKE i \in 1 .. j + 1
    <3>1. i \in DOMAIN buf
      BY <2>3, <2>9
    <3>2. CASE i = j + 1
      BY <2>5, <2>7, <3>1, <3>2
    <3>3. CASE i # j + 1
      <4>1. i \in 1 .. j
        BY <2>3, <3>3
      <4>2. cmd_body'[d][i] = buf[i]
        BY <2>7, <3>1, <3>3
      <4> QED BY <2>4, <4>1, <4>2 DEF buf
    <3> QED BY <3>2, <3>3
  <2>11. HeaderAt(cl, byte, k, cmd_hdr[d])
    BY <2>1, <2>6 DEF HeaderAt, n
  <2>12. BodyAt(cl, byte, j + 1, cmd_body'[d])
    BY <2>5, <2>6, <2>10 DEF BodyAt
  <2> HIDE DEF j
  <2>13. BodyIn(d, byte, j + 1)'
    BY <1>1, <2>1, <2>6, <2>7, <2>11, <2>12 DEF BodyIn, cl, k
  <2>14. q.off + q.got = j + 1
    BY <1>4, <1>5 DEF j
  <2>15. q.pc # "io" => q.got = q.len
    BY <1>5
  <2>16. flag'[d] = 0 => q.len = body_len'[d]
    BY <1>1, <1>5, <2>1
  <2>17. BodyIn(d, byte, q.off + q.got)'
    BY <2>13, <2>14
  <2>18. ReadAt(d, byte, q)'
    BY <1>5, <1>10, <2>15, <2>16, <2>17 DEF ReadAt
  <2> QED BY <2>18
<1>11. ReadAt(d, byte, q)'
  BY <1>1, <1>4, <1>9, <1>10
<1>12. Without(queue'[d], {"bind", "recv"}) /\ ReadOps(ops'[d]) \subseteq {q}
  <2>1. \A x \in ReadOps(ops[d]) : x = o
    BY <1>4 DEF EndInv, ReadsOnce, Single
  <2>2. Without(queue[d], {"bind", "recv"})
    BY <1>4 DEF EndInv, ReadsOnce, Single
  <2> QED BY <1>1, <2>1, <2>2 DEF ReadOps
<1> QED BY <1>11, <1>12 DEF Reader, Without

\* The operations and their handlers, when no byte is read.
LEMMA ReaderIo ==
  ASSUME TypeOK, NEW d \in Ends, EndInv(d), NEW last, Reader(d, last), NEW o \in ops[d],
         IoWrite(d, o) \/ IoFail(d, o) \/ HandlerCopy(d, o) \/ HandlerCall(d, o)
  PROVE  Reader(d, last)' /\ delivered' = delivered
<1>1. /\ UNCHANGED <<recvVars, calls>> /\ o \in Operations
      /\ Reading(d)' = Reading(d) /\ delivered' = delivered
  BY DEF IoWrite, IoFail, HandlerCopy, HandlerCall, recvVars, Reading, TypeOK
<1>2. /\ o.kind \in {"hdr", "body", "write"} /\ o.len \in Nat
      /\ o.pc \in {"io", "ok", "err", "call", "report"}
  BY <1>1 DEF Operations
<1>3. ASSUME UNCHANGED queue, NEW p, Replace(d, o, p), p \in ReadOps({p}) => ReadAt(d, last, p)
      PROVE  Reader(d, last)'
  <2>1. \A x \in ReadOps(ops'[d]) : x \in ReadOps(ops[d]) \/ ReadAt(d, last, x)
    BY <1>3 DEF Replace, ReadOps, Set, TypeOK
  <2> QED BY <1>1, <1>3, <2>1, ReaderStays
<1>4. ASSUME Remove(d, o)
      PROVE  ReadOps(ops'[d]) \subseteq ReadOps(ops[d])
  BY <1>4 DEF Remove, ReadOps, Set, TypeOK
<1>5. CASE IoWrite(d, o)
  <2>1. UNCHANGED queue /\ Replace(d, o, Advanced(o)) /\ o.kind = "write"
    BY <1>5 DEF IoWrite
  <2>2. Advanced(o).kind = o.kind
    BY <1>1 DEF Advanced, Operations
  <2> QED BY <1>1, <1>3, <2>1, <2>2 DEF ReadOps
<1>6. CASE IoFail(d, o)
  <2> DEFINE p == [o EXCEPT !.pc = "err"]
  <2>1. UNCHANGED queue /\ Replace(d, o, p) /\ o.pc = "io"
    BY <1>6 DEF IoFail
  <2>2. p.kind = o.kind /\ p.pc = "err" /\ p.len = o.len
    BY <1>1 DEF Operations
  <2> HIDE DEF p
  <2>3. ASSUME p \in ReadOps({p}) PROVE ReadAt(d, last, p)
    <3>1. o \in ReadOps(ops[d])
      BY <2>1, <2>2, <2>3 DEF ReadOps
    <3>2. ReadAt(d, last, o)
      BY <3>1 DEF Reader
    <3> QED BY <2>2, <3>2 DEF ReadAt
  <2> QED BY <1>1, <1>3, <2>1, <2>3
<1>7. CASE HandlerCopy(d, o)
  <2>1. UNCHANGED queue
    BY <1>7 DEF HandlerCopy
  <2>2. CASE Remove(d, o)
    BY <1>1, <1>4, <2>1, <2>2, ReaderStays
  <2>3. CASE Replace(d, o, [o EXCEPT !.pc = "report"])
    <3> DEFINE p == [o EXCEPT !.pc = "report"]
    <3>1. p.pc = "report"
      BY <1>1 DEF Operations
    <3> QED BY <1>1, <1>3, <2>1, <2>3, <3>1 DEF ReadOps
  <2>4. CASE o.pc = "ok" /\ Replace(d, o, [o EXCEPT !.pc = "call"])
    <3> DEFINE p == [o EXCEPT !.pc = "call"]
    <3>1. p.kind = o.kind /\ p.pc = "call" /\ p.len = o.len /\ p.off = o.off /\ p.got = o.got
      BY <1>1 DEF Operations
    <3> HIDE DEF p
    <3>2. ASSUME p \in ReadOps({p}) PROVE ReadAt(d, last, p)
      <4>1. o \in ReadOps(ops[d])
        BY <2>4, <3>1, <3>2 DEF ReadOps
      <4>2. ReadAt(d, last, o)
        BY <4>1 DEF Reader
      <4> QED BY <2>4, <3>1, <4>2 DEF ReadAt
    <3> QED BY <1>1, <1>3, <2>1, <2>4, <3>2 DEF p
  <2> QED BY <1>7, <2>2, <2>3, <2>4 DEF HandlerCopy
<1>8. CASE HandlerCall(d, o)
  <2>1. /\ Remove(d, o) /\ o.pc \in {"call", "report"}
        /\ \/ UNCHANGED queue
           \/ queue' = Set(queue, d, Append(queue[d],
                IF o.pc = "report" THEN Fo("error", 0)
                ELSE IF o.kind = "write" THEN Fo("sent", o.len) ELSE Fo("recv", o.len)))
    BY <1>8 DEF HandlerCall
  <2>2. PICK fo : fo = IF o.pc = "report" THEN Fo("error", 0)
                       ELSE IF o.kind = "write" THEN Fo("sent", o.len) ELSE Fo("recv", o.len)
    OBVIOUS
  <2>3. /\ fo \in Fos /\ fo.fn # "bind"
        /\ fo.fn = "recv" => o.pc = "call" /\ o.kind # "write" /\ fo.arg = o.len
    BY <1>2, <2>1, <2>2, FoType
  <2>4. ASSUME o.pc = "call", o.kind # "write" PROVE RecvAt(d, last, o.len)
    <3>1. o \in ReadOps(ops[d])
      BY <2>4 DEF ReadOps
    <3>2. ReadAt(d, last, o) /\ Piece(o, flag[d], has_recved[d], body_len[d])
      BY <3>1 DEF Reader, EndInv, Framed
    <3>3. ASSUME flag[d] = 1 PROVE HeaderIn(d, last)
      BY <2>4, <3>2, <3>3 DEF Piece, ReadAt
    <3>4. ASSUME flag[d] # 1
          PROVE  BodyIn(d, last, has_recved[d] + o.len) /\ (flag[d] = 0 => o.len = body_len[d])
      <4>1. o.kind = "body" /\ o.off = has_recved[d]
        BY <3>2, <3>4 DEF Piece
      <4>2. BodyIn(d, last, o.off + o.got) /\ o.got = o.len
        BY <2>4, <3>2, <4>1 DEF ReadAt
      <4>3. flag[d] = 0 => o.len = body_len[d]
        BY <2>4, <3>2, <4>1 DEF ReadAt
      <4> QED BY <4>1, <4>2, <4>3
    <3> QED BY <3>3, <3>4 DEF RecvAt
  <2>5. ASSUME NEW x \in Elems(queue'[d])
        PROVE  \/ x \in Elems(queue[d])
               \/ x.fn # "bind" /\ (x.fn = "recv" => RecvAt(d, last, x.arg))
    <3>1. CASE UNCHANGED queue
      BY <2>5, <3>1
    <3>2. CASE queue' = Set(queue, d, Append(queue[d], fo))
      <4>1. Elems(queue'[d]) = Elems(queue[d]) \cup {fo}
        BY <2>3, <3>2, QueuePost
      <4> QED BY <2>3, <2>4, <2>5, <4>1
    <3> QED BY <2>1, <2>2, <3>1, <3>2
  <2> QED BY <1>1, <1>4, <2>1, <2>5, ReaderStays
<1> QED BY <1>1, <1>5, <1>6, <1>7, <1>8

\* The steps that have no part in reading.
LEMMA ReaderOther ==
  ASSUME TypeOK, NEW d \in Ends, EndInv(d), NEW last, Reader(d, last),
         SendMessage(d) \/ Clear(d) \/ SendMessageStrand(d) \/ OnSendStrand(d)
  PROVE  Reader(d, last)' /\ delivered' = delivered
<1>1. UNCHANGED recvVars /\ EndStep(d)
  BY DEF SendMessage, Clear, SendMessageStrand, OnSendStrand, EndStep, StrandStep
<1>2. /\ Reading(d)' = Reading(d) /\ delivered' = delivered
      /\ calls'[Peer(d)] = calls[Peer(d)]
  BY <1>1, OtherOwn, EndFacts DEF recvVars, Reading, Own
<1>3. ReadOps(ops'[d]) = ReadOps(ops[d])
  <2>1. ASSUME NEW n, Start(d, Write(d, n))
        PROVE  ReadOps(ops'[d]) = ReadOps(ops[d])
    BY <2>1 DEF Start, Set, TypeOK, ReadOps, Write, Op
  <2> QED BY <2>1 DEF SendMessage, Clear, SendMessageStrand, OnSendStrand, DropSend, QueueSend,
                   StartSend, LastSent, NextSent
<1>4. \A fo \in Elems(queue'[d]) : fo \in Elems(queue[d]) \/ fo.fn \notin {"bind", "recv"}
  <2>1. CASE SendMessage(d)
    <3>1. PICK r \in [size : Sizes, magic : Magics, ok : BOOLEAN] :
            queue'[d] = IF r.ok THEN Append(queue[d], Fo("send", Len(calls[d]) + 1)) ELSE queue[d]
      BY <2>1, SendMessageFacts
    <3>2. PICK fo : fo = Fo("send", Len(calls[d]) + 1)
      OBVIOUS
    <3>3. fo \in Fos /\ fo.fn = "send"
      BY <3>2, LenCalls, FoType
    <3>4. queue[d] \in Seq(Fos)
      BY DEF TypeOK
    <3>5. Elems(Append(queue[d], fo)) = Elems(queue[d]) \cup {fo}
      BY <3>3, <3>4, ElemsAppend
    <3> QED BY <3>1, <3>2, <3>3, <3>5
  <2>2. CASE Clear(d)
    <3>1. queue' = Set(queue, d, Append(queue[d], Fo("clear", 0))) \/ queue' = queue
      BY <2>2 DEF Clear
    <3>2. Fo("clear", 0) \in Fos /\ Fo("clear", 0).fn = "clear"
      BY FoType
    <3> QED BY <3>1, <3>2, QueuePost
  <2>3. CASE SendMessageStrand(d) \/ OnSendStrand(d)
    <3>1. Pop(d) /\ queue[d] # <<>>
      BY <2>3 DEF SendMessageStrand, OnSendStrand, Runs
    <3> QED BY <3>1, QueuePop
  <2> QED BY <2>1, <2>2, <2>3
<1> QED BY <1>2, <1>3, <1>4, ReaderStays

\* The stream that an end reads, when that end makes a step.
LEMMA StreamReads ==
  ASSUME IInv, NEW d \in Ends, NEW last, Stream(Peer(d), last),
         InOrder(calls[Peer(d)], delivered[d]), open[d] => port_cb[d], EndStep(d)
  PROVE  /\ \E new \in BytesTo(Len(calls[Peer(d)])) : Stream(Peer(d), new)'
         /\ InOrder(calls[Peer(d)], delivered[d])'
<1> DEFINE f == Peer(d)
           cl == calls[f]
           w == wire[f]
<1>1. /\ TypeOK /\ EndInv(d) /\ KnownBytes(f) /\ f \in Ends /\ f # d /\ Peer(f) = d
      /\ Len(cl) <= MaxSends /\ cl \in Calls /\ Len(cl) \in Nat
  BY EndFacts, LenCalls DEF IInv, EndInv, KnownBytes
<1>2. /\ last \in BytesTo(Len(cl)) /\ Chain(cl, last, w)
      /\ Flowing => Writer(f, Tip(last, w))
      /\ open[d] => Reader(d, last)
  BY <1>1 DEF Stream
<1>3. calls'[f] = cl
  BY <1>1, OtherOwn DEF Own
<1>4. ASSUME NEW t, Flowing => Writer(f, t), Flowing' PROVE Writer(f, t)'
  BY <1>1, <1>4, FlowingBefore, OtherWriter
<1>5. ASSUME NEW o \in ops[d], IoRead(d, o)
      PROVE  /\ \E new \in BytesTo(Len(cl)) : Stream(f, new)'
             /\ InOrder(calls[f], delivered[d])'
  <2>1. PICK byte : byte = Head(w)
    OBVIOUS
  <2>2. /\ open[d] /\ w # <<>> /\ wire'[f] = Tail(w) /\ UNCHANGED delivered
    BY <1>1, <1>5 DEF IoRead, Set, TypeOK
  <2>3. Reader(d, byte)'
    BY <1>1, <1>2, <1>5, <2>1, <2>2, ReaderReads
  <2>4. w \in Seq(BytesTo(Len(cl)))
    BY <1>1 DEF KnownBytes
  <2>5. PICK rest : rest = Tail(w)
    OBVIOUS
  <2>6. PICK t : t = Tip(last, w)
    OBVIOUS
  <2> HIDE DEF w, cl
  <2>7. /\ Len(w) \in Nat \ {0} /\ byte = w[1] /\ Len(rest) = Len(w) - 1
        /\ \A i \in 1 .. Len(rest) : rest[i] = w[i + 1] /\ i + 1 \in 1 .. Len(w)
        /\ byte \in BytesTo(Len(cl))
    BY <2>1, <2>2, <2>4, <2>5, SeqTail, ElemsTail
  <2>8. \A i \in 0 .. Len(rest) : At(byte, rest, i) = At(last, w, i + 1)
    BY <2>7 DEF At
  <2>9. Chain(cl, byte, rest)
    <3> SUFFICES ASSUME NEW i \in 1 .. Len(rest) PROVE Comes(cl, At(byte, rest, i - 1), rest[i])
      BY DEF Chain
    <3>1. PICK m \in 1 .. Len(w) : m = i + 1
      BY <2>7
    <3>2. Comes(cl, At(last, w, m - 1), w[m])
      BY <1>2 DEF Chain
    <3>3. i - 1 \in 0 .. Len(rest) /\ (i - 1) + 1 = i /\ m - 1 = i
      BY <2>7, <3>1
    <3>4. At(byte, rest, i - 1) = At(last, w, i)
      BY <2>8, <3>3
    <3>5. rest[i] = w[m]
      BY <2>7, <3>1
    <3> QED BY <3>2, <3>3, <3>4, <3>5
  <2>10. Tip(byte, rest) = t
    <3>1. Len(rest) \in 0 .. Len(rest) /\ Len(rest) + 1 = Len(w)
      BY <2>7
    <3> QED BY <2>6, <2>8, <3>1 DEF Tip
  <2>11. Flowing' => Writer(f, t)'
    BY <1>2, <1>4, <2>6
  <2>12. Stream(f, byte)'
    <3>1. calls'[f] = cl /\ wire'[f] = rest /\ Peer(f) = d
      BY <1>1, <1>3, <2>2, <2>5
    <3>2. byte \in BytesTo(Len(calls'[f])) /\ Chain(calls'[f], byte, wire'[f])
      BY <2>7, <2>9, <3>1
    <3>3. Tip(byte, wire'[f]) = t
      BY <2>10, <3>1
    <3>4. Flowing' => Writer(f, Tip(byte, wire[f]))'
      BY <2>11, <3>3
    <3> QED BY <2>3, <3>1, <3>2, <3>4 DEF Stream
  <2>13. InOrder(calls[f], delivered[d])'
    BY <1>3, <2>2 DEF cl
  <2> QED BY <2>7, <2>12, <2>13
<1>6. ASSUME ~\E o \in ops[d] : IoRead(d, o) PROVE wire'[f] = w
  <2>1. CASE wire' = wire
    BY <2>1
  <2>2. CASE SendMessage(d) \/ Clear(d) \/ StrandStep(d)
    BY <2>1, <2>2 DEF SendMessage, Clear, StrandStep, BindSocketStrand, SendMessageStrand,
            OnSendStrand, OnRecvStrand, ClearStrand, OnErrorStrand, DoClear, netVars
  <2>3. ASSUME NEW o \in ops[d], IoStep(d, o) PROVE wire'[f] = w
    <3>1. CASE IoWrite(d, o)
      BY <1>1, <3>1 DEF IoWrite, Set, TypeOK
    <3>2. CASE ~IoWrite(d, o)
      BY <1>6, <2>1, <2>3, <3>2 DEF IoStep, IoFail, HandlerCopy, HandlerCall, netVars
    <3> QED BY <3>1, <3>2
  <2> QED BY <2>2, <2>3 DEF EndStep
<1>7. ASSUME wire'[f] = w, open'[d] => Reader(d, last)', InOrder(calls[f], delivered[d])'
      PROVE  /\ \E new \in BytesTo(Len(cl)) : Stream(f, new)'
             /\ InOrder(calls[f], delivered[d])'
  <2>1. PICK t : t = Tip(last, w)
    OBVIOUS
  <2>2. Flowing' => Writer(f, t)'
    BY <1>2, <1>4, <2>1
  <2>3. last \in BytesTo(Len(calls'[f])) /\ Chain(calls'[f], last, wire'[f]) /\ Peer(f) = d
    BY <1>1, <1>2, <1>3, <1>7
  <2>4. Tip(last, wire'[f]) = t
    BY <1>7, <2>1
  <2>5. Flowing' => Writer(f, Tip(last, wire[f]))'
    BY <2>2, <2>4
  <2>6. Stream(f, last)'
    BY <1>7, <2>3, <2>5 DEF Stream
  <2> QED BY <1>2, <1>7, <2>6
<1>8. ASSUME open[d], ~ClearStrand(d), ~OnErrorStrand(d), ~\E o \in ops[d] : IoRead(d, o)
      PROVE  Reader(d, last)' /\ InOrder(calls[f], delivered[d])'
  <2>1. Reader(d, last) /\ port_cb[d]
    BY <1>2, <1>8
  <2>2. ASSUME delivered' = delivered PROVE InOrder(calls[f], delivered[d])'
    BY <1>3, <2>2
  <2>3. CASE SendMessage(d) \/ Clear(d) \/ SendMessageStrand(d) \/ OnSendStrand(d)
    BY <1>1, <2>1, <2>2, <2>3, ReaderOther
  <2>4. CASE BindSocketStrand(d)
    <3>1. delivered' = delivered
      BY <2>4 DEF BindSocketStrand
    <3> QED BY <1>1, <2>1, <2>2, <2>4, <3>1, ReaderBinds
  <2>5. CASE OnRecvStrand(d)
    BY <1>1, <1>2, <1>8, <2>1, <2>5, ReaderReceives
  <2>6. ASSUME NEW o \in ops[d], IoStep(d, o)
        PROVE  Reader(d, last)' /\ InOrder(calls[f], delivered[d])'
    <3>1. IoWrite(d, o) \/ IoFail(d, o) \/ HandlerCopy(d, o) \/ HandlerCall(d, o)
      BY <1>8, <2>6 DEF IoStep
    <3> QED BY <1>1, <2>1, <2>2, <3>1, ReaderIo
  <2> QED BY <1>8, <2>3, <2>4, <2>5, <2>6 DEF EndStep, StrandStep
<1>9. ASSUME ~open[d] \/ ClearStrand(d) \/ OnErrorStrand(d),
             ~\E o \in ops[d] : IoRead(d, o)
      PROVE  ~open'[d] /\ InOrder(calls[f], delivered[d])'
  <2>1. ~open'[d]
    BY <1>1, <1>9, OpenBefore
  <2>2. delivered'[d] = delivered[d]
    <3>1. CASE ~open[d]
      <4>1. CASE SendMessage(d) \/ Clear(d) \/ StrandStep(d)
        BY <3>1, <4>1 DEF SendMessage, Clear, StrandStep, BindSocketStrand, SendMessageStrand,
                OnSendStrand, OnRecvStrand, ClearStrand, OnErrorStrand, DoClear, recvVars
      <4>2. CASE \E o \in ops[d] : IoStep(d, o)
        BY <4>2 DEF IoStep, IoWrite, IoRead, IoFail, HandlerCopy, HandlerCall, recvVars
      <4> QED BY <4>1, <4>2 DEF EndStep
    <3>2. CASE ClearStrand(d) \/ OnErrorStrand(d)
      BY <3>2 DEF ClearStrand, OnErrorStrand, DoClear
    <3> QED BY <1>9, <3>1, <3>2
  <2> QED BY <1>3, <2>1, <2>2
<1>10. CASE \E o \in ops[d] : IoRead(d, o)
  BY <1>5, <1>10
<1>11. CASE ~\E o \in ops[d] : IoRead(d, o)
  BY <1>6, <1>7, <1>8, <1>9, <1>11
<1> QED BY <1>10, <1>11
-----------------------------------------------------------------------------
(* The invariant holds in every state.                                      *)

LEMMA ChannelStep ==
  ASSUME IInv, ChannelInv, NEW d \in Ends, EndStep(d)
  PROVE  ChannelInv'
<1>1. /\ TypeOK /\ Peer(d) \in Ends /\ Peer(d) # d /\ Peer(Peer(d)) = d
      /\ \A e \in Ends : e = d \/ e = Peer(d)
      /\ \A e \in Ends : Len(calls[e]) \in Nat /\ Len(calls[e]) <= MaxSends
  BY EndFacts, LenCalls DEF IInv, EndInv, KnownBytes
<1>2. StreamInv(d) /\ StreamInv(Peer(d))
  BY <1>1 DEF ChannelInv
<1>3. Own(Peer(d))' = Own(Peer(d))
  BY <1>1, OtherOwn
<1>4. /\ calls'[Peer(d)] = calls[Peer(d)] /\ delivered'[Peer(d)] = delivered[Peer(d)]
      /\ open'[Peer(d)] = open[Peer(d)] /\ port_cb'[Peer(d)] = port_cb[Peer(d)]
  BY <1>3 DEF Own
<1>5. StreamInv(d)'
  <2>1. PICK last \in Bytes : Stream(d, last)
    BY <1>2 DEF StreamInv
  <2>2. Stream(d, last)'
    BY <2>1, StreamWrites
  <2>3. Grown(calls[d], calls'[d]) /\ Numbered(calls'[d])
    BY <1>1, <1>2, CallsBefore DEF StreamInv
  <2>4. InOrder(calls'[d], delivered'[Peer(d)])
    BY <1>2, <1>4, <2>3, InOrderGrown DEF StreamInv
  <2>5. open'[d] => port_cb'[d]
    BY <1>1, <1>2, OpenBefore DEF StreamInv
  <2> QED BY <2>1, <2>2, <2>3, <2>4, <2>5 DEF StreamInv
<1>6. StreamInv(Peer(d))'
  <2> DEFINE f == Peer(d)
  <2>1. PICK last \in Bytes : Stream(f, last)
    BY <1>2 DEF StreamInv
  <2>2. InOrder(calls[f], delivered[d]) /\ (open[d] => port_cb[d])
    BY <1>1, <1>2 DEF StreamInv
  <2>3. /\ \E new \in BytesTo(Len(calls[f])) : Stream(f, new)'
        /\ InOrder(calls[f], delivered[d])'
    BY <2>1, <2>2, StreamReads
  <2>4. BytesTo(Len(calls[f])) \subseteq Bytes
    <3>1. BytesTo(MaxSends) = Bytes
      BY DEF BytesTo, Bytes
    <3> QED BY <1>1, <3>1, Bounds, BytesGrow
  <2>5. Numbered(calls'[f]) /\ (open'[f] => port_cb'[f])
    BY <1>2, <1>4 DEF StreamInv
  <2>6. \E new \in Bytes : Stream(f, new)'
    BY <2>3, <2>4
  <2>7. InOrder(calls'[f], delivered'[Peer(f)])
    BY <1>1, <2>3
  <2> HIDE DEF f
  <2> QED BY <2>5, <2>6, <2>7 DEF StreamInv, f
<1> QED BY <1>1, <1>5, <1>6 DEF ChannelInv

\* Nothing but the connection changes, and it is lost if it does.
LEMMA ChannelStays ==
  ASSUME ChannelInv, link' => link,
         UNCHANGED <<queue, recvVars, sendVars, sockVars, userVars, wire, ops, calls>>
  PROVE  ChannelInv'
<1> SUFFICES ASSUME NEW e \in Ends PROVE StreamInv(e)'
  BY DEF ChannelInv
<1>1. /\ UNCHANGED <<queue, ops, calls, wire>>
      /\ UNCHANGED <<flag, has_recved, cmd_hdr, cmd_body, body_len, delivered>>
      /\ UNCHANGED <<cur_send, cmd_info_list, open, port_cb>>
  BY DEF recvVars, sendVars, sockVars, userVars
<1>2. StreamInv(e) /\ (Flowing' => Flowing)
  BY <1>1 DEF ChannelInv, Flowing
<1>3. PICK last \in Bytes : Stream(e, last)
  BY <1>2 DEF StreamInv
<1>4. PICK t : t = Tip(last, wire[e])
  OBVIOUS
<1>5. Writer(e, t)' <=> Writer(e, t)
  BY <1>1 DEF Writer
<1>6. Reader(Peer(e), last)' <=> Reader(Peer(e), last)
  <2>1. \A j : BodyIn(Peer(e), last, j)' <=> BodyIn(Peer(e), last, j)
    BY <1>1 DEF BodyIn
  <2>2. /\ Done(Peer(e), last)' <=> Done(Peer(e), last)
        /\ HeaderIn(Peer(e), last)' <=> HeaderIn(Peer(e), last)
    BY <1>1 DEF Done, HeaderIn
  <2>3. \A o : ReadAt(Peer(e), last, o)' <=> ReadAt(Peer(e), last, o)
    BY <1>1, <2>1, <2>2 DEF ReadAt
  <2>4. \A arg : RecvAt(Peer(e), last, arg)' <=> RecvAt(Peer(e), last, arg)
    BY <1>1, <2>1, <2>2 DEF RecvAt
  <2> QED BY <1>1, <2>2, <2>3, <2>4 DEF Reader
<1>7. Tip(last, wire'[e]) = t
  BY <1>1, <1>4
<1>8. Flowing' => Writer(e, Tip(last, wire[e]))'
  <2>1. Flowing => Writer(e, t)
    BY <1>3, <1>4 DEF Stream
  <2>2. Flowing' => Writer(e, t)'
    BY <1>2, <1>5, <2>1
  <2> QED BY <1>7, <2>2
<1>9. Stream(e, last)'
  <2>1. last \in BytesTo(Len(calls'[e])) /\ Chain(calls'[e], last, wire'[e])
    BY <1>1, <1>3 DEF Stream
  <2>2. open'[Peer(e)] => Reader(Peer(e), last)'
    BY <1>1, <1>3, <1>6 DEF Stream
  <2> QED BY <1>8, <2>1, <2>2 DEF Stream
<1> QED BY <1>1, <1>2, <1>3, <1>9 DEF StreamInv

LEMMA ChannelNext ==
  ASSUME IInv, ChannelInv, [Next]_vars
  PROVE  ChannelInv'
<1>1. CASE Lose
  BY <1>1, ChannelStays DEF Lose
<1>2. CASE UNCHANGED vars
  BY <1>2, ChannelStays DEF vars, netVars
<1> QED BY <1>1, <1>2, ChannelStep, NextSteps

LEMMA InitChannel == Init => ChannelInv
<1> SUFFICES ASSUME Init, NEW e \in Ends PROVE StreamInv(e)
  BY DEF ChannelInv
<1>1. Peer(e) \in Ends
  BY EndFacts
<1>2. /\ calls[e] = <<>> /\ wire[e] = <<>> /\ cur_send[e] = 0 /\ cmd_info_list[e] = <<>>
      /\ delivered[Peer(e)] = <<>> /\ port_cb[e]
      /\ \A d \in Ends : ops[d] = {} /\ queue[d] = <<Fo("bind", 0)>>
  BY <1>1 DEF Init
<1>3. ASSUME NEW d \in Ends
      PROVE  Elems(queue[d]) = {Fo("bind", 0)} /\ Len(queue[d]) = 1
  <2>1. queue[d] = <<Fo("bind", 0)>>
    BY <1>2
  <2>2. Len(queue[d]) = 1 /\ queue[d][1] = Fo("bind", 0)
    BY <2>1
  <2> QED BY <2>2 DEF Elems
<1>4. Fo("bind", 0).fn = "bind"
  BY DEF Fo
<1>5. /\ <<>> \in Calls /\ Len(<<>>) = 0 /\ Accepted(<<>>) = {}
  <2>1. <<>> \in Calls
    BY EmptySeq DEF Calls
  <2> QED BY <2>1, CallFacts
<1>6. /\ Zero = Image(0, 0) /\ Zero.ci = 0 /\ End(<<>>, 0) = Zero
      /\ Zero \in BytesTo(0) /\ Zero \in Bytes
  <2>1. PICK i \in Nat : i = 0
    OBVIOUS
  <2>2. Zero = Image(0, 0)
    <3>1. ~(i > 0)
      BY <2>1
    <3>2. (i > 0) = FALSE
      BY <3>1
    <3> QED BY <2>1, <3>2 DEF Zero, Image
  <2>3. Zero.ci = 0 /\ Zero \in BytesTo(0) /\ Zero \in Bytes
    BY Bounds DEF Zero, BytesTo, Bytes
  <2> QED BY <2>2, <2>3 DEF End, SizeIn
<1>7. Tip(Zero, wire[e]) = Zero /\ Chain(calls[e], Zero, wire[e])
  BY <1>2, <1>5 DEF Tip, At, Chain
<1>8. Writer(e, Zero)
  <2>1. Sorted(0, <<>>, queue[e])
    BY <1>3, <1>4 DEF Sorted, Ascending, SendsAscend, Elems
  <2>2. Complete(<<>>, 0, <<>>, queue[e])
    BY <1>5 DEF Complete
  <2>3. Front(cur_send[e], Zero) = 0
    BY <1>2, <1>6 DEF Front
  <2>4. WriteOps(ops[e]) = {} /\ \A fo \in Elems(queue[e]) : fo.fn # "sent"
    BY <1>2, <1>3, <1>4 DEF WriteOps
  <2> QED BY <1>2, <1>6, <2>1, <2>2, <2>3, <2>4 DEF Writer
<1>9. Reader(Peer(e), Zero)
  <2>1. Peer(Peer(e)) = e
    BY EndFacts
  <2>2. Nth(<<>>, 0) = 0
    BY <1>5, NthZero
  <2>3. Done(Peer(e), Zero)
    BY <1>2, <1>5, <1>6, <2>1, <2>2 DEF Done, Between
  <2>4. ReadOps(ops[Peer(e)]) = {} /\ \A fo \in Elems(queue[Peer(e)]) : fo.fn # "recv"
    BY <1>1, <1>2, <1>3, <1>4 DEF ReadOps
  <2> QED BY <2>3, <2>4 DEF Reader
<1>10. Stream(e, Zero)
  BY <1>2, <1>5, <1>6, <1>7, <1>8, <1>9 DEF Stream
<1>11. Numbered(calls[e]) /\ InOrder(calls[e], delivered[Peer(e)])
  <2>1. Cardinality(Accepted(<<>>)) = 0
    BY <1>5, FS_EmptySet
  <2>2. Numbered(<<>>)
    BY <2>1 DEF Numbered
  <2>3. InOrder(<<>>, <<>>)
    BY <1>5 DEF InOrder
  <2> QED BY <1>2, <2>2, <2>3
<1> QED BY <1>2, <1>6, <1>10, <1>11 DEF StreamInv

\* Whatever is read, on the wire or still to be written is in its place in the
\* stream of the accepted messages, and what was handed up came whole and in
\* order (netport.cpp:163-272).
THEOREM StreamInvariance == Spec => []ChannelInv
<1>1. IInv /\ ChannelInv /\ [Next]_vars => IInv' /\ ChannelInv'
  BY NextIInv, ChannelNext
<1> QED BY <1>1, InitIInv, InitChannel, PTL DEF Spec
-----------------------------------------------------------------------------
(* What the channel promises, in terms of the calls and what was handed up. *)

AllMessages == [ci : 1 .. MaxSends, size : Sizes, magic : Magics]

\* What Handed makes of it, when cl are the calls at the other end.
HandedOf(cl, d) ==
  LET n == d.hdr.ci
      plain == [i \in 1 .. cl[n].size |-> [ci |-> n, i |-> i, enc |-> FALSE]]
  IN IF n \in DOMAIN cl /\ d.hdr.i = 0 /\ d.body = plain THEN MessageOf(cl, n) ELSE None

HandedBy(cl, dl) == [k \in DOMAIN dl |-> HandedOf(cl, dl[k])]

LEMMA LenOf ==
  ASSUME NEW S, NEW n \in Nat, NEW s \in [1 .. n -> S]
  PROVE  s \in Seq(S) /\ Len(s) = n
<1>1. s \in Seq(S)
  BY SeqDef
<1>2. Len(s) \in Nat /\ DOMAIN s = 1 .. Len(s) /\ DOMAIN s = 1 .. n
  BY <1>1, LenProperties
<1> QED BY <1>1, <1>2

LEMMA SentType ==
  ASSUME NEW cl \in Calls, Numbered(cl), Len(cl) <= MaxSends
  PROVE  /\ SentBy(cl) \in Seq(AllMessages) /\ Len(SentBy(cl)) = Cardinality(Accepted(cl))
         /\ \A n \in Accepted(cl) : MessageOf(cl, n) \in AllMessages
<1>1. /\ Accepted(cl) \subseteq 1 .. Len(cl) /\ Len(cl) \in Nat
      /\ Cardinality(Accepted(cl)) \in Nat
      /\ \A n \in 1 .. Len(cl) : cl[n].size \in Sizes /\ cl[n].magic \in Magics
  BY CallFacts
<1>2. \A n \in Accepted(cl) : MessageOf(cl, n) \in AllMessages
  BY <1>1, Bounds DEF MessageOf, AllMessages
<1>3. \A k \in 1 .. Cardinality(Accepted(cl)) : SentBy(cl)[k] \in AllMessages
  <2> TAKE k \in 1 .. Cardinality(Accepted(cl))
  <2>1. PICK n \in Accepted(cl) : Nth(cl, n) = k
    BY DEF Numbered
  <2>2. SentBy(cl)[k] = MessageOf(cl, n)
    BY <2>1, SentOf
  <2> QED BY <1>2, <2>2
<1>4. SentBy(cl) \in [1 .. Cardinality(Accepted(cl)) -> AllMessages]
  BY <1>3 DEF SentBy
<1> QED BY <1>1, <1>2, <1>4, LenOf

\* An accepted call adds its message, a refused one nothing.
LEMMA SentGrown ==
  ASSUME NEW cl \in Calls, Numbered(cl), NEW r \in [size : Sizes, magic : Magics, ok : BOOLEAN],
         NEW more, more = Append(cl, r), Len(more) <= MaxSends
  PROVE  /\ r.ok => \E m \in AllMessages : SentBy(more) = Append(SentBy(cl), m)
         /\ ~r.ok => SentBy(more) = SentBy(cl)
<1> DEFINE j == Len(cl) + 1
           c == Cardinality(Accepted(cl))
<1>1. Grown(cl, more) /\ more \in Calls /\ Numbered(more) /\ Len(cl) \in Nat /\ c \in Nat
      /\ Len(cl) <= MaxSends /\ Accepted(cl) \subseteq 1 .. Len(cl)
  <2>1. Grown(cl, more) /\ more \in Calls /\ Len(more) = Len(cl) + 1
    BY GrownAppend
  <2>2. Len(cl) \in Nat /\ c \in Nat /\ Accepted(cl) \subseteq 1 .. Len(cl)
    BY CallFacts
  <2>3. Numbered(more)
    BY NumberedGrown
  <2> QED BY <2>1, <2>2, <2>3, Bounds
<1>2. /\ r.ok => /\ Accepted(more) = Accepted(cl) \cup {j}
                 /\ Cardinality(Accepted(more)) = c + 1 /\ Nth(more, j) = c + 1
      /\ ~r.ok => Accepted(more) = Accepted(cl)
  BY NumberedGrown
<1>3. /\ SentBy(cl) \in Seq(AllMessages) /\ Len(SentBy(cl)) = c
      /\ SentBy(more) \in Seq(AllMessages) /\ Len(SentBy(more)) = Cardinality(Accepted(more))
      /\ \A n \in Accepted(more) : MessageOf(more, n) \in AllMessages
  BY <1>1, SentType
<1>4. ASSUME NEW k \in 1 .. c PROVE SentBy(more)[k] = SentBy(cl)[k]
  <2>1. PICK n \in Accepted(cl) : Nth(cl, n) = k
    BY <1>1 DEF Numbered
  <2>2. n \in Accepted(more) /\ Nth(more, n) = k /\ MessageOf(more, n) = MessageOf(cl, n)
    BY <1>1, <2>1, GrownSame
  <2> QED BY <1>1, <2>1, <2>2, SentOf
<1> HIDE DEF c, j
<1>5. CASE r.ok
  <2>1. j \in Accepted(more) /\ SentBy(more)[c + 1] = MessageOf(more, j)
    BY <1>1, <1>2, <1>5, SentOf
  <2>2. PICK m \in AllMessages : m = MessageOf(more, j)
    BY <1>3, <2>1
  <2>3. /\ Append(SentBy(cl), m) \in Seq(AllMessages) /\ Len(Append(SentBy(cl), m)) = c + 1
        /\ \A k \in 1 .. c : Append(SentBy(cl), m)[k] = SentBy(cl)[k]
        /\ Append(SentBy(cl), m)[c + 1] = m
    BY <1>3, AppendProperties
  <2>4. \A k \in 1 .. c + 1 : SentBy(more)[k] = Append(SentBy(cl), m)[k]
    <3> TAKE k \in 1 .. c + 1
    <3>1. k \in 1 .. c \/ k = c + 1
      BY <1>1 DEF c
    <3> QED BY <1>4, <2>1, <2>2, <2>3, <3>1
  <2>5. Len(SentBy(more)) = c + 1
    BY <1>2, <1>3, <1>5
  <2>6. SentBy(more) = Append(SentBy(cl), m)
    BY <1>3, <2>3, <2>4, <2>5, SeqEqual
  <2> QED BY <1>5, <2>6
<1>6. CASE ~r.ok
  <2>1. Len(SentBy(more)) = c
    BY <1>2, <1>3, <1>6 DEF c
  <2>2. SentBy(more) = SentBy(cl)
    BY <1>3, <1>4, <2>1, SeqEqual
  <2> QED BY <1>6, <2>2
<1> QED BY <1>5, <1>6

\* What was handed up is what was sent, in that order.
LEMMA HandedSent ==
  ASSUME NEW cl \in Calls, NEW dl \in Seq([hdr : Bytes, body : Seq(Bytes)]), InOrder(cl, dl),
         NEW k \in 1 .. Len(dl)
  PROVE  /\ k \in 1 .. Cardinality(Accepted(cl)) /\ HandedBy(cl, dl)[k] = SentBy(cl)[k]
         /\ dl[k].hdr.ci \in 1 .. Len(cl)
         /\ HandedBy(cl, dl)[k] = MessageOf(cl, dl[k].hdr.ci)
<1> DEFINE n == dl[k].hdr.ci
<1>1. /\ dl[k].hdr = Image(n, 0) /\ n \in Accepted(cl) /\ Nth(cl, n) = k
      /\ dl[k].body = [i \in 1 .. cl[n].size |-> [ci |-> n, i |-> i, enc |-> FALSE]]
  BY DEF InOrder, Whole
<1>2. k \in DOMAIN dl /\ DOMAIN cl = 1 .. Len(cl) /\ n \in 1 .. Len(cl)
  BY <1>1, LenProperties, CallFacts DEF Calls
<1>3. dl[k].hdr.i = 0
  BY <1>1, ImageFields
<1>4. HandedOf(cl, dl[k]) = MessageOf(cl, n)
  BY <1>1, <1>2, <1>3 DEF HandedOf
<1> QED BY <1>1, <1>2, <1>4, SentOf DEF HandedBy

LEMMA HandedGrown ==
  ASSUME NEW cl, NEW more, Grown(cl, more),
         NEW dl \in Seq([hdr : Bytes, body : Seq(Bytes)]), InOrder(cl, dl)
  PROVE  HandedBy(more, dl) = HandedBy(cl, dl)
<1>1. cl \in Calls /\ more \in Calls /\ InOrder(more, dl) /\ DOMAIN dl = 1 .. Len(dl)
  BY InOrderGrown, LenProperties DEF Grown
<1>2. ASSUME NEW k \in DOMAIN dl PROVE HandedOf(more, dl[k]) = HandedOf(cl, dl[k])
  <2>1. k \in 1 .. Len(dl)
    BY <1>1
  <2>2. /\ HandedBy(more, dl)[k] = MessageOf(more, dl[k].hdr.ci)
        /\ HandedBy(cl, dl)[k] = MessageOf(cl, dl[k].hdr.ci) /\ dl[k].hdr.ci \in 1 .. Len(cl)
    BY <1>1, <2>1, HandedSent
  <2>3. MessageOf(more, dl[k].hdr.ci) = MessageOf(cl, dl[k].hdr.ci)
    BY <2>2, GrownSame
  <2> QED BY <2>2, <2>3 DEF HandedBy
<1> QED BY <1>2 DEF HandedBy

LEMMA HandedMore ==
  ASSUME NEW cl \in Calls, Numbered(cl), Len(cl) <= MaxSends,
         NEW dl \in Seq([hdr : Bytes, body : Seq(Bytes)]),
         NEW c \in [hdr : Bytes, body : Seq(Bytes)], InOrder(cl, Append(dl, c)),
         InOrder(cl, dl)
  PROVE  /\ Len(HandedBy(cl, dl)) < Len(SentBy(cl))
         /\ HandedBy(cl, Append(dl, c))
              = Append(HandedBy(cl, dl), SentBy(cl)[Len(HandedBy(cl, dl)) + 1])
<1> DEFINE new == Append(dl, c)
           k == Len(dl)
           m == SentBy(cl)[k + 1]
<1>1. /\ new \in Seq([hdr : Bytes, body : Seq(Bytes)]) /\ Len(new) = k + 1 /\ k \in Nat
      /\ DOMAIN new = 1 .. k + 1 /\ DOMAIN dl = 1 .. k
      /\ \A i \in 1 .. k : new[i] = dl[i]
  BY AppendProperties, LenProperties
<1>2. SentBy(cl) \in Seq(AllMessages) /\ Len(SentBy(cl)) = Cardinality(Accepted(cl))
  BY SentType
<1> HIDE DEF new, k, m
<1>3. \A i \in 1 .. k + 1 :
        i \in 1 .. Cardinality(Accepted(cl)) /\ HandedBy(cl, new)[i] = SentBy(cl)[i]
  BY <1>1, HandedSent DEF new
<1>4. \A i \in 1 .. k : HandedBy(cl, dl)[i] = SentBy(cl)[i]
  BY HandedSent DEF k
<1>5. \A i \in 1 .. k + 1 : SentBy(cl)[i] \in AllMessages
  BY <1>2, <1>3, ElementOfSeq
<1>6. HandedBy(cl, new) \in Seq(AllMessages) /\ Len(HandedBy(cl, new)) = k + 1
  <2>1. HandedBy(cl, new) \in [1 .. k + 1 -> AllMessages]
    BY <1>1, <1>3, <1>5 DEF HandedBy
  <2>2. PICK n \in Nat : n = k + 1
    BY <1>1
  <2>3. PICK f \in [1 .. n -> AllMessages] : f = HandedBy(cl, new)
    BY <2>1, <2>2
  <2>4. f \in Seq(AllMessages) /\ Len(f) = n
    BY LenOf
  <2> QED BY <2>2, <2>3, <2>4
<1>7. HandedBy(cl, dl) \in Seq(AllMessages) /\ Len(HandedBy(cl, dl)) = k
  <2>1. \A i \in 1 .. k : HandedBy(cl, dl)[i] \in AllMessages
    <3> TAKE i \in 1 .. k
    <3>1. i \in 1 .. k + 1
      BY <1>1
    <3> QED BY <1>4, <1>5, <3>1
  <2>2. HandedBy(cl, dl) \in [1 .. k -> AllMessages]
    BY <1>1, <2>1 DEF HandedBy
  <2> QED BY <1>1, <2>2, LenOf
<1>8. m \in AllMessages /\ k + 1 \in 1 .. Cardinality(Accepted(cl))
  <2>1. k + 1 \in 1 .. k + 1
    BY <1>1
  <2> QED BY <1>3, <1>5, <2>1 DEF m
<1>9. HandedBy(cl, new) = Append(HandedBy(cl, dl), m)
  <2>1. PICK f \in Seq(AllMessages), g \in Seq(AllMessages) :
          f = HandedBy(cl, dl) /\ g = HandedBy(cl, new)
    BY <1>6, <1>7
  <2>2. Len(f) = k /\ Len(g) = k + 1 /\ k \in Nat
    BY <1>1, <1>6, <1>7, <2>1
  <2>3. Append(f, m) \in Seq(AllMessages) /\ Len(Append(f, m)) = k + 1
    BY <1>8, <2>2, AppendProperties
  <2>4. \A i \in 1 .. k : g[i] = Append(f, m)[i]
    <3> TAKE i \in 1 .. k
    <3>1. i \in 1 .. k + 1 /\ f[i] = SentBy(cl)[i]
      BY <1>1, <1>4, <2>1
    <3>2. g[i] = SentBy(cl)[i]
      BY <1>3, <2>1, <3>1
    <3>3. Append(f, m)[i] = f[i]
      BY <1>8, <2>2, AppendProperties
    <3> QED BY <3>1, <3>2, <3>3
  <2>5. g[k + 1] = Append(f, m)[k + 1]
    <3>1. k + 1 \in 1 .. k + 1
      BY <2>2
    <3>2. g[k + 1] = m
      BY <1>3, <2>1, <3>1 DEF m
    <3>3. Append(f, m)[k + 1] = m
      BY <1>8, <2>2, AppendProperties
    <3> QED BY <3>2, <3>3
  <2>6. \A i \in 1 .. k + 1 : g[i] = Append(f, m)[i]
    BY <2>2, <2>4, <2>5
  <2>7. g = Append(f, m)
    BY <2>2, <2>3, <2>6, SeqEqual
  <2> QED BY <2>1, <2>7
<1> QED BY <1>1, <1>2, <1>7, <1>8, <1>9 DEF new, m, k
-----------------------------------------------------------------------------
(* Each step is a step of MessageChannel, or none that the channel shows.   *)

SentMap  == [e \in Ends |-> SentBy(calls[e])]
GivenMap == [e \in Ends |-> HandedBy(calls[Peer(e)], delivered[e])]
Broken   == ~link \/ \E e \in Ends : ~open[e]

LEMMA SendSeen ==
  ASSUME NEW e \in Ends, NEW m \in AllMessages,
         SentMap' = [SentMap EXCEPT ![e] = Append(@, m)],
         UNCHANGED <<GivenMap, Broken>>
  PROVE  MC!Send(e)
BY DEF MC!Send, SentMap, GivenMap, Broken, SentAt, SentBy, Handed, HandedBy, HandedOf,
       AllMessages

LEMMA DeliverSeen ==
  ASSUME NEW e \in Ends, Len(GivenMap[e]) < Len(SentMap[Peer(e)]),
         GivenMap' = [GivenMap EXCEPT ![e] = Append(@, SentMap[Peer(e)][Len(@) + 1])],
         UNCHANGED <<SentMap, Broken>>
  PROVE  MC!Deliver(e)
BY DEF MC!Deliver, SentMap, GivenMap, Broken, SentAt, SentBy, Handed, HandedBy, HandedOf

LEMMA BreakSeen ==
  ASSUME Broken', UNCHANGED <<SentMap, GivenMap>>
  PROVE  MC!Break
BY DEF MC!Break, SentMap, GivenMap, Broken, SentAt, SentBy, Handed, HandedBy, HandedOf

LEMMA NothingSeen ==
  ASSUME UNCHANGED <<SentMap, GivenMap, Broken>>
  PROVE  UNCHANGED MC!vars
BY DEF MC!vars, SentMap, GivenMap, Broken, SentAt, SentBy, Handed, HandedBy, HandedOf

\* What an accepted call adds, and what it leaves as it was.
LEMMA SendImplements ==
  ASSUME IInv, ChannelInv, NEW d \in Ends, SendMessage(d)
  PROVE  UNCHANGED MC!vars \/ MC!Send(d)
<1>1. /\ TypeOK /\ Peer(d) \in Ends /\ Peer(d) # d /\ Peer(Peer(d)) = d
      /\ \A e \in Ends : e = d \/ e = Peer(d)
  BY EndFacts DEF IInv
<1>2. PICK r \in [size : Sizes, magic : Magics, ok : BOOLEAN] :
        /\ calls' = Set(calls, d, Append(calls[d], r))
        /\ calls'[d] = Append(calls[d], r)
  BY <1>1, SendMessageFacts
<1>3. /\ UNCHANGED <<delivered, open, link>> /\ Len(calls[d]) + 1 \in 1 .. MaxSends
  BY <1>1, SendMessageFacts DEF recvVars, sockVars, netVars
<1>4. /\ calls[d] \in Calls /\ calls'[Peer(d)] = calls[Peer(d)]
      /\ Numbered(calls[d]) /\ InOrder(calls[d], delivered[Peer(d)])
      /\ delivered[Peer(d)] \in Seq([hdr : Bytes, body : Seq(Bytes)])
  BY <1>1, <1>2, LenCalls DEF ChannelInv, StreamInv, Set, TypeOK
<1>5. PICK cl \in Calls : cl = calls[d]
  BY <1>4
<1>6. PICK more : more = Append(cl, r)
  OBVIOUS
<1>7. Grown(cl, more) /\ Len(more) = Len(cl) + 1
  BY <1>6, GrownAppend
<1>8. /\ r.ok => \E m \in AllMessages : SentBy(more) = Append(SentBy(cl), m)
      /\ ~r.ok => SentBy(more) = SentBy(cl)
  <2>1. Len(more) <= MaxSends
    BY <1>3, <1>5, <1>7, Bounds
  <2>2. Numbered(cl)
    BY <1>4, <1>5
  <2> QED BY <1>6, <2>1, <2>2, SentGrown
<1>9. HandedBy(more, delivered[Peer(d)]) = HandedBy(cl, delivered[Peer(d)])
  BY <1>4, <1>5, <1>7, HandedGrown
<1>10. UNCHANGED GivenMap
  <2>1. HandedBy(calls'[Peer(Peer(d))], delivered'[Peer(d)])
          = HandedBy(calls[Peer(Peer(d))], delivered[Peer(d)])
    BY <1>1, <1>2, <1>3, <1>5, <1>6, <1>9
  <2>2. HandedBy(calls'[Peer(d)], delivered'[d]) = HandedBy(calls[Peer(d)], delivered[d])
    BY <1>3, <1>4
  <2> QED BY <1>1, <2>1, <2>2 DEF GivenMap
<1>11. UNCHANGED Broken
  BY <1>3 DEF Broken
<1>12. calls'[d] = more /\ calls[d] = cl
  BY <1>2, <1>5, <1>6
<1>13. CASE r.ok
  <2>1. PICK m \in AllMessages : SentBy(more) = Append(SentBy(cl), m)
    BY <1>8, <1>13
  <2>2. SentMap' = [SentMap EXCEPT ![d] = Append(@, m)]
    BY <1>1, <1>4, <1>12, <2>1 DEF SentMap
  <2> QED BY <1>10, <1>11, <2>2, SendSeen
<1>14. CASE ~r.ok
  <2>1. UNCHANGED SentMap
    BY <1>1, <1>4, <1>8, <1>12, <1>14 DEF SentMap
  <2> QED BY <1>10, <1>11, <2>1, NothingSeen
<1> QED BY <1>13, <1>14

LEMMA Appended ==
  ASSUME NEW S, NEW s \in Seq(S), NEW c, Append(s, c) \in Seq(S)
  PROVE  c \in S
<1> DEFINE T == S \cup {c}
<1>1. S \subseteq T /\ c \in T
  OBVIOUS
<1> HIDE DEF T
<1>2. s \in Seq(T)
  BY <1>1, SeqMonotonic
<1>3. Len(Append(s, c)) = Len(s) + 1 /\ Append(s, c)[Len(s) + 1] = c /\ Len(s) \in Nat
  BY <1>1, <1>2, AppendProperties, LenProperties
<1>4. PICK t \in Seq(S) : t = Append(s, c)
  OBVIOUS
<1>5. Len(s) + 1 \in 1 .. Len(t)
  BY <1>3, <1>4
<1>6. t[Len(s) + 1] \in S
  BY <1>5, ElementOfSeq
<1> QED BY <1>3, <1>4, <1>6

\* A message is handed up in its turn, or nothing is.
LEMMA RecvImplements ==
  ASSUME IInv, ChannelInv, NEW d \in Ends, OnRecvStrand(d)
  PROVE  UNCHANGED MC!vars \/ MC!Deliver(d)
<1> DEFINE R == [hdr : Bytes, body : Seq(Bytes)]
<1>1. /\ TypeOK /\ Peer(d) \in Ends /\ Peer(d) # d /\ Peer(Peer(d)) = d
      /\ \A e \in Ends : e = d \/ e = Peer(d)
      /\ Len(calls[Peer(d)]) <= MaxSends
  BY EndFacts DEF IInv, EndInv, KnownBytes
<1>2. UNCHANGED <<calls, open, link>>
  BY DEF OnRecvStrand, sockVars, netVars
<1>3. TypeOK' /\ ChannelInv'
  <2>1. EndStep(d)
    BY DEF EndStep, StrandStep
  <2>2. IInv' /\ ChannelInv'
    BY <2>1, EndStepInv, ChannelStep
  <2> QED BY <2>2 DEF IInv
<1>4. delivered' = delivered \/ \E c : delivered' = Set(delivered, d, Append(delivered[d], c))
  BY DEF OnRecvStrand, recvVars, BadHeader, EmptyBody, StartBody, LastPiece, NextPiece, WholeBody,
         FinishCommand
<1>5. UNCHANGED SentMap /\ UNCHANGED Broken
  BY <1>2 DEF SentMap, Broken
<1>6. CASE delivered' = delivered
  <2>1. UNCHANGED GivenMap
    BY <1>2, <1>6 DEF GivenMap
  <2> QED BY <1>5, <2>1, NothingSeen
<1>7. ASSUME NEW c, delivered' = Set(delivered, d, Append(delivered[d], c))
      PROVE  MC!Deliver(d)
  <2>1. PICK cl \in Calls, dl \in Seq(R) : cl = calls[Peer(d)] /\ dl = delivered[d]
    BY <1>1, LenCalls DEF TypeOK
  <2>2. delivered'[d] = Append(dl, c) /\ delivered'[Peer(d)] = delivered[Peer(d)]
    BY <1>1, <1>7, <2>1 DEF Set, TypeOK
  <2>3. c \in R
    <3>1. Append(dl, c) \in Seq(R)
      BY <1>3, <2>2 DEF TypeOK
    <3> HIDE DEF R
    <3> QED BY <3>1, Appended
  <2>4. Numbered(cl) /\ InOrder(cl, dl) /\ InOrder(cl, Append(dl, c))
    <3>1. StreamInv(Peer(d)) /\ StreamInv(Peer(d))'
      BY <1>1, <1>3 DEF ChannelInv
    <3>2. Numbered(cl) /\ InOrder(cl, dl)
      BY <1>1, <2>1, <3>1 DEF StreamInv
    <3>3. InOrder(calls'[Peer(d)], delivered'[Peer(Peer(d))])
      BY <3>1 DEF StreamInv
    <3> QED BY <1>1, <1>2, <2>1, <2>2, <3>2, <3>3
  <2>5. /\ Len(HandedBy(cl, dl)) < Len(SentBy(cl))
        /\ HandedBy(cl, Append(dl, c))
             = Append(HandedBy(cl, dl), SentBy(cl)[Len(HandedBy(cl, dl)) + 1])
    BY <1>1, <2>1, <2>3, <2>4, HandedMore
  <2>6. GivenMap[d] = HandedBy(cl, dl) /\ SentMap[Peer(d)] = SentBy(cl)
    BY <1>1, <2>1 DEF GivenMap, SentMap
  <2>7. GivenMap' = [GivenMap EXCEPT ![d] = HandedBy(cl, Append(dl, c))]
    BY <1>1, <1>2, <2>1, <2>2 DEF GivenMap
  <2>8. GivenMap' = [GivenMap EXCEPT ![d] = Append(@, SentMap[Peer(d)][Len(@) + 1])]
    BY <2>5, <2>6, <2>7
  <2> QED BY <1>5, <2>5, <2>6, <2>8, DeliverSeen
<1> QED BY <1>4, <1>6, <1>7

\* Closing breaks the channel; it stays broken.
LEMMA CloseImplements ==
  ASSUME NEW d \in Ends, TypeOK, ClearStrand(d) \/ OnErrorStrand(d)
  PROVE  MC!Break
<1>1. UNCHANGED <<calls, delivered>> /\ open' = Set(open, d, FALSE)
  BY DEF ClearStrand, OnErrorStrand, DoClear
<1>2. ~open'[d]
  BY <1>1 DEF Set, TypeOK
<1>3. Broken' /\ UNCHANGED SentMap /\ UNCHANGED GivenMap
  BY <1>1, <1>2 DEF Broken, SentMap, GivenMap
<1> QED BY <1>3, BreakSeen

LEMMA LoseImplements ==
  ASSUME Lose
  PROVE  MC!Break
<1>1. UNCHANGED <<calls, delivered>> /\ ~link'
  BY DEF Lose, recvVars
<1>2. Broken' /\ UNCHANGED SentMap /\ UNCHANGED GivenMap
  BY <1>1 DEF Broken, SentMap, GivenMap
<1> QED BY <1>2, BreakSeen

\* The other steps do nothing that the channel speaks of.
LEMMA RestImplements ==
  ASSUME UNCHANGED <<calls, delivered, open, link>>
  PROVE  UNCHANGED MC!vars
<1>1. UNCHANGED SentMap /\ UNCHANGED GivenMap /\ UNCHANGED Broken
  BY DEF SentMap, GivenMap, Broken
<1> QED BY <1>1, NothingSeen

LEMMA ChannelStepImplements ==
  ASSUME IInv, ChannelInv, [Next]_vars
  PROVE  [MC!Next]_(MC!vars)
<1>1. ASSUME NEW d \in Ends, EndStep(d)
      PROVE  UNCHANGED MC!vars \/ MC!Break \/ MC!Send(d) \/ MC!Deliver(d)
  <2>1. CASE SendMessage(d)
    BY <2>1, SendImplements
  <2>2. CASE OnRecvStrand(d)
    BY <2>2, RecvImplements
  <2>3. CASE ClearStrand(d) \/ OnErrorStrand(d)
    BY <2>3, CloseImplements DEF IInv
  <2>4. CASE Clear(d) \/ BindSocketStrand(d) \/ SendMessageStrand(d) \/ OnSendStrand(d)
    <3>1. UNCHANGED <<calls, delivered, open, link>>
      BY <2>4 DEF Clear, BindSocketStrand, SendMessageStrand, OnSendStrand, recvVars, sockVars,
                  netVars
    <3> QED BY <3>1, RestImplements
  <2>5. ASSUME NEW o \in ops[d], IoStep(d, o)
        PROVE  UNCHANGED MC!vars
    <3>1. UNCHANGED <<calls, delivered, open, link>>
      BY <2>5 DEF IoStep, IoWrite, IoRead, IoFail, HandlerCopy, HandlerCall, recvVars, sockVars,
                  netVars
    <3> QED BY <3>1, RestImplements
  <2> QED BY <1>1, <2>1, <2>2, <2>3, <2>4, <2>5 DEF EndStep, StrandStep
<1>2. ASSUME Lose PROVE MC!Break
  BY <1>2, LoseImplements
<1>3. ASSUME UNCHANGED vars PROVE UNCHANGED MC!vars
  BY <1>3, RestImplements DEF vars, recvVars, sockVars, netVars
<1> QED BY <1>1, <1>2, <1>3, NextSteps DEF MC!Next

LEMMA ChannelStarts == Init => MC!Init
<1> SUFFICES ASSUME Init PROVE MC!Init
  OBVIOUS
<1>1. /\ \A e \in Ends : Peer(e) \in Ends
      /\ calls = [e \in Ends |-> <<>>] /\ delivered = [e \in Ends |-> <<>>]
      /\ link = TRUE /\ open = [e \in Ends |-> TRUE]
  BY EndFacts DEF Init
<1>2. Cardinality(Accepted(<<>>)) = 0
  <2>1. Accepted(<<>>) = {}
    BY DEF Accepted
  <2> QED BY <2>1, FS_EmptySet
<1>3. SentBy(<<>>) = <<>>
  BY <1>2 DEF SentBy
<1>4. HandedBy(<<>>, <<>>) = <<>>
  BY DEF HandedBy
<1>5. SentMap = [e \in Ends |-> <<>>] /\ GivenMap = [e \in Ends |-> <<>>] /\ ~Broken
  BY <1>1, <1>3, <1>4 DEF SentMap, GivenMap, Broken
<1> QED
  BY <1>5 DEF MC!Init, SentMap, GivenMap, Broken, SentAt, SentBy, Handed, HandedBy, HandedOf

\* Two netports are a channel: what is sent at one end is handed up at the other
\* whole, once and in order, whatever the connection cuts it into, for any number
\* and size of messages (netport.h:3-12, netport.cpp:120-317).
THEOREM ImplementsChannel == Spec => FifoChannel
<1>1. IInv /\ ChannelInv /\ [Next]_vars => [MC!Next]_(MC!vars)
  BY ChannelStepImplements
<1> QED
  BY <1>1, ChannelStarts, Invariance, StreamInvariance, PTL DEF Spec, MC!Spec, FifoChannel
-----------------------------------------------------------------------------
(* Where two netports come to a standstill.                                *)

\* The callbacks of the socket are set, or bind_socket is still to set them.
Bound(e) ==
  \/ queue[e] # <<>> /\ Head(queue[e]).fn = "bind" /\ cur_send[e] = 0 /\ ops[e] = {}
  \/ sock_cb[e] = {"recv", "send", "err"}

NoneFailed(e) == \A o \in ops[e] : o.pc \notin {"err", "report"}

\* cur_send_ is being written, or i_on_send_strand is about to take it.
OnItsWay(e) == cur_send[e] # 0 => WriteOps(ops[e]) # {} \/ ~Without(queue[e], {"sent"})

Lively(e) == Flowing => Bound(e) /\ NoneFailed(e) /\ OnItsWay(e)

\* An open socket has err_cb_, or will have it, or the error that took it is on
\* its way to the netport.
Told(e) ==
  open[e] => \/ ~Without(queue[e], {"bind", "error"})
             \/ "err" \in sock_cb[e]
             \/ \E o \in ops[e] : o.pc = "report"

\* i_do_clear frees what waits, and nothing comes after that.
Emptied(e) == ~open[e] => cur_send[e] = 0 /\ cmd_info_list[e] = <<>>

\* An operation for which io and handlers can do nothing: the connection is
\* whole, and what is read has nothing to read, what is written no room.
Stuck(e, o) ==
  /\ o.pc = "io" /\ Flowing
  /\ o.kind = "write" => Len(wire[e]) >= WireMax
  /\ o.kind # "write" => wire[Peer(e)] = <<>>

\* No function object is left to run, no handler to call and no byte to move.
Standstill == \A e \in Ends : queue[e] = <<>> /\ \A o \in ops[e] : Stuck(e, o)

\* What was sent at e has been handed up at the other end.
Arrived(e) ==
  [k \in DOMAIN delivered[Peer(e)] |-> Handed(Peer(e), delivered[Peer(e)][k])] = SentAt(e)

Freed(e) == \A n \in Accepted(calls[e]) : n \notin heap[e]

StandstillMeansDone ==
  Standstill => \A e \in Ends : Freed(e) /\ IF Flowing THEN Arrived(e) ELSE ~open[e]

LEMMA LivelyEnd ==
  ASSUME TypeOK, NEW e \in Ends, Lively(e), ~MayRefuse, EndStep(e), Flowing'
  PROVE  Lively(e)'
<1>0. queue \in [Ends -> Seq(Fos)] /\ queue[e] \in Seq(Fos) /\ ops[e] \subseteq Operations
      /\ ops \in [Ends -> SUBSET Operations]
  BY DEF TypeOK
<1>1. /\ Flowing /\ ~ClearStrand(e) /\ ~OnErrorStrand(e)
      /\ link /\ open[e] /\ open[Peer(e)]
  BY FlowingBefore, EndFacts DEF Flowing
<1>2. Bound(e) /\ NoneFailed(e) /\ OnItsWay(e)
  BY <1>1 DEF Lively
<1> SUFFICES Bound(e)' /\ NoneFailed(e)' /\ OnItsWay(e)'
  BY DEF Lively
\* Once an operation has been started, or a function object that is not bind
\* runs, the callbacks are set.
<1>3. ops[e] # {} \/ (queue[e] # <<>> /\ Head(queue[e]).fn # "bind")
        => sock_cb[e] = {"recv", "send", "err"}
  BY <1>2 DEF Bound
\* A call from above: one more function object waits.
<1>4. ASSUME NEW fo \in Fos,
             queue' = queue \/ queue' = Set(queue, e, Append(queue[e], fo)),
             UNCHANGED <<sock_cb, ops, cur_send>>
      PROVE  Bound(e)' /\ NoneFailed(e)' /\ OnItsWay(e)'
  <2>1. Elems(queue[e]) \subseteq Elems(queue'[e])
    BY <1>4, QueuePost
  <2>2. queue[e] # <<>> => queue'[e] # <<>> /\ Head(queue'[e]) = Head(queue[e])
    BY <1>4, QueuePost
  <2> QED BY <1>2, <1>4, <2>1, <2>2 DEF Bound, NoneFailed, OnItsWay, Without
<1>5. CASE SendMessage(e)
  <2>1. Fo("send", Len(calls[e]) + 1) \in Fos
    BY LenCalls, FoType
  <2>2. /\ UNCHANGED <<sock_cb, ops, cur_send>>
        /\ \/ queue' = queue
           \/ queue' = Set(queue, e, Append(queue[e], Fo("send", Len(calls[e]) + 1)))
    BY <1>5 DEF SendMessage, sockVars
  <2> QED BY <1>4, <2>1, <2>2
<1>6. CASE Clear(e)
  <2>1. Fo("clear", 0) \in Fos
    BY FoType
  <2>2. /\ UNCHANGED <<sock_cb, ops, cur_send>>
        /\ queue' = queue \/ queue' = Set(queue, e, Append(queue[e], Fo("clear", 0)))
    BY <1>6 DEF Clear, sockVars, sendVars
  <2> QED BY <1>4, <2>1, <2>2
<1>7. CASE BindSocketStrand(e)
  <2> DEFINE o == Op("hdr", 0, 0, 1)
  <2>1. o.pc = "io"
    BY DEF Op
  <2>2. /\ Start(e, o) /\ sock_cb' = Set(sock_cb, e, {"recv", "send", "err"})
        /\ Runs(e, "bind") /\ Pop(e) /\ cur_send' = cur_send
    BY <1>7 DEF BindSocketStrand, ReadHeader, sendVars
  <2> HIDE DEF o
  <2>3. ops'[e] = ops[e] \cup {o} /\ sock_cb'[e] = {"recv", "send", "err"}
    BY <1>0, <2>2 DEF Start, Set, TypeOK
  <2>4. Elems(queue[e]) = {Head(queue[e])} \cup Elems(queue'[e]) /\ Head(queue[e]).fn = "bind"
    <3>1. queue[e] # <<>> /\ Head(queue[e]).fn = "bind" /\ Pop(e)
      BY <2>2 DEF Runs
    <3>2. Elems(queue[e]) = {Head(queue[e])} \cup Elems(Tail(queue[e]))
      BY <1>0, <3>1, ElemsSplit
    <3> QED BY <3>1, <3>2, QueuePop
  <2> QED BY <1>2, <2>1, <2>2, <2>3, <2>4
          DEF Bound, NoneFailed, OnItsWay, Without, WriteOps
<1>8. CASE SendMessageStrand(e) \/ OnSendStrand(e)
  <2>1. /\ sock_cb'[e] = {"recv", "send", "err"} /\ queue[e] # <<>> /\ Pop(e)
        /\ Runs(e, "send") \/ Runs(e, "sent")
    BY <1>3, <1>8 DEF SendMessageStrand, OnSendStrand, Runs, sockVars
  <2>2. ASSUME NEW n, Start(e, Write(e, n)) PROVE NoneFailed(e)' /\ OnItsWay(e)'
    <3>1. Write(e, n).pc = "io" /\ Write(e, n).kind = "write"
      BY DEF Write, Op
    <3>2. ops'[e] = ops[e] \cup {Write(e, n)}
      BY <1>0, <2>2 DEF Start, Set
    <3> QED BY <1>2, <3>1, <3>2 DEF NoneFailed, OnItsWay, WriteOps
  <2>3. CASE StartSend(e) \/ NextSent(e)
    BY <2>1, <2>2, <2>3 DEF StartSend, NextSent, Bound
  <2>4. CASE QueueSend(e) /\ Runs(e, "send")
    <3>1. UNCHANGED <<cur_send, ops>>
      BY <2>4 DEF QueueSend
    <3>2. Elems(queue[e]) = {Head(queue[e])} \cup Elems(queue'[e])
      BY <1>0, <2>1, QueuePop, ElemsSplit
    <3>3. Head(queue[e]).fn = "send"
      BY <2>4 DEF Runs
    <3> QED BY <1>2, <2>1, <3>1, <3>2, <3>3 DEF Bound, NoneFailed, OnItsWay, Without
  <2>5. CASE LastSent(e)
    <3>1. ops' = ops /\ cur_send'[e] = 0
      BY <2>5 DEF LastSent, Set, TypeOK
    <3> QED BY <1>2, <2>1, <3>1 DEF Bound, NoneFailed, OnItsWay
  <2> QED BY <1>1, <1>8, <2>3, <2>4, <2>5 DEF SendMessageStrand, OnSendStrand, DropSend
<1>9. CASE OnRecvStrand(e)
  <2>1. /\ sock_cb'[e] = {"recv", "send", "err"} /\ Runs(e, "recv") /\ cur_send' = cur_send
    BY <1>3, <1>9 DEF OnRecvStrand, Runs, sockVars, sendVars
  <2>2. Elems(queue[e]) = {Head(queue[e])} \cup Elems(Tail(queue[e])) /\ Head(queue[e]).fn = "recv"
        /\ Tail(queue[e]) \in Seq(Fos)
    BY <1>0, <2>1, ElemsSplit, ElemsTail DEF Runs
  <2>3. Elems(Tail(queue[e])) \subseteq Elems(queue'[e])
    <3>1. CASE Pop(e)
      BY <1>0, <3>1 DEF Pop, Set
    <3>2. CASE BadHeader(e) /\ ~Pop(e)
      <4>1. queue'[e] = Append(Tail(queue[e]), Fo("error", 0))
        BY <1>0, <3>2 DEF BadHeader, Set
      <4>2. PICK fo \in Fos : fo = Fo("error", 0)
        BY FoType
      <4>3. PICK rest \in Seq(Fos) : rest = Tail(queue[e])
        BY <2>2
      <4>4. Elems(Append(rest, fo)) = Elems(rest) \cup {fo}
        BY ElemsAppend
      <4> QED BY <4>1, <4>2, <4>3, <4>4
    <3> QED BY <1>9, <3>1, <3>2
            DEF OnRecvStrand, WholeBody, EmptyBody, StartBody, LastPiece, NextPiece
  <2>4. ops' = ops \/ \E o : o.pc = "io" /\ Start(e, o)
    BY <1>9 DEF OnRecvStrand, WholeBody, BadHeader, EmptyBody, StartBody, LastPiece, NextPiece,
                FinishCommand, ReadHeader, Op
  <2>5. ops[e] \subseteq ops'[e] /\ \A o \in ops'[e] \ ops[e] : o.pc = "io"
    BY <1>0, <2>4 DEF Start, Set
  <2> QED BY <1>2, <2>1, <2>2, <2>3, <2>5 DEF Bound, NoneFailed, OnItsWay, Without, WriteOps
\* An operation goes on.
<1>10. ASSUME NEW o \in ops[e], NEW new, Replace(e, o, new), new.kind = o.kind,
              new.pc \notin {"err", "report"}, UNCHANGED <<queue, sock_cb, cur_send>>
       PROVE  Bound(e)' /\ NoneFailed(e)' /\ OnItsWay(e)'
  <2>1. ops'[e] = (ops[e] \ {o}) \cup {new}
    BY <1>0, <1>10 DEF Replace, Set
  <2> QED BY <1>2, <1>3, <1>10, <2>1 DEF Bound, NoneFailed, OnItsWay, WriteOps
<1>11. ASSUME NEW o \in ops[e], IoWrite(e, o) \/ IoRead(e, o)
       PROVE  Bound(e)' /\ NoneFailed(e)' /\ OnItsWay(e)'
  <2>1. Replace(e, o, Advanced(o)) /\ UNCHANGED <<queue, sock_cb, cur_send>>
    BY <1>11 DEF IoWrite, IoRead, sockVars, sendVars
  <2>2. Advanced(o).kind = o.kind /\ Advanced(o).pc \notin {"err", "report"}
    BY <1>0 DEF Operations, Advanced
  <2> QED BY <1>10, <2>1, <2>2
<1>12. ASSUME NEW o \in ops[e], HandlerCopy(e, o)
       PROVE  Bound(e)' /\ NoneFailed(e)' /\ OnItsWay(e)'
  <2>1. o.pc = "ok" /\ UNCHANGED <<queue, sock_cb, cur_send>>
    BY <1>2, <1>12 DEF HandlerCopy, NoneFailed, sendVars
  <2>2. CallbackOf(o) \in sock_cb[e]
    BY <1>3 DEF CallbackOf
  <2>3. Replace(e, o, [o EXCEPT !.pc = "call"])
    BY <1>12, <2>1, <2>2 DEF HandlerCopy
  <2>4. [o EXCEPT !.pc = "call"].kind = o.kind /\ [o EXCEPT !.pc = "call"].pc = "call"
    BY <1>0 DEF Operations
  <2> QED BY <1>10, <2>1, <2>3, <2>4
<1>13. ASSUME NEW o \in ops[e], HandlerCall(e, o)
       PROVE  Bound(e)' /\ NoneFailed(e)' /\ OnItsWay(e)'
  <2> DEFINE fo == IF o.kind = "write" THEN Fo("sent", o.len) ELSE Fo("recv", o.len)
  <2>1. o.pc = "call" /\ UNCHANGED <<sock_cb, cur_send>>
    BY <1>2, <1>13 DEF HandlerCall, NoneFailed, sockVars, sendVars
  <2>2. queue' = Set(queue, e, Append(queue[e], fo))
    BY <1>13, <2>1 DEF HandlerCall
  <2>3. fo \in Fos /\ (o.kind = "write" => fo.fn = "sent")
    <3>1. o.len \in Nat
      BY <1>0 DEF Operations
    <3> QED BY <3>1 DEF Fo, Fos
  <2> HIDE DEF fo
  <2>4. Elems(queue'[e]) = Elems(queue[e]) \cup {fo}
    BY <2>2, <2>3, QueuePost
  <2>5. ops'[e] = ops[e] \ {o}
    BY <1>0, <1>13 DEF HandlerCall, Remove, Set
  <2> QED BY <1>2, <1>3, <2>1, <2>3, <2>4, <2>5
          DEF Bound, NoneFailed, OnItsWay, Without, WriteOps
<1>14. ASSUME NEW o \in ops[e] PROVE ~IoFail(e, o)
  BY <1>1 DEF IoFail
<1> QED BY <1>1, <1>5, <1>6, <1>7, <1>8, <1>9, <1>11, <1>12, <1>13, <1>14
        DEF EndStep, StrandStep, IoStep

LEMMA ToldEnd ==
  ASSUME TypeOK, NEW e \in Ends, Told(e), ~MayRefuse, EndStep(e)
  PROVE  Told(e)'
<1>0. /\ queue \in [Ends -> Seq(Fos)] /\ queue[e] \in Seq(Fos) /\ ops[e] \subseteq Operations
      /\ ops \in [Ends -> SUBSET Operations]
  BY DEF TypeOK
\* Nothing is taken away.
<1>1. ASSUME open'[e] => open[e], sock_cb'[e] = sock_cb[e],
             Without(queue'[e], {"bind", "error"}) => Without(queue[e], {"bind", "error"}),
             \A o \in ops[e] : o.pc = "report" => o \in ops'[e]
      PROVE  Told(e)'
  BY <1>1 DEF Told
<1>2. CASE SendMessage(e) \/ Clear(e)
  <2>1. PICK fo \in Fos : queue' = queue \/ queue' = Set(queue, e, Append(queue[e], fo))
    <3>1. Fo("send", Len(calls[e]) + 1) \in Fos /\ Fo("clear", 0) \in Fos
      BY LenCalls, FoType
    <3> QED BY <1>2, <3>1 DEF SendMessage, Clear
  <2>2. Elems(queue[e]) \subseteq Elems(queue'[e])
    BY <2>1, QueuePost
  <2>3. UNCHANGED <<open, sock_cb, ops>>
    BY <1>2 DEF SendMessage, Clear, sockVars
  <2> QED BY <1>1, <2>2, <2>3 DEF Without
<1>3. CASE BindSocketStrand(e)
  <2>1. sock_cb'[e] = {"recv", "send", "err"}
    BY <1>3 DEF BindSocketStrand, Set, TypeOK
  <2> QED BY <2>1 DEF Told
<1>4. CASE SendMessageStrand(e) \/ OnSendStrand(e) \/ OnRecvStrand(e)
  <2>1. /\ queue[e] # <<>> /\ Head(queue[e]).fn \in {"send", "sent", "recv"}
        /\ UNCHANGED <<open, sock_cb>>
    BY <1>4 DEF SendMessageStrand, OnSendStrand, OnRecvStrand, Runs, sockVars
  <2>2. Elems(queue[e]) = {Head(queue[e])} \cup Elems(Tail(queue[e])) /\ Tail(queue[e]) \in Seq(Fos)
    BY <1>0, <2>1, ElemsSplit, ElemsTail
  <2>3. queue'[e] = Tail(queue[e]) \/ queue'[e] = Append(Tail(queue[e]), Fo("error", 0))
    BY <1>0, <1>4
       DEF SendMessageStrand, OnSendStrand, OnRecvStrand, WholeBody, BadHeader, EmptyBody,
           StartBody, LastPiece, NextPiece, Pop, Set
  <2>4. Elems(Tail(queue[e])) \subseteq Elems(queue'[e])
    <3>1. PICK fo \in Fos : fo = Fo("error", 0)
      BY FoType
    <3>2. PICK rest \in Seq(Fos) : rest = Tail(queue[e])
      BY <2>2
    <3>3. Elems(Append(rest, fo)) = Elems(rest) \cup {fo}
      BY ElemsAppend
    <3> QED BY <2>3, <3>1, <3>2, <3>3
  <2>5. ops[e] \subseteq ops'[e]
    BY <1>0, <1>4
       DEF SendMessageStrand, DropSend, QueueSend, StartSend, OnSendStrand, LastSent, NextSent,
           OnRecvStrand, WholeBody, BadHeader, EmptyBody, StartBody, LastPiece, NextPiece,
           FinishCommand, ReadHeader, Start, Set
  <2> QED BY <1>1, <2>1, <2>2, <2>4, <2>5 DEF Without
<1>5. CASE ClearStrand(e) \/ OnErrorStrand(e)
  <2>1. open'[e] = FALSE
    BY <1>5 DEF ClearStrand, OnErrorStrand, DoClear, TypeOK, Set
  <2> QED BY <2>1 DEF Told
\* An operation that reports nothing goes on or ends.
<1>6. ASSUME NEW o \in ops[e], o.pc # "report", UNCHANGED <<queue, open, sock_cb>>,
             Remove(e, o) \/ \E new : Replace(e, o, new)
      PROVE  Told(e)'
  <2>1. ops[e] \ {o} \subseteq ops'[e]
    BY <1>0, <1>6 DEF Remove, Replace, Set
  <2> QED BY <1>1, <1>6, <2>1
<1>7. ASSUME NEW o \in ops[e], IoWrite(e, o) \/ IoRead(e, o) \/ IoFail(e, o) PROVE Told(e)'
  BY <1>6, <1>7 DEF IoWrite, IoRead, IoFail, sockVars
<1>8. ASSUME NEW o \in ops[e], HandlerCopy(e, o) PROVE Told(e)'
  <2>1. CASE o.pc = "ok" /\ UNCHANGED sock_cb
    <3>1. Remove(e, o) \/ Replace(e, o, [o EXCEPT !.pc = "call"])
      BY <1>8, <2>1 DEF HandlerCopy
    <3> QED BY <1>6, <1>8, <2>1, <3>1 DEF HandlerCopy
  <2>2. CASE o.pc = "err" /\ ~Reported(e)
    <3>1. UNCHANGED <<queue, open>> /\ Remove(e, o)
      BY <1>8, <2>2 DEF HandlerCopy
    <3>2. "err" \notin sock_cb[e] /\ ops'[e] = ops[e] \ {o}
      BY <1>0, <2>2, <3>1 DEF Reported, Remove, Set
    <3> QED BY <2>2, <3>1, <3>2 DEF Told
  <2>3. CASE o.pc = "err" /\ Reported(e)
    <3>1. PICK new : new = [o EXCEPT !.pc = "report"] /\ Replace(e, o, new)
      BY <1>8, <2>3 DEF HandlerCopy
    <3>2. new.pc = "report" /\ new \in ops'[e]
      BY <1>0, <3>1 DEF Operations, Replace, Set
    <3> QED BY <3>2 DEF Told
  <2> QED BY <1>8, <2>1, <2>2, <2>3 DEF HandlerCopy
<1>9. ASSUME NEW o \in ops[e], HandlerCall(e, o) PROVE Told(e)'
  <2>1. o.len \in Nat /\ UNCHANGED <<open, sock_cb>> /\ ops'[e] = ops[e] \ {o}
    BY <1>0, <1>9 DEF HandlerCall, sockVars, Remove, Set, Operations
  <2>2. PICK fo \in Fos : /\ queue' = Set(queue, e, Append(queue[e], fo))
                          /\ o.pc = "report" => fo.fn = "error"
    <3>1. /\ Fo("error", 0) \in Fos /\ Fo("error", 0).fn = "error"
          /\ Fo("sent", o.len) \in Fos /\ Fo("recv", o.len) \in Fos
      BY <2>1 DEF Fo, Fos
    <3> QED BY <1>9, <3>1 DEF HandlerCall
  <2>3. Elems(queue'[e]) = Elems(queue[e]) \cup {fo}
    BY <2>2, QueuePost
  <2> QED BY <1>1, <2>1, <2>2, <2>3 DEF Without, Told
<1> QED BY <1>2, <1>3, <1>4, <1>5, <1>7, <1>8, <1>9 DEF EndStep, StrandStep, IoStep

LEMMA EmptiedEnd ==
  ASSUME TypeOK, NEW e \in Ends, Emptied(e), EndStep(e)
  PROVE  Emptied(e)'
<1>1. CASE UNCHANGED <<open, cur_send, cmd_info_list>>
  BY <1>1 DEF Emptied
<1>2. CASE ClearStrand(e) \/ OnErrorStrand(e)
  BY <1>2 DEF ClearStrand, OnErrorStrand, DoClear, TypeOK, Set, Emptied
<1>3. CASE (SendMessageStrand(e) \/ OnSendStrand(e)) /\ open[e]
  <2>1. open'[e]
    BY <1>3 DEF SendMessageStrand, OnSendStrand, sockVars
  <2> QED BY <2>1 DEF Emptied
<1>4. CASE SendMessageStrand(e) /\ ~open[e]
  BY <1>4 DEF SendMessageStrand, DropSend, QueueSend, StartSend, sockVars, Emptied
<1>5. CASE OnSendStrand(e) /\ ~open[e]
  <2>1. UNCHANGED <<open, cmd_info_list>> /\ cur_send'[e] = 0 /\ cmd_info_list[e] = <<>>
    BY <1>5 DEF OnSendStrand, LastSent, NextSent, sockVars, TypeOK, Set
  <2> QED BY <2>1 DEF Emptied
<1>6. CASE SendMessage(e) \/ Clear(e) \/ BindSocketStrand(e) \/ OnRecvStrand(e)
  BY <1>1, <1>6 DEF SendMessage, Clear, BindSocketStrand, OnRecvStrand, sockVars, sendVars
<1>7. ASSUME NEW o \in ops[e], IoStep(e, o) PROVE Emptied(e)'
  BY <1>1, <1>7
     DEF IoStep, IoWrite, IoRead, IoFail, HandlerCopy, HandlerCall, sockVars, sendVars
<1> QED BY <1>2, <1>3, <1>4, <1>5, <1>6, <1>7 DEF EndStep, StrandStep

\* What the standstill rests on, for each end.
Settled(e) == Alive(e) /\ Lively(e) /\ Told(e) /\ Emptied(e)

LEMMA SettledNext ==
  ASSUME TypeOK, ~MayRefuse, \A e \in Ends : Settled(e), [Next]_vars
  PROVE  \A e \in Ends : Settled(e)'
<1> TAKE e \in Ends
<1>0. Alive(e)' /\ Lively(e) /\ Told(e) /\ Emptied(e)
  BY AliveStep DEF Settled
<1>1. ASSUME NEW d \in Ends, d # e, EndStep(d) PROVE Settled(e)'
  <2>1. UNCHANGED <<queue[e], open[e], sock_cb[e], cur_send[e], cmd_info_list[e], ops[e]>>
    BY <1>1, OtherOwn DEF Own
  <2>2. Flowing' => Flowing
    BY <1>1, FlowingBefore
  <2>3. Lively(e)'
    BY <1>0, <2>1, <2>2 DEF Lively, Bound, NoneFailed, OnItsWay
  <2> QED BY <1>0, <2>1, <2>3 DEF Settled, Told, Emptied
<1>2. CASE EndStep(e)
  <2>1. Flowing' => Lively(e)'
    BY <1>0, <1>2, LivelyEnd
  <2>2. Lively(e)'
    BY <2>1 DEF Lively
  <2> QED BY <1>0, <1>2, <2>2, ToldEnd, EmptiedEnd DEF Settled
<1>3. CASE Lose \/ UNCHANGED vars
  <2>1. UNCHANGED <<queue, open, sock_cb, cur_send, cmd_info_list, ops>> /\ (link' => link)
    BY <1>3 DEF Lose, vars, sockVars, sendVars, netVars
  <2>2. Lively(e)'
    BY <1>0, <2>1 DEF Lively, Flowing, Bound, NoneFailed, OnItsWay
  <2> QED BY <1>0, <2>1, <2>2 DEF Settled, Told, Emptied
<1> QED BY <1>1, <1>2, <1>3, NextSteps

LEMMA InitSettled ==
  ASSUME Init
  PROVE  \A e \in Ends : Settled(e)
<1> TAKE e \in Ends
<1>1. /\ queue[e] = <<Fo("bind", 0)>> /\ cur_send[e] = 0 /\ cmd_info_list[e] = <<>>
      /\ ops[e] = {}
  BY DEF Init
<1>2. Head(queue[e]).fn = "bind" /\ queue[e] # <<>> /\ ~Without(queue[e], {"bind", "error"})
  BY <1>1 DEF Fo, Elems, Without
<1> QED BY <1>1, <1>2, InitAlive DEF Settled, Lively, Bound, NoneFailed, OnItsWay, Told, Emptied

\* A cmd_info that nobody holds was freed.
LEMMA FreedHere ==
  ASSUME IInv, NEW e \in Ends, queue[e] = <<>>, cmd_info_list[e] = <<>>, cur_send[e] = 0
  PROVE  Freed(e)
<1> SUFFICES ASSUME NEW n \in Accepted(calls[e]) PROVE n \notin heap[e]
  BY DEF Freed
<1>1. OwnedInv(e) /\ calls[e] \in Calls
  BY LenCalls DEF IInv, EndInv
<1>2. n \in 1 .. Len(calls[e]) /\ n \in Nat \ {0} /\ calls[e][n].ok
  <2>1. Accepted(calls[e]) \subseteq 1 .. Len(calls[e]) /\ Len(calls[e]) \in Nat
    BY <1>1, CallFacts
  <2>2. n \in 1 .. Len(calls[e]) /\ n \in Nat \ {0}
    BY <2>1
  <2> QED BY <2>2 DEF Accepted
<1>3. HeldBy(queue[e], cmd_info_list[e], cur_send[e], n) = Owed(heap[e], calls[e], n)
  BY <1>1, <1>2 DEF OwnedInv, HeldOnce
<1>4. Occurs(queue[e], Fo("send", n)) = 0 /\ Occurs(cmd_info_list[e], n) = 0
  <2>1. \A x : Places(<<>>, x) = {}
    BY DEF Places
  <2> QED BY <2>1, FS_EmptySet DEF Occurs
<1>5. HeldBy(queue[e], cmd_info_list[e], cur_send[e], n) = 0
  BY <1>2, <1>4 DEF HeldBy
<1> QED BY <1>2, <1>3, <1>5 DEF Owed

\* While the connection is whole, the other end is in a read and has read all that
\* was written; as nothing is being written, that read is of the next header.
LEMMA StandstillFlowing ==
  ASSUME IInv, ChannelInv, \A e \in Ends : Settled(e), Standstill, Flowing, NEW e \in Ends
  PROVE  /\ cur_send[e] = 0 /\ cmd_info_list[e] = <<>>
         /\ Len(delivered[Peer(e)]) = Cardinality(Accepted(calls[e]))
<1> DEFINE d == Peer(e)
           cl == calls[e]
<1>1. /\ TypeOK /\ d \in Ends /\ Peer(d) = e /\ open[e] /\ open[d]
      /\ EndInv(d) /\ StreamInv(e) /\ cl \in Calls
  BY EndFacts, LenCalls DEF IInv, ChannelInv, Flowing
<1>2. \A c \in Ends : queue[c] = <<>> /\ Elems(queue[c]) = {} /\ sock_cb[c] = {"recv", "send", "err"}
  <2> TAKE c \in Ends
  <2>1. queue[c] = <<>> /\ Bound(c)
    BY DEF Standstill, Lively, Settled
  <2> QED BY <2>1 DEF Bound, Elems
<1>3. PICK o \in ReadOps(ops[d]) : o.pc = "io" /\ o.kind # "write"
  <2>1. Going(d)
    BY <1>1, <1>2 DEF Settled, Alive, Expected, Without
  <2> QED BY <1>1, <1>2, <2>1 DEF Going, Without, ReadOps, Standstill, Stuck
<1>4. wire[e] = <<>> /\ Len(wire[e]) = 0
  BY <1>1, <1>3 DEF Standstill, Stuck, ReadOps
<1>5. WriteOps(ops[e]) = {}
  BY <1>4, Bounds DEF Standstill, Stuck, WriteOps
<1>6. cur_send[e] = 0
  BY <1>1, <1>2, <1>5 DEF Settled, Lively, OnItsWay, Without
<1>7. PICK last \in Bytes : Stream(e, last)
  BY <1>1 DEF StreamInv
<1>8. Tip(last, wire[e]) = last
  BY <1>4 DEF Tip, At
<1>9. /\ Writer(e, last) /\ Reader(d, last) /\ last \in BytesTo(Len(cl))
  BY <1>1, <1>7, <1>8 DEF Stream
<1>10. /\ last = End(cl, last.ci) /\ cmd_info_list[e] = <<>>
       /\ \A n \in Accepted(cl) : n <= last.ci
  <2>1. Front(cur_send[e], last) = last.ci
    BY <1>6 DEF Front
  <2>2. Elems(cmd_info_list[e]) = {} /\ cmd_info_list[e] = <<>>
    BY <1>6, <1>9 DEF Writer, Elems
  <2> QED BY <1>2, <1>6, <1>9, <2>1, <2>2 DEF Writer, Complete
<1>11. Done(d, last)
  <2>1. ReadAt(d, last, o) /\ Piece(o, flag[d], has_recved[d], body_len[d]) /\ o.got < o.len
    BY <1>1, <1>3, <1>9 DEF Reader, EndInv, Framed, ReadOps
  <2>2. CASE o.kind = "hdr"
    BY <1>3, <2>1, <2>2 DEF ReadAt
  <2>3. CASE o.kind = "body"
    <3>1. BodyIn(d, last, o.off + o.got)
      BY <1>3, <2>1, <2>3 DEF ReadAt
    <3>2. last = Image(last.ci, o.off + o.got) /\ body_len[d] = SizeIn(cl, last.ci)
      BY <1>1, <3>1 DEF BodyIn, BodyAt
    <3>3. last.i = o.off + o.got /\ last.i = body_len[d]
      BY <1>10, <3>2 DEF Image, End
    <3>4. o.off = has_recved[d] /\ has_recved[d] + o.len <= body_len[d]
      BY <2>1, <2>3 DEF Piece
    <3>5. o \in Operations /\ body_len[d] \in Nat
      BY <1>1, <1>3 DEF TypeOK, ReadOps
    <3>6. o.off \in Nat /\ o.got \in Nat /\ o.len \in Nat
      BY <3>5 DEF Operations
    <3> QED BY <2>1, <3>3, <3>4, <3>5, <3>6
  <2>4. o.kind \in {"hdr", "body"}
    <3>1. o \in Operations
      BY <1>1, <1>3 DEF TypeOK, ReadOps
    <3> QED BY <1>3, <3>1 DEF Operations
  <2> QED BY <2>2, <2>3, <2>4
<1>12. Len(delivered[d]) = Cardinality(Accepted(cl))
  <2>1. UpTo(cl, last.ci) = Accepted(cl)
    BY <1>10 DEF UpTo
  <2>2. Nth(cl, last.ci) = Cardinality(Accepted(cl))
    BY <2>1 DEF Nth, UpTo
  <2> QED BY <1>1, <1>11, <2>2 DEF Done, Between
<1> QED BY <1>6, <1>10, <1>12

\* When it is not, a netport that was still open would be reading.
LEMMA StandstillBroken ==
  ASSUME IInv, \A e \in Ends : Settled(e), Standstill, ~Flowing, NEW e \in Ends
  PROVE  ~open[e] /\ cur_send[e] = 0 /\ cmd_info_list[e] = <<>>
<1>1. queue[e] = <<>> /\ ops[e] = {} /\ Elems(queue[e]) = {}
  BY DEF Standstill, Stuck, Elems
<1>2. open[e] => "err" \in sock_cb[e]
  BY <1>1 DEF Settled, Told, Without
<1>3. ~Going(e)
  BY <1>1 DEF Going, ReadOps, Without
<1>4. ~open[e]
  BY <1>1, <1>2, <1>3 DEF Settled, Alive, Expected, Without
<1> QED BY <1>4 DEF Settled, Emptied

\* As long as post_call takes what is posted, two netports never come to a
\* standstill before their work is done: no two ends that write with nobody
\* reading, no end gone deaf, no send that waits for a completion which never
\* comes, no end that has not noticed the loss.  When nothing is left to run, every
\* cmd_info is freed; over an unbroken connection every message has been handed up,
\* whole and in order, and otherwise both ends are closed (netport.h:3-12,
\* netport.cpp:119-333, socket.hpp:411-425).
THEOREM DoneAtStandstill ==
  ASSUME ~MayRefuse
  PROVE  Spec => []StandstillMeansDone
<1> DEFINE AllSettled == \A e \in Ends : Settled(e)
<1>1. Init => AllSettled
  BY InitSettled
<1>2. IInv /\ AllSettled /\ [Next]_vars => AllSettled'
  BY SettledNext DEF IInv
<1>3. IInv /\ ChannelInv /\ AllSettled => StandstillMeansDone
  <2> SUFFICES ASSUME IInv, ChannelInv, AllSettled, Standstill, NEW e \in Ends
               PROVE  Freed(e) /\ IF Flowing THEN Arrived(e) ELSE ~open[e]
    BY DEF StandstillMeansDone
  <2>1. Freed(e)
    <3>1. queue[e] = <<>>
      BY DEF Standstill
    <3>2. cmd_info_list[e] = <<>> /\ cur_send[e] = 0
      BY StandstillFlowing, StandstillBroken
    <3> QED BY <3>1, <3>2, FreedHere
  <2>2. CASE ~Flowing
    BY <2>1, <2>2, StandstillBroken
  <2>3. CASE Flowing
    <3>1. PICK cl \in Calls : cl = calls[e]
      BY LenCalls DEF IInv
    <3>2. PICK dl \in Seq([hdr : Bytes, body : Seq(Bytes)]) : dl = delivered[Peer(e)]
      BY EndFacts DEF IInv, TypeOK
    <3>3. InOrder(cl, dl) /\ DOMAIN dl = 1 .. Len(dl) /\ Len(dl) = Cardinality(Accepted(cl))
      BY <2>3, <3>1, <3>2, StandstillFlowing, LenProperties DEF ChannelInv, StreamInv
    <3>4. \A k \in 1 .. Len(dl) : HandedBy(cl, dl)[k] = SentBy(cl)[k]
      BY <3>3, HandedSent
    <3>5. HandedBy(cl, dl) = SentBy(cl)
      BY <3>3, <3>4 DEF HandedBy, SentBy
    <3>6. [k \in DOMAIN dl |-> Handed(Peer(e), dl[k])] = HandedBy(cl, dl)
      BY <3>1, EndFacts DEF Handed, HandedBy, HandedOf
    <3>7. SentAt(e) = SentBy(cl)
      BY <3>1 DEF SentAt, SentBy
    <3>8. Arrived(e)
      BY <3>2, <3>5, <3>6, <3>7 DEF Arrived
    <3> QED BY <2>1, <2>3, <3>8
  <2> QED BY <2>2, <2>3
<1> HIDE DEF AllSettled
<1> QED BY <1>1, <1>2, <1>3, Invariance, StreamInvariance, PTL DEF Spec
=============================================================================
