---------------------------- MODULE NetportProofs ----------------------------
(***************************************************************************)
(* Theorems about Netport, for any senders, sizes and bounds.              *)
(***************************************************************************)
EXTENDS Netport, TLAPS, SequenceTheorems, FunctionTheorems, FiniteSetTheorems

LEMMA EndFacts ==
  ASSUME NEW e \in Ends
  PROVE  /\ Peer(e) \in Ends /\ Peer(e) # e /\ Peer(Peer(e)) = e
         /\ \A d \in Ends : d = e \/ d = Peer(e)
BY ParameterAssumption DEF Ends, Peer

LEMMA Bounds ==
  /\ MaxRecv \in Nat \ {0} /\ MaxSends \in Nat \ {0} /\ WireMax \in Nat \ {0}
  /\ \A size \in Sizes : size \in Nat
BY ParameterAssumption
-----------------------------------------------------------------------------
(* The invariant.                                                           *)

\* What is in a queue.
Elems(q) == {q[i] : i \in 1 .. Len(q)}
Without(q, fns) == \A fo \in Elems(q) : fo.fn \notin fns

\* Of the operations of going and the functions fns in the queue, there is one
\* at most.
Single(q, going, fns) ==
  /\ \A o, p \in going : o = p
  /\ \A i, j \in 1 .. Len(q) : q[i].fn \in fns /\ q[j].fn \in fns => i = j
  /\ going # {} => Without(q, fns)

ReadOps(os)  == {o \in os : o.kind # "write" /\ o.pc # "report"}
WriteOps(os) == {o \in os : o.kind = "write"}

\* Bytes of the first n messages.
BytesTo(n) == [ci : 0 .. n, i : Nat, enc : BOOLEAN]

\* Every byte is part of a message that was sent.
KnownBytes(e) ==
  /\ Len(calls[e]) <= MaxSends
  /\ wire[e] \in Seq(BytesTo(Len(calls[e])))
  /\ \A o \in ops[e] : o.ci \in 0 .. Len(calls[e])
  /\ open[e] => \/ cmd_hdr[e] \in BytesTo(Len(calls[Peer(e)]))
                \/ queue[e] # <<>> /\ Head(queue[e]).fn = "bind"

ReadsOnce(e)  == Single(queue[e], ReadOps(ops[e]), {"bind", "recv"})
WritesOnce(e) == Single(queue[e], WriteOps(ops[e]), {"sent"})

\* What is being read fits flag_, has_recved_ and the buffer.
Piece(o, f, received, len) ==
  IF f = 1 THEN o.kind = "hdr"
  ELSE o.kind = "body" /\ o.off = received /\ received + o.len <= len

Framed(e) ==
  /\ flag[e] # 2 => has_recved[e] = 0
  /\ flag[e] # 1 => Without(queue[e], {"bind"})
  /\ \A o \in ReadOps(ops[e]) : Piece(o, flag[e], has_recved[e], body_len[e])
  /\ \A o \in ops[e] : o.pc = "io" => o.got < o.len
  /\ flag[e] = 2 => \A fo \in Elems(queue[e]) :
       fo.fn = "recv" => has_recved[e] + fo.arg <= body_len[e]
  /\ open[e] /\ flag[e] # 1 =>
       cmd_body[e] \in Seq(Bytes) /\ Len(cmd_body[e]) = body_len[e]

\* The message that is written is cur_send_.
Current(e) ==
  open[e] =>
    /\ \A o \in WriteOps(ops[e]) : o.ci = cur_send[e]
    /\ cur_send[e] = 0 => WriteOps(ops[e]) = {} /\ Without(queue[e], {"sent"})

Silent(e) == ~open[e] => ~port_cb[e]

\* How often something occurs in a sequence.
Places(s, x) == {i \in 1 .. Len(s) : s[i] = x}
Occurs(s, x) == Cardinality(Places(s, x))

\* The holders of cmd_info n, and how many it should have.
HeldBy(q, list, cur, n) ==
  Occurs(q, Fo("send", n)) + Occurs(list, n) + (IF cur = n THEN 1 ELSE 0)
Owed(hp, cl, n) == IF n \in 1 .. Len(cl) /\ n \in hp /\ cl[n].ok THEN 1 ELSE 0
HeldOnce(q, list, cur, hp, cl) ==
  \A n \in Nat \ {0} : HeldBy(q, list, cur, n) = Owed(hp, cl, n)

OwnedInv(e) ==
  /\ HeldOnce(queue[e], cmd_info_list[e], cur_send[e], heap[e], calls[e])
  /\ \A fo \in Elems(queue[e]) : fo.fn = "send" => fo.arg # 0

EndInv(e) ==
  /\ KnownBytes(e) /\ ReadsOnce(e) /\ WritesOnce(e) /\ Framed(e) /\ Current(e)
  /\ Silent(e) /\ OwnedInv(e)

IInv == TypeOK /\ \A e \in Ends : EndInv(e)

-----------------------------------------------------------------------------
(* How often something occurs in a sequence.                               *)

LEMMA OccursNat ==
  ASSUME NEW S, NEW s \in Seq(S), NEW x
  PROVE  /\ IsFiniteSet(Places(s, x)) /\ Occurs(s, x) \in Nat
         /\ Occurs(s, x) = 0 <=> \A i \in 1 .. Len(s) : s[i] # x
<1>1. Len(s) \in Nat
  BY LenProperties
<1>2. IsFiniteSet(1 .. Len(s)) /\ Places(s, x) \subseteq 1 .. Len(s)
  BY <1>1, FS_Interval DEF Places
<1>3. IsFiniteSet(Places(s, x)) /\ Occurs(s, x) \in Nat
  BY <1>2, FS_Subset, FS_CardinalityType DEF Occurs
<1>4. Occurs(s, x) = 0 <=> Places(s, x) = {}
  BY <1>3, FS_EmptySet DEF Occurs
<1> QED BY <1>3, <1>4 DEF Places

LEMMA OccursAppend ==
  ASSUME NEW S, NEW s \in Seq(S), NEW y \in S, NEW x
  PROVE  Occurs(Append(s, y), x) = Occurs(s, x) + (IF y = x THEN 1 ELSE 0)
<1>1. /\ Len(s) \in Nat /\ Len(Append(s, y)) = Len(s) + 1 /\ Append(s, y)[Len(s) + 1] = y
      /\ \A i \in 1 .. Len(s) : Append(s, y)[i] = s[i]
  BY AppendProperties, LenProperties
<1>2. IsFiniteSet(Places(s, x)) /\ Occurs(s, x) \in Nat
  BY OccursNat
<1>3. CASE y = x
  <2>1. Places(Append(s, y), x) = Places(s, x) \cup {Len(s) + 1}
    BY <1>1, <1>3 DEF Places
  <2>2. Len(s) + 1 \notin Places(s, x)
    BY <1>1 DEF Places
  <2> QED BY <1>2, <1>3, <2>1, <2>2, FS_AddElement DEF Occurs
<1>4. CASE y # x
  <2>1. Places(Append(s, y), x) = Places(s, x)
    BY <1>1, <1>4 DEF Places
  <2> QED BY <1>2, <1>4, <2>1 DEF Occurs
<1> QED BY <1>3, <1>4

LEMMA OccursTail ==
  ASSUME NEW S, NEW s \in Seq(S), s # <<>>, NEW x
  PROVE  Occurs(Tail(s), x) = Occurs(s, x) - (IF Head(s) = x THEN 1 ELSE 0)
<1>1. /\ Len(s) \in Nat \ {0} /\ Head(s) = s[1] /\ Tail(s) \in Seq(S) /\ Len(Tail(s)) = Len(s) - 1
      /\ \A i \in 1 .. Len(Tail(s)) : Tail(s)[i] = s[i + 1]
  BY EmptySeq, LenProperties, HeadTailProperties
<1>2. /\ IsFiniteSet(Places(s, x)) /\ Occurs(s, x) \in Nat
      /\ IsFiniteSet(Places(Tail(s), x)) /\ Occurs(Tail(s), x) \in Nat
  BY <1>1, OccursNat
<1> DEFINE later == Places(s, x) \ {1}
           shift == [i \in Places(Tail(s), x) |-> i + 1]
<1>3. Occurs(Tail(s), x) = Cardinality(later)
  <2>1. \A i \in Places(Tail(s), x) : i \in Nat /\ i + 1 \in later
    BY <1>1 DEF Places
  <2>2. \A j \in later : j \in Nat /\ j - 1 \in Places(Tail(s), x) /\ (j - 1) + 1 = j
    BY <1>1 DEF Places
  <2>3. shift \in [Places(Tail(s), x) -> later]
    BY <2>1
  <2>4. \A i, j \in Places(Tail(s), x) : shift[i] = shift[j] => i = j
    BY <2>1
  <2>5. \A j \in later : \E i \in Places(Tail(s), x) : shift[i] = j
    BY <2>2
  <2>6. shift \in Bijection(Places(Tail(s), x), later)
    BY <2>3, <2>4, <2>5, Fun_IsBij
  <2>7. ExistsBijection(Places(Tail(s), x), later)
    BY <2>6, Fun_ExistsBij
  <2>8. Cardinality(later) = Cardinality(Places(Tail(s), x))
    BY <1>2, <2>7, FS_Bijection
  <2> QED BY <2>8 DEF Occurs
<1>4. CASE Head(s) = x
  <2>1. 1 \in Places(s, x)
    BY <1>1, <1>4 DEF Places
  <2>2. Cardinality(later) = Occurs(s, x) - 1
    BY <1>2, <2>1, FS_RemoveElement DEF Occurs
  <2> QED BY <1>3, <1>4, <2>2
<1>5. CASE Head(s) # x
  <2>1. later = Places(s, x)
    BY <1>1, <1>5 DEF Places
  <2>2. Cardinality(later) = Occurs(s, x)
    BY <2>1 DEF Occurs
  <2> QED BY <1>2, <1>3, <1>5, <2>2
<1> QED BY <1>4, <1>5
-----------------------------------------------------------------------------
(* What is in a queue, and how often.                                      *)

LEMMA ElemsTail ==
  ASSUME NEW S, NEW q \in Seq(S), q # <<>>
  PROVE  /\ Head(q) \in Elems(q) /\ Elems(Tail(q)) \subseteq Elems(q)
         /\ Tail(q) \in Seq(S) /\ Head(q) \in S
<1>1. /\ Len(q) \in Nat \ {0} /\ Head(q) = q[1] /\ Tail(q) \in Seq(S) /\ Head(q) \in S
      /\ Len(Tail(q)) = Len(q) - 1
      /\ \A i \in 1 .. Len(Tail(q)) : Tail(q)[i] = q[i + 1]
  BY EmptySeq, LenProperties, HeadTailProperties
<1>2. \A i \in 1 .. Len(Tail(q)) : i + 1 \in 1 .. Len(q)
  BY <1>1
<1> QED BY <1>1, <1>2 DEF Elems

LEMMA ElemsAppend ==
  ASSUME NEW S, NEW q \in Seq(S), NEW x \in S
  PROVE  /\ Elems(Append(q, x)) = Elems(q) \cup {x}
         /\ Append(q, x) \in Seq(S) /\ Append(q, x) # <<>>
         /\ q # <<>> => Head(Append(q, x)) = Head(q)
<1>1. /\ Append(q, x) \in Seq(S)
      /\ Len(q) \in Nat /\ Len(Append(q, x)) = Len(q) + 1 /\ Append(q, x)[Len(q) + 1] = x
      /\ \A i \in 1 .. Len(q) : Append(q, x)[i] = q[i]
  BY AppendProperties, LenProperties
<1>2. 1 .. (Len(q) + 1) = (1 .. Len(q)) \cup {Len(q) + 1}
  BY <1>1
<1>3. Elems(Append(q, x)) = Elems(q) \cup {x}
  BY <1>1, <1>2 DEF Elems
<1>4. Append(q, x) # <<>>
  BY <1>1, EmptySeq
<1>5. q # <<>> => Len(q) # 0
  BY EmptySeq
<1>6. q # <<>> => Head(Append(q, x)) = Head(q)
  BY <1>1, <1>4, <1>5
<1> QED BY <1>1, <1>3, <1>4, <1>6

LEMMA SingleTail ==
  ASSUME NEW q \in Seq(Fos), q # <<>>, NEW G, NEW fns, Single(q, G, fns)
  PROVE  /\ Single(Tail(q), G, fns)
         /\ Head(q).fn \in fns => G = {} /\ Without(Tail(q), fns)
<1>1. /\ Len(q) \in Nat \ {0} /\ Head(q) = q[1]
      /\ Len(Tail(q)) = Len(q) - 1
      /\ \A i \in 1 .. Len(Tail(q)) : Tail(q)[i] = q[i + 1] /\ i + 1 \in 1 .. Len(q)
  BY EmptySeq, LenProperties, HeadTailProperties
<1>2. Head(q) \in Elems(q) /\ Elems(Tail(q)) \subseteq Elems(q)
  BY ElemsTail
<1>3. \A i, j \in 1 .. Len(Tail(q)) : Tail(q)[i].fn \in fns /\ Tail(q)[j].fn \in fns => i = j
  <2> TAKE i, j \in 1 .. Len(Tail(q))
  <2>1. Tail(q)[i].fn \in fns /\ Tail(q)[j].fn \in fns => i + 1 = j + 1
    BY <1>1 DEF Single
  <2> QED BY <1>1, <2>1
<1>4. Single(Tail(q), G, fns)
  BY <1>2, <1>3 DEF Single, Without
<1>5. ASSUME Head(q).fn \in fns PROVE G = {} /\ Without(Tail(q), fns)
  <2>1. G = {}
    BY <1>2, <1>5 DEF Single, Without
  <2>2. \A i \in 1 .. Len(Tail(q)) : Tail(q)[i].fn \notin fns
    <3> TAKE i \in 1 .. Len(Tail(q))
    <3>1. Tail(q)[i].fn \in fns => i + 1 = 1
      BY <1>1, <1>5 DEF Single
    <3> QED BY <1>1, <3>1
  <2> QED BY <2>1, <2>2 DEF Without, Elems
<1> QED BY <1>4, <1>5

LEMMA SingleAppend ==
  ASSUME NEW q \in Seq(Fos), NEW fo \in Fos, NEW G, NEW fns, Single(q, G, fns),
         fo.fn \notin fns \/ (G = {} /\ Without(q, fns))
  PROVE  Single(Append(q, fo), G, fns)
<1>1. /\ Len(q) \in Nat /\ Len(Append(q, fo)) = Len(q) + 1 /\ Append(q, fo)[Len(q) + 1] = fo
      /\ \A i \in 1 .. Len(q) : Append(q, fo)[i] = q[i]
  BY AppendProperties, LenProperties
<1>2. Elems(Append(q, fo)) = Elems(q) \cup {fo}
  BY ElemsAppend
<1>3. \A i \in 1 .. Len(Append(q, fo)) : i \in 1 .. Len(q) \/ i = Len(q) + 1
  BY <1>1
<1>4. CASE fo.fn \notin fns
  <2>1. \A i, j \in 1 .. Len(Append(q, fo)) :
          Append(q, fo)[i].fn \in fns /\ Append(q, fo)[j].fn \in fns => i = j
    BY <1>1, <1>3, <1>4 DEF Single
  <2> QED BY <1>2, <1>4, <2>1 DEF Single, Without
<1>5. CASE G = {} /\ Without(q, fns)
  <2>1. \A i \in 1 .. Len(q) : q[i].fn \notin fns
    BY <1>5 DEF Without, Elems
  <2>2. \A i, j \in 1 .. Len(Append(q, fo)) :
          Append(q, fo)[i].fn \in fns /\ Append(q, fo)[j].fn \in fns => i = j
    BY <1>1, <1>3, <2>1
  <2> QED BY <1>5, <2>2 DEF Single
<1> QED BY <1>4, <1>5

\* Operations end, or one takes the place of another, or one starts when
\* nothing else is left.
LEMMA SingleOps ==
  ASSUME NEW q, NEW G, NEW H, NEW fns, Single(q, G, fns),
         \/ H \subseteq G
         \/ G # {} /\ \A o, p \in H : o = p
         \/ Without(q, fns) /\ \A o, p \in H : o = p
  PROVE  Single(q, H, fns)
BY DEF Single
-----------------------------------------------------------------------------
(* The owners of the cmd_infos, for the contents of one end.                *)

Calls == Seq([size : Sizes, magic : Magics, ok : BOOLEAN])

\* What the lemmas below assume of an end.
Owners(q, list, cur, hp, cl) ==
  /\ q \in Seq(Fos) /\ list \in Seq(1 .. MaxSends) /\ cur \in 0 .. MaxSends
  /\ cl \in Calls
  /\ HeldOnce(q, list, cur, hp, cl)

LEMMA SendShape ==
  ASSUME NEW fo \in Fos, NEW n
  PROVE  fo = Fo("send", n) <=> fo.fn = "send" /\ fo.arg = n
BY DEF Fos, Fo

LEMMA HeldFacts ==
  ASSUME NEW q, NEW list, NEW cur, NEW hp, NEW cl, Owners(q, list, cur, hp, cl),
         NEW n \in Nat \ {0}
  PROVE  /\ Occurs(q, Fo("send", n)) \in Nat /\ Occurs(list, n) \in Nat
         /\ HeldBy(q, list, cur, n) = Owed(hp, cl, n) /\ Owed(hp, cl, n) \in {0, 1}
         /\ HeldBy(q, list, cur, n) =
              Occurs(q, Fo("send", n)) + Occurs(list, n) + (IF cur = n THEN 1 ELSE 0)
<1>1. q \in Seq(Fos) /\ list \in Seq(1 .. MaxSends)
  BY DEF Owners
<1>2. Occurs(q, Fo("send", n)) \in Nat
  BY <1>1, OccursNat
<1>3. Occurs(list, n) \in Nat
  BY <1>1, OccursNat
<1>4. Owed(hp, cl, n) \in {0, 1}
  BY DEF Owed
<1> QED BY <1>2, <1>3, <1>4 DEF Owners, HeldOnce, HeldBy

\* The cmd_info of a function object is owed, and nobody else has it.
LEMMA PostedHeld ==
  ASSUME NEW q, NEW list, NEW cur, NEW hp, NEW cl, Owners(q, list, cur, hp, cl),
         q # <<>>, Head(q).fn = "send", NEW n \in Nat \ {0}, n = Head(q).arg
  PROVE  /\ Owed(hp, cl, n) = 1 /\ cur # n
         /\ Occurs(q, Fo("send", n)) = 1 /\ Occurs(list, n) = 0
<1>1. q \in Seq(Fos)
  BY DEF Owners
<1>2. Head(q) \in Fos /\ Head(q) \in Elems(q)
  BY <1>1, ElemsTail
<1>3. Head(q) = Fo("send", n)
  BY <1>2, SendShape
<1>4. Occurs(q, Fo("send", n)) # 0
  <2>1. PICK i \in 1 .. Len(q) : q[i] = Fo("send", n)
    BY <1>2, <1>3 DEF Elems
  <2> QED BY <1>1, <2>1, OccursNat
<1>5. /\ Occurs(q, Fo("send", n)) \in Nat /\ Occurs(list, n) \in Nat
      /\ Occurs(q, Fo("send", n)) + Occurs(list, n) + (IF cur = n THEN 1 ELSE 0)
           = Owed(hp, cl, n)
      /\ Owed(hp, cl, n) \in {0, 1}
  BY HeldFacts
<1> QED BY <1>4, <1>5

\* Function objects of other kinds come and go.
LEMMA OwnersPost ==
  ASSUME NEW q, NEW list, NEW cur, NEW hp, NEW cl, Owners(q, list, cur, hp, cl),
         NEW fo \in Fos, fo.fn # "send"
  PROVE  HeldOnce(Append(q, fo), list, cur, hp, cl)
<1> SUFFICES ASSUME NEW n \in Nat \ {0}
             PROVE  HeldBy(Append(q, fo), list, cur, n) = Owed(hp, cl, n)
  BY DEF HeldOnce
<1>1. q \in Seq(Fos) /\ fo # Fo("send", n)
  BY SendShape DEF Owners
<1>2. Occurs(Append(q, fo), Fo("send", n)) = Occurs(q, Fo("send", n)) + 0
  BY <1>1, OccursAppend
<1> QED BY <1>2, HeldFacts DEF HeldBy

LEMMA OwnersPop ==
  ASSUME NEW q, NEW list, NEW cur, NEW hp, NEW cl, Owners(q, list, cur, hp, cl),
         q # <<>>, Head(q).fn # "send"
  PROVE  HeldOnce(Tail(q), list, cur, hp, cl)
<1> SUFFICES ASSUME NEW n \in Nat \ {0}
             PROVE  HeldBy(Tail(q), list, cur, n) = Owed(hp, cl, n)
  BY DEF HeldOnce
<1>1. q \in Seq(Fos)
  BY DEF Owners
<1>2. Head(q) # Fo("send", n)
  BY <1>1, ElemsTail, SendShape
<1>3. Occurs(Tail(q), Fo("send", n)) = Occurs(q, Fo("send", n)) - 0
  BY <1>1, <1>2, OccursTail
<1> QED BY <1>3, HeldFacts DEF HeldBy

\* send_message.
LEMMA OwnersCall ==
  ASSUME NEW q, NEW list, NEW cur, NEW hp, NEW cl, Owners(q, list, cur, hp, cl),
         NEW m \in Nat, m = Len(cl) + 1,
         NEW size \in Sizes, NEW magic \in Magics, NEW ok \in BOOLEAN
  PROVE  HeldOnce(IF ok THEN Append(q, Fo("send", m)) ELSE q, list, cur, hp \cup {m},
                  Append(cl, [size |-> size, magic |-> magic, ok |-> ok]))
<1> DEFINE r == [size |-> size, magic |-> magic, ok |-> ok]
           p == IF ok THEN Append(q, Fo("send", m)) ELSE q
<1>0. r \in [size : Sizes, magic : Magics, ok : BOOLEAN] /\ r.ok = ok
  OBVIOUS
<1> HIDE DEF r
<1> SUFFICES ASSUME NEW n \in Nat \ {0}
             PROVE  HeldBy(p, list, cur, n) = Owed(hp \cup {m}, Append(cl, r), n)
  BY DEF HeldOnce, r
<1>1. q \in Seq(Fos) /\ cl \in Seq([size : Sizes, magic : Magics, ok : BOOLEAN])
  BY DEF Owners, Calls
<1>2. /\ Len(cl) \in Nat /\ Len(Append(cl, r)) = m /\ Append(cl, r)[m] = r
      /\ \A i \in 1 .. Len(cl) : Append(cl, r)[i] = cl[i]
  BY <1>0, <1>1, AppendProperties, LenProperties
<1>3. Fo("send", m) \in Fos /\ (Fo("send", m) = Fo("send", n) <=> m = n)
  BY DEF Fo, Fos
<1>4. Occurs(p, Fo("send", n)) = Occurs(q, Fo("send", n)) + (IF ok /\ m = n THEN 1 ELSE 0)
  <2>1. Occurs(q, Fo("send", n)) \in Nat
    BY HeldFacts
  <2>2. CASE ok
    <3>1. Occurs(Append(q, Fo("send", m)), Fo("send", n))
            = Occurs(q, Fo("send", n)) + (IF Fo("send", m) = Fo("send", n) THEN 1 ELSE 0)
      BY <1>1, <1>3, OccursAppend
    <3> QED BY <1>3, <2>2, <3>1
  <2> QED BY <2>1, <2>2
<1>5. HeldBy(p, list, cur, n) = HeldBy(q, list, cur, n) + (IF ok /\ m = n THEN 1 ELSE 0)
  BY <1>4, HeldFacts, SMTT(30) DEF HeldBy
<1>6. CASE n = m
  <2>1. /\ Owed(hp, cl, n) = 0
        /\ Owed(hp \cup {m}, Append(cl, r), n) = (IF ok THEN 1 ELSE 0)
    BY <1>0, <1>2, <1>6 DEF Owed
  <2> QED BY <1>5, <1>6, <2>1, HeldFacts
<1>7. CASE n # m
  <2>1. Owed(hp, cl, n) = Owed(hp \cup {m}, Append(cl, r), n)
    BY <1>2, <1>7 DEF Owed
  <2>2. HeldBy(q, list, cur, n) = Owed(hp, cl, n) /\ Owed(hp, cl, n) \in {0, 1}
    BY HeldFacts
  <2> QED BY <1>5, <1>7, <2>1, <2>2
<1> QED BY <1>6, <1>7

\* i_send_message_strand takes the cmd_info m: it frees it, or it keeps it for
\* later or now.
LEMMA OwnersTake ==
  ASSUME NEW q, NEW list, NEW cur, NEW hp, NEW cl, Owners(q, list, cur, hp, cl),
         q # <<>>, Head(q).fn = "send", NEW m \in Nat \ {0}, m = Head(q).arg,
         NEW left, left = hp \ {m}
  PROVE  /\ HeldOnce(Tail(q), list, cur, left, cl)
         /\ HeldOnce(Tail(q), Append(list, m), cur, hp, cl)
         /\ cur = 0 => HeldOnce(Tail(q), list, m, hp, cl)
         /\ m \in 1 .. Len(cl)
<1>1. q \in Seq(Fos) /\ list \in Seq(1 .. MaxSends) /\ Head(q) \in Fos
  BY ElemsTail DEF Owners
<1>2. Owed(hp, cl, m) = 1 /\ cur # m /\ Occurs(q, Fo("send", m)) = 1 /\ Occurs(list, m) = 0
  BY PostedHeld
<1>3. ASSUME NEW n \in Nat \ {0}
      PROVE  /\ Occurs(q, Fo("send", n)) \in Nat /\ Occurs(list, n) \in Nat
             /\ Occurs(q, Fo("send", n)) + Occurs(list, n) + (IF cur = n THEN 1 ELSE 0)
                  = Owed(hp, cl, n)
             /\ Occurs(Tail(q), Fo("send", n))
                  = Occurs(q, Fo("send", n)) - (IF m = n THEN 1 ELSE 0)
             /\ Occurs(Append(list, m), n) = Occurs(list, n) + (IF m = n THEN 1 ELSE 0)
  <2>1. Head(q) = Fo("send", n) <=> m = n
    BY <1>1, SendShape
  <2>2. Occurs(Tail(q), Fo("send", n))
          = Occurs(q, Fo("send", n)) - (IF Head(q) = Fo("send", n) THEN 1 ELSE 0)
    BY <1>1, OccursTail
  <2>3. list \in Seq(Nat) /\ m \in Nat
    <3>1. 1 .. MaxSends \subseteq Nat
      OBVIOUS
    <3> QED BY <1>1, <3>1, SeqMonotonic
  <2>4. Occurs(Append(list, m), n) = Occurs(list, n) + (IF m = n THEN 1 ELSE 0)
    BY <2>3, OccursAppend
  <2>6. /\ Occurs(q, Fo("send", n)) \in Nat /\ Occurs(list, n) \in Nat
        /\ Occurs(q, Fo("send", n)) + Occurs(list, n) + (IF cur = n THEN 1 ELSE 0)
             = Owed(hp, cl, n)
    BY HeldFacts
  <2> QED BY <2>1, <2>2, <2>4, <2>6
<1>4. ASSUME NEW n \in Nat \ {0}
      PROVE  HeldBy(Tail(q), list, cur, n) = Owed(left, cl, n)
  <2>0. /\ m = n => Owed(left, cl, n) = 0
        /\ m # n => Owed(left, cl, n) = Owed(hp, cl, n)
    BY DEF Owed
  <2>1. CASE m = n
    <3>1. Occurs(Tail(q), Fo("send", n)) = 0 /\ Occurs(list, n) = 0 /\ cur # n
      BY <1>2, <1>3, <2>1
    <3>2. HeldBy(Tail(q), list, cur, n) = 0
      BY <3>1 DEF HeldBy
    <3> QED BY <2>0, <2>1, <3>2
  <2>2. CASE m # n
    <3>1. Occurs(Tail(q), Fo("send", n)) = Occurs(q, Fo("send", n))
      BY <1>3, <2>2
    <3>2. HeldBy(Tail(q), list, cur, n) = Owed(hp, cl, n)
      BY <1>3, <3>1 DEF HeldBy
    <3> QED BY <2>0, <2>2, <3>2
  <2> QED BY <2>1, <2>2
<1>5. ASSUME NEW n \in Nat \ {0}
      PROVE  HeldBy(Tail(q), Append(list, m), cur, n) = Owed(hp, cl, n)
  BY <1>2, <1>3 DEF HeldBy
<1>6. ASSUME NEW n \in Nat \ {0}, cur = 0
      PROVE  HeldBy(Tail(q), list, m, n) = Owed(hp, cl, n)
  BY <1>2, <1>3, <1>6 DEF HeldBy
<1>7. m \in 1 .. Len(cl)
  BY <1>2 DEF Owed
<1> QED BY <1>4, <1>5, <1>6, <1>7 DEF HeldOnce

\* i_on_send_strand frees cur_send_, and takes the next one from the list.
LEMMA OwnersNext ==
  ASSUME NEW q, NEW list, NEW cur, NEW hp, NEW cl, Owners(q, list, cur, hp, cl),
         NEW left, left = hp \ {cur}
  PROVE  /\ list = <<>> => HeldOnce(q, list, 0, left, cl)
         /\ list # <<>> => /\ HeldOnce(q, Tail(list), Head(list), left, cl)
                           /\ Head(list) \in 1 .. Len(cl)
<1>1. list \in Seq(1 .. MaxSends) /\ cur \in 0 .. MaxSends /\ MaxSends \in Nat
  BY Bounds DEF Owners
<1>2. ASSUME NEW n \in Nat \ {0}
      PROVE  /\ Occurs(q, Fo("send", n)) \in Nat /\ Occurs(list, n) \in Nat
             /\ Occurs(q, Fo("send", n)) + Occurs(list, n) + (IF cur = n THEN 1 ELSE 0)
                  = Owed(hp, cl, n)
             /\ Owed(hp, cl, n) \in {0, 1}
  BY HeldFacts
<1>3. ASSUME list = <<>> PROVE HeldOnce(q, list, 0, left, cl)
  <2>1. ASSUME NEW n \in Nat \ {0}
        PROVE  HeldBy(q, list, 0, n) = Owed(left, cl, n)
    <3>0. /\ cur = n => Owed(left, cl, n) = 0
          /\ cur # n => Owed(left, cl, n) = Owed(hp, cl, n)
      BY DEF Owed
    <3>1. HeldBy(q, list, 0, n) = Occurs(q, Fo("send", n)) + Occurs(list, n)
      BY <1>2 DEF HeldBy
    <3>2. CASE cur = n
      <4>1. Occurs(q, Fo("send", n)) = 0 /\ Occurs(list, n) = 0
        BY <1>2, <3>2
      <4>2. HeldBy(q, list, 0, n) = 0
        BY <3>1, <4>1
      <4> QED BY <3>0, <3>2, <4>2
    <3>3. CASE cur # n
      <4>1. HeldBy(q, list, 0, n) = Owed(hp, cl, n)
        BY <1>2, <3>1, <3>3
      <4> QED BY <3>0, <3>3, <4>1
    <3> QED BY <3>2, <3>3
  <2> QED BY <2>1 DEF HeldOnce
<1>4. ASSUME list # <<>>
      PROVE  /\ HeldOnce(q, Tail(list), Head(list), left, cl)
             /\ Head(list) \in 1 .. Len(cl)
  <2> DEFINE m == Head(list)
  <2>1. m \in 1 .. MaxSends /\ m \in Elems(list)
    BY <1>1, <1>4, ElemsTail
  <2>2. m \in Nat \ {0}
    BY <1>1, <2>1
  <2>3. Occurs(list, m) # 0
    <3>1. PICK i \in 1 .. Len(list) : list[i] = m
      BY <2>1 DEF Elems
    <3> QED BY <1>1, <3>1, OccursNat
  <2>4. cur # m /\ Owed(hp, cl, m) = 1 /\ Occurs(q, Fo("send", m)) = 0 /\ Occurs(list, m) = 1
    BY <1>2, <2>2, <2>3
  <2>5. ASSUME NEW n \in Nat \ {0}
        PROVE  Occurs(Tail(list), n) = Occurs(list, n) - (IF m = n THEN 1 ELSE 0)
    BY <1>1, <1>4, OccursTail
  <2> HIDE DEF m
  <2>6. ASSUME NEW n \in Nat \ {0}
        PROVE  HeldBy(q, Tail(list), m, n) = Owed(left, cl, n)
    <3>0. /\ cur = n => Owed(left, cl, n) = 0
          /\ cur # n => Owed(left, cl, n) = Owed(hp, cl, n)
      BY DEF Owed
    <3>1. CASE m = n
      <4>1. Occurs(q, Fo("send", n)) = 0 /\ Occurs(Tail(list), n) = 0 /\ cur # n
        BY <2>4, <2>5, <3>1
      <4>2. HeldBy(q, Tail(list), m, n) = 1
        BY <3>1, <4>1 DEF HeldBy
      <4> QED BY <3>0, <2>4, <3>1, <4>1, <4>2
    <3>2. CASE m # n
      <4>1. HeldBy(q, Tail(list), m, n) = Occurs(q, Fo("send", n)) + Occurs(list, n)
        BY <1>2, <2>5, <3>2 DEF HeldBy
      <4>2. CASE cur = n
        <5>1. Occurs(q, Fo("send", n)) = 0 /\ Occurs(list, n) = 0
          BY <1>2, <4>2
        <5>2. HeldBy(q, Tail(list), m, n) = 0
          BY <4>1, <5>1
        <5> QED BY <3>0, <4>2, <5>2
      <4>3. CASE cur # n
        <5>1. HeldBy(q, Tail(list), m, n) = Owed(hp, cl, n)
          BY <1>2, <4>1, <4>3
        <5> QED BY <3>0, <4>3, <5>1
      <4> QED BY <4>2, <4>3
    <3> QED BY <3>1, <3>2
  <2>7. m \in 1 .. Len(cl)
    BY <2>4 DEF Owed
  <2> QED BY <2>6, <2>7 DEF HeldOnce, m
<1> QED BY <1>3, <1>4

\* i_do_clear frees cur_send_ and the list.
LEMMA OwnersClear ==
  ASSUME NEW q, NEW list, NEW cur, NEW hp, NEW cl, Owners(q, list, cur, hp, cl), NEW gone,
         gone = {cur} \cup {list[i] : i \in DOMAIN list}, NEW left, left = hp \ gone
  PROVE  HeldOnce(q, <<>>, 0, left, cl)
<1> SUFFICES ASSUME NEW n \in Nat \ {0}
             PROVE  HeldBy(q, <<>>, 0, n) = Owed(left, cl, n)
  BY DEF HeldOnce
<1>1. list \in Seq(1 .. MaxSends)
  BY DEF Owners
<1>2. /\ Occurs(q, Fo("send", n)) \in Nat /\ Occurs(list, n) \in Nat
      /\ Occurs(q, Fo("send", n)) + Occurs(list, n) + (IF cur = n THEN 1 ELSE 0)
           = Owed(hp, cl, n)
      /\ Owed(hp, cl, n) \in {0, 1}
  BY HeldFacts
<1>3. n \in gone <=> cur = n \/ Occurs(list, n) # 0
  <2>1. Occurs(list, n) # 0 <=> \E i \in 1 .. Len(list) : list[i] = n
    BY <1>1, OccursNat
  <2>2. DOMAIN list = 1 .. Len(list)
    BY <1>1, LenProperties
  <2> QED BY <2>1, <2>2
<1>4. /\ n \in gone => Owed(left, cl, n) = 0
      /\ n \notin gone => Owed(left, cl, n) = Owed(hp, cl, n)
  BY DEF Owed
<1>5. Occurs(<<>>, n) = 0
  <2>1. Places(<<>>, n) = {}
    BY DEF Places
  <2>2. Cardinality({}) = 0
    BY FS_EmptySet
  <2> QED BY <2>1, <2>2 DEF Occurs
<1>6. HeldBy(q, <<>>, 0, n) = Occurs(q, Fo("send", n))
  BY <1>2, <1>5 DEF HeldBy
<1>7. CASE n \in gone
  <2>1. Occurs(q, Fo("send", n)) = 0
    BY <1>2, <1>3, <1>7
  <2> QED BY <1>4, <1>6, <1>7, <2>1
<1>8. CASE n \notin gone
  <2>1. cur # n /\ Occurs(list, n) = 0
    BY <1>2, <1>3, <1>8
  <2> QED BY <1>2, <1>4, <1>6, <1>8, <2>1
<1> QED BY <1>7, <1>8
-----------------------------------------------------------------------------
(* What a step does to the other end.                                      *)

EndStep(e) ==
  SendMessage(e) \/ Clear(e) \/ StrandStep(e) \/ \E o \in ops[e] : IoStep(e, o)

\* All that an end has of its own, but for the connection.
Own(e) ==
  <<queue[e], port_cb[e], open[e], sock_cb[e], flag[e], has_recved[e], cmd_hdr[e], cmd_body[e],
    body_len[e], cur_send[e], cmd_info_list[e], ops[e], heap[e], calls[e], delivered[e],
    finished[e], errors[e]>>

RecvKept(d) ==
  /\ flag'[d] = flag[d] /\ body_len'[d] = body_len[d] /\ cmd_hdr'[d] = cmd_hdr[d]
  /\ cmd_body'[d] = cmd_body[d] /\ delivered'[d] = delivered[d]

LEMMA OtherRecv ==
  ASSUME TypeOK, NEW e \in Ends, NEW d \in Ends, d # e, OnRecvStrand(e)
  PROVE  RecvKept(d)
<1>1. ASSUME NEW body, NEW len, FinishCommand(e, body, len) PROVE RecvKept(d)
  BY <1>1 DEF FinishCommand, RecvKept, TypeOK, Set
<1>2. CASE UNCHANGED recvVars
  BY <1>2 DEF recvVars, RecvKept
<1>3. CASE WholeBody(e) \/ EmptyBody(e) \/ LastPiece(e)
  BY <1>1, <1>3 DEF WholeBody, EmptyBody, LastPiece
<1>4. CASE StartBody(e) \/ NextPiece(e)
  BY <1>4 DEF StartBody, NextPiece, RecvKept, TypeOK, Set
<1> QED BY <1>2, <1>3, <1>4 DEF OnRecvStrand, BadHeader

LEMMA OtherOwn ==
  ASSUME TypeOK, NEW e \in Ends, NEW d \in Ends, d # e, EndStep(e)
  PROVE  Own(d)' = Own(d)
<1> USE DEF TypeOK, Own, Set, recvVars, sendVars, sockVars, userVars, netVars
<1>1. CASE SendMessage(e)
  BY <1>1 DEF SendMessage
<1>2. CASE Clear(e)
  BY <1>2 DEF Clear
<1>3. CASE BindSocketStrand(e)
  BY <1>3 DEF BindSocketStrand, Pop, ReadHeader, Start
<1>4. CASE SendMessageStrand(e)
  BY <1>4 DEF SendMessageStrand, DropSend, QueueSend, StartSend, Pop, Start
<1>5. CASE OnSendStrand(e)
  BY <1>5 DEF OnSendStrand, LastSent, NextSent, Pop, Start
<1>6. CASE OnRecvStrand(e)
  <2>1. UNCHANGED <<port_cb, open, sock_cb, cur_send, cmd_info_list, heap, calls, finished,
                 errors>>
    BY <1>6 DEF OnRecvStrand
  <2>2. queue'[d] = queue[d] /\ ops'[d] = ops[d] /\ has_recved'[d] = has_recved[d]
    BY <1>6 DEF OnRecvStrand, WholeBody, BadHeader, EmptyBody, StartBody, LastPiece,
                     NextPiece, Pop, FinishCommand, ReadHeader, Start
  <2>3. RecvKept(d)
    BY <1>6, OtherRecv
  <2> QED BY <2>1, <2>2, <2>3 DEF RecvKept
<1>7. CASE ClearStrand(e) \/ OnErrorStrand(e)
  <2>1. DoClear(e) /\ queue'[d] = queue[d] /\ errors'[d] = errors[d] /\ finished' = finished
    BY <1>7, SMTT(30) DEF ClearStrand, OnErrorStrand, Pop
  <2>2. /\ port_cb'[d] = port_cb[d] /\ open'[d] = open[d] /\ sock_cb'[d] = sock_cb[d]
        /\ heap'[d] = heap[d]
    BY <2>1 DEF DoClear
  <2>3. /\ cmd_info_list'[d] = cmd_info_list[d] /\ cur_send'[d] = cur_send[d]
        /\ cmd_hdr'[d] = cmd_hdr[d] /\ cmd_body'[d] = cmd_body[d]
    BY <2>1 DEF DoClear
  <2>4. UNCHANGED <<flag, has_recved, body_len, delivered, ops, calls>>
    BY <2>1 DEF DoClear
  <2> QED BY <2>1, <2>2, <2>3, <2>4
<1>8. ASSUME NEW o \in ops[e], IoStep(e, o) PROVE Own(d)' = Own(d)
  <2>1. CASE IoWrite(e, o) \/ IoFail(e, o)
    BY <2>1 DEF IoWrite, IoFail, Replace
  <2>2. CASE IoRead(e, o)
    <3>1. ops'[d] = ops[d]
      BY <2>2 DEF IoRead, Replace
    <3>2. cmd_hdr'[d] = cmd_hdr[d] /\ cmd_body'[d] = cmd_body[d]
      BY <2>2 DEF IoRead
    <3>3. UNCHANGED <<queue, flag, has_recved, body_len, delivered, sendVars, sockVars, userVars,
                      calls>>
      BY <2>2 DEF IoRead
    <3> QED BY <3>1, <3>2, <3>3
  <2>3. CASE HandlerCopy(e, o)
    BY <2>3 DEF HandlerCopy, Replace, Remove
  <2>4. CASE HandlerCall(e, o)
    BY <2>4 DEF HandlerCall, Remove
  <2> QED BY <1>8, <2>1, <2>2, <2>3, <2>4 DEF IoStep
<1> QED BY <1>1, <1>2, <1>3, <1>4, <1>5, <1>6, <1>7, <1>8 DEF EndStep, StrandStep

LEMMA BytesGrow ==
  ASSUME NEW m \in Nat, NEW n \in Nat, m <= n
  PROVE  BytesTo(m) \subseteq BytesTo(n)
<1>1. 0 .. m \subseteq 0 .. n
  OBVIOUS
<1> QED BY <1>1 DEF BytesTo

LEMMA CallsGrow ==
  ASSUME TypeOK, NEW e \in Ends, EndStep(e)
  PROVE  /\ Len(calls[e]) \in Nat /\ Len(calls'[e]) \in Nat
         /\ Len(calls[e]) <= Len(calls'[e])
<1>1. calls \in [Ends -> Calls]
  BY DEF TypeOK, Calls
<1>2. Len(calls[e]) \in Nat
  BY <1>1, LenProperties DEF Calls
<1>3. CASE SendMessage(e)
  <2>1. PICK size \in Sizes, magic \in Magics, ok \in {TRUE, ~MayRefuse} :
          calls' = Set(calls, e, Append(calls[e], [size |-> size, magic |-> magic, ok |-> ok]))
    BY <1>3 DEF SendMessage
  <2>2. calls'[e] = Append(calls[e], [size |-> size, magic |-> magic, ok |-> ok])
    BY <1>1, <2>1 DEF Set
  <2>3. [size |-> size, magic |-> magic, ok |-> ok] \in [size : Sizes, magic : Magics, ok : BOOLEAN]
    BY ParameterAssumption
  <2>4. Len(calls'[e]) = Len(calls[e]) + 1
    BY <1>1, <2>2, <2>3, AppendProperties DEF Calls
  <2> QED BY <1>2, <2>4
<1>4. CASE calls' = calls
  BY <1>2, <1>4
<1>5. CASE Clear(e) \/ BindSocketStrand(e) \/ SendMessageStrand(e) \/ OnSendStrand(e)
             \/ OnRecvStrand(e)
  BY <1>4, <1>5 DEF Clear, BindSocketStrand, SendMessageStrand, OnSendStrand, OnRecvStrand
<1>6. CASE ClearStrand(e) \/ OnErrorStrand(e)
  BY <1>4, <1>6 DEF ClearStrand, OnErrorStrand, DoClear
<1>7. CASE \E o \in ops[e] : IoStep(e, o)
  BY <1>4, <1>7 DEF IoStep, IoWrite, IoRead, IoFail, HandlerCopy, HandlerCall
<1> QED BY <1>3, <1>5, <1>6, <1>7 DEF EndStep, StrandStep

LEMMA OtherWire ==
  ASSUME TypeOK, NEW e \in Ends, NEW d \in Ends, d # e, EndStep(e)
  PROVE  wire'[d] = wire[d] \/ (wire[d] # <<>> /\ wire'[d] = Tail(wire[d]))
<1>1. d = Peer(e) /\ wire \in [Ends -> Seq(Bytes)]
  BY EndFacts DEF TypeOK
<1>2. CASE wire' = wire
  BY <1>2
<1>3. CASE SendMessage(e) \/ Clear(e) \/ BindSocketStrand(e) \/ SendMessageStrand(e)
             \/ OnSendStrand(e) \/ OnRecvStrand(e)
  BY <1>2, <1>3 DEF SendMessage, Clear, BindSocketStrand, SendMessageStrand, OnSendStrand,
                    OnRecvStrand, netVars
<1>4. CASE ClearStrand(e) \/ OnErrorStrand(e)
  BY <1>2, <1>4 DEF ClearStrand, OnErrorStrand, DoClear, netVars
<1>5. ASSUME NEW o \in ops[e], IoWrite(e, o)
      PROVE  wire'[d] = wire[d]
  BY <1>1, <1>5 DEF IoWrite, Set
<1>6. ASSUME NEW o \in ops[e], IoRead(e, o)
      PROVE  wire[d] # <<>> /\ wire'[d] = Tail(wire[d])
  BY <1>1, <1>6 DEF IoRead, Set
<1>7. ASSUME NEW o \in ops[e], IoFail(e, o) \/ HandlerCopy(e, o) \/ HandlerCall(e, o)
      PROVE  wire' = wire
  BY <1>7 DEF IoFail, HandlerCopy, HandlerCall, netVars
<1> QED BY <1>2, <1>3, <1>4, <1>5, <1>6, <1>7 DEF EndStep, StrandStep, IoStep

\* The other end keeps its invariant.
LEMMA OtherInv ==
  ASSUME IInv, NEW e \in Ends, NEW d \in Ends, d # e, EndStep(e)
  PROVE  EndInv(d)'
<1> USE DEF Own
<1>1. TypeOK /\ EndInv(d) /\ Peer(d) = e
  BY EndFacts DEF IInv
<1>2. Own(d)' = Own(d)
  BY <1>1, OtherOwn
<1>3. KnownBytes(d)'
  <2>1. calls'[d] = calls[d] /\ Len(calls[d]) <= MaxSends
    BY <1>1, <1>2 DEF EndInv, KnownBytes
  <2>2. wire'[d] \in Seq(BytesTo(Len(calls[d])))
    <3>1. wire[d] \in Seq(BytesTo(Len(calls[d])))
      BY <1>1 DEF EndInv, KnownBytes
    <3> QED BY <1>1, <3>1, OtherWire, ElemsTail
  <2>3. \A o \in ops'[d] : o.ci \in 0 .. Len(calls[d])
    BY <1>1, <1>2 DEF EndInv, KnownBytes
  <2>4. BytesTo(Len(calls[e])) \subseteq BytesTo(Len(calls'[e]))
    BY <1>1, CallsGrow, BytesGrow
  <2>5. open[d] => cmd_hdr[d] \in BytesTo(Len(calls[e])) \/ (queue[d] # <<>> /\ Head(queue[d]).fn = "bind")
    BY <1>1 DEF EndInv, KnownBytes
  <2>6. open'[d] = open[d] /\ cmd_hdr'[d] = cmd_hdr[d] /\ queue'[d] = queue[d]
    BY <1>2
  <2> QED BY <1>1, <2>1, <2>2, <2>3, <2>4, <2>5, <2>6 DEF KnownBytes
<1>4. ReadsOnce(d)' /\ WritesOnce(d)' /\ Silent(d)'
  BY <1>1, <1>2 DEF EndInv, ReadsOnce, WritesOnce, Silent
<1>5. Framed(d)' /\ Current(d)'
  BY <1>1, <1>2 DEF EndInv, Framed, Current
<1>6. OwnedInv(d)'
  BY <1>1, <1>2 DEF EndInv, OwnedInv
<1> QED BY <1>3, <1>4, <1>5, <1>6 DEF EndInv
-----------------------------------------------------------------------------
(* The types, in parts, and the steps that disturb each.                    *)

QueueType == queue \in [Ends -> Seq(Fos)]
UserTypes ==
  port_cb \in [Ends -> BOOLEAN] /\ finished \in [Ends -> Nat] /\ errors \in [Ends -> Nat]
SockTypes == open \in [Ends -> BOOLEAN] /\ sock_cb \in [Ends -> SUBSET {"recv", "send", "err"}]
RecvTypes ==
  /\ flag \in [Ends -> 0 .. 2]
  /\ has_recved \in [Ends -> Nat]
  /\ cmd_hdr \in [Ends -> Bytes \cup {None}]
  /\ cmd_body \in [Ends -> Seq(Bytes) \cup {None}]
  /\ body_len \in [Ends -> Nat]
  /\ delivered \in [Ends -> Seq([hdr : Bytes, body : Seq(Bytes)])]
SendTypes ==
  /\ cur_send \in [Ends -> 0 .. MaxSends]
  /\ cmd_info_list \in [Ends -> Seq(1 .. MaxSends)]
  /\ heap \in [Ends -> SUBSET (1 .. MaxSends)]
OpsType == ops \in [Ends -> SUBSET Operations]
NetTypes ==
  /\ wire \in [Ends -> Seq(Bytes)] /\ \A e \in Ends : Len(wire[e]) <= WireMax
  /\ link \in BOOLEAN
CallsType == calls \in [Ends -> Calls]

LEMMA TypeParts ==
  /\ TypeOK <=> /\ QueueType /\ UserTypes /\ SockTypes /\ RecvTypes
                /\ SendTypes /\ OpsType /\ NetTypes /\ CallsType
  /\ TypeOK' <=> /\ QueueType' /\ UserTypes' /\ SockTypes' /\ RecvTypes'
                 /\ SendTypes' /\ OpsType' /\ NetTypes' /\ CallsType'
BY DEF TypeOK, QueueType, UserTypes, SockTypes, RecvTypes, SendTypes, OpsType, NetTypes,
       CallsType, Calls

LEMMA TypesSame ==
  ASSUME TypeOK
  PROVE  /\ UNCHANGED queue => QueueType'
         /\ UNCHANGED userVars => UserTypes'
         /\ UNCHANGED sockVars => SockTypes'
         /\ UNCHANGED recvVars => RecvTypes'
         /\ UNCHANGED sendVars => SendTypes'
         /\ UNCHANGED ops => OpsType'
         /\ UNCHANGED netVars => NetTypes'
         /\ UNCHANGED calls => CallsType'
<1>1. /\ QueueType /\ UserTypes /\ SockTypes /\ RecvTypes
      /\ SendTypes /\ OpsType /\ NetTypes /\ CallsType
  BY TypeParts
<1>2. /\ UNCHANGED queue => QueueType'
      /\ UNCHANGED userVars => UserTypes'
      /\ UNCHANGED sockVars => SockTypes'
      /\ UNCHANGED ops => OpsType'
      /\ UNCHANGED netVars => NetTypes'
      /\ UNCHANGED calls => CallsType'
  BY <1>1 DEF QueueType, UserTypes, SockTypes, OpsType, NetTypes, CallsType,
              userVars, sockVars, netVars
<1>3. UNCHANGED recvVars => RecvTypes'
  BY <1>1 DEF RecvTypes, recvVars
<1>4. UNCHANGED sendVars => SendTypes'
  BY <1>1 DEF SendTypes, sendVars
<1> QED BY <1>2, <1>3, <1>4

LEMMA PutType ==
  ASSUME NEW S, NEW f \in [Ends -> S], NEW e \in Ends, NEW v \in S
  PROVE  Set(f, e, v) \in [Ends -> S] /\ Set(f, e, v)[e] = v
BY DEF Set

LEMMA FoType ==
  ASSUME NEW fn \in {"bind", "send", "sent", "recv", "error", "clear"}, NEW arg \in Nat
  PROVE  Fo(fn, arg) \in Fos /\ Fo(fn, arg).fn = fn /\ Fo(fn, arg).arg = arg
BY DEF Fo, Fos

\* One more function object at an end.
LEMMA QueuePost ==
  ASSUME TypeOK, NEW e \in Ends, NEW fo \in Fos, queue' = Set(queue, e, Append(queue[e], fo))
  PROVE  /\ QueueType' /\ queue'[e] = Append(queue[e], fo)
         /\ Elems(queue'[e]) = Elems(queue[e]) \cup {fo}
         /\ queue[e] # <<>> => queue'[e] # <<>> /\ Head(queue'[e]) = Head(queue[e])
<1>1. queue \in [Ends -> Seq(Fos)] /\ queue[e] \in Seq(Fos)
  BY DEF TypeOK
<1>2. queue'[e] = Append(queue[e], fo)
  BY <1>1 DEF Set
<1>3. /\ Elems(queue'[e]) = Elems(queue[e]) \cup {fo} /\ Append(queue[e], fo) \in Seq(Fos)
      /\ queue[e] # <<>> => queue'[e] # <<>> /\ Head(queue'[e]) = Head(queue[e])
  BY <1>1, <1>2, ElemsAppend
<1>4. QueueType'
  BY <1>1, <1>3 DEF QueueType, Set
<1> QED BY <1>2, <1>3, <1>4

\* The strand takes one.
LEMMA QueuePop ==
  ASSUME TypeOK, NEW e \in Ends, queue[e] # <<>>, Pop(e)
  PROVE  /\ QueueType' /\ queue'[e] = Tail(queue[e])
         /\ Elems(queue'[e]) \subseteq Elems(queue[e])
<1>1. queue \in [Ends -> Seq(Fos)] /\ queue[e] \in Seq(Fos)
  BY DEF TypeOK
<1>2. queue'[e] = Tail(queue[e]) /\ queue' = Set(queue, e, Tail(queue[e]))
  BY <1>1 DEF Set, Pop
<1>3. Elems(queue'[e]) \subseteq Elems(queue[e]) /\ Tail(queue[e]) \in Seq(Fos)
  BY <1>1, <1>2, ElemsTail
<1>4. QueueType'
  BY <1>1, <1>2, <1>3 DEF QueueType, Set
<1> QED BY <1>2, <1>3, <1>4

LEMMA HeadType ==
  ASSUME TypeOK, NEW e \in Ends, queue[e] # <<>>
  PROVE  /\ queue[e] \in Seq(Fos) /\ Head(queue[e]) \in Fos /\ Head(queue[e]) \in Elems(queue[e])
         /\ Arg(e) \in Nat /\ Tail(queue[e]) \in Seq(Fos)
<1>1. queue[e] \in Seq(Fos)
  BY DEF TypeOK
<1>2. /\ Head(queue[e]) \in Fos /\ Head(queue[e]) \in Elems(queue[e])
      /\ Tail(queue[e]) \in Seq(Fos)
  BY <1>1, ElemsTail
<1> QED BY <1>1, <1>2 DEF Arg, Fos

\* An end as the lemmas about owners take it.
LEMMA OwnersAt ==
  ASSUME TypeOK, NEW e \in Ends, OwnedInv(e)
  PROVE  Owners(queue[e], cmd_info_list[e], cur_send[e], heap[e], calls[e])
BY DEF TypeOK, OwnedInv, Owners, Calls
-----------------------------------------------------------------------------
(* Calls from above.                                                       *)

\* What a function object that is posted disturbs, if it is of a kind that has
\* no part in reading or writing.
LEMMA PostKeeps ==
  ASSUME TypeOK, NEW e \in Ends, EndInv(e),
         NEW fo \in Fos, fo.fn \notin {"bind", "recv", "sent"},
         queue' = queue \/ queue' = Set(queue, e, Append(queue[e], fo)),
         UNCHANGED <<recvVars, sockVars, port_cb, wire, ops, cur_send>>,
         Len(calls'[e]) \in Nat, Len(calls[e]) <= Len(calls'[e]), Len(calls'[e]) <= MaxSends,
         calls'[Peer(e)] = calls[Peer(e)]
  PROVE  /\ QueueType' /\ KnownBytes(e)' /\ ReadsOnce(e)' /\ WritesOnce(e)' /\ Framed(e)'
         /\ Current(e)' /\ Silent(e)'
<1> USE DEF recvVars, sockVars
<1>1. queue \in [Ends -> Seq(Fos)] /\ queue[e] \in Seq(Fos)
  BY DEF TypeOK
<1>2. /\ QueueType'
      /\ queue'[e] = queue[e] \/ queue'[e] = Append(queue[e], fo)
      /\ Elems(queue'[e]) \subseteq Elems(queue[e]) \cup {fo}
      /\ queue[e] # <<>> => queue'[e] # <<>> /\ Head(queue'[e]) = Head(queue[e])
  <2>1. CASE queue' = queue
    BY <1>1, <2>1 DEF QueueType
  <2>2. CASE queue' = Set(queue, e, Append(queue[e], fo))
    BY <2>2, QueuePost
  <2> QED BY <2>1, <2>2
<1>3. KnownBytes(e)'
  <2>1. /\ Len(calls[e]) \in Nat
        /\ BytesTo(Len(calls[e])) \subseteq BytesTo(Len(calls'[e]))
        /\ 0 .. Len(calls[e]) \subseteq 0 .. Len(calls'[e])
    <3>1. Len(calls[e]) \in Nat
      BY LenProperties DEF TypeOK
    <3> QED BY <3>1, BytesGrow
  <2>2. wire'[e] \in Seq(BytesTo(Len(calls'[e])))
    <3>1. wire[e] \in Seq(BytesTo(Len(calls[e]))) /\ wire'[e] = wire[e]
      BY DEF EndInv, KnownBytes
    <3> QED BY <2>1, <3>1, SeqMonotonic
  <2>3. \A o \in ops'[e] : o.ci \in 0 .. Len(calls'[e])
    BY <2>1 DEF EndInv, KnownBytes
  <2>4. open[e] => \/ cmd_hdr[e] \in BytesTo(Len(calls[Peer(e)]))
                   \/ queue[e] # <<>> /\ Head(queue[e]).fn = "bind"
    BY DEF EndInv, KnownBytes
  <2>5. open'[e] => \/ cmd_hdr'[e] \in BytesTo(Len(calls'[Peer(e)]))
                    \/ queue'[e] # <<>> /\ Head(queue'[e]).fn = "bind"
    BY <1>2, <2>4
  <2> QED BY <2>2, <2>3, <2>5 DEF KnownBytes
<1>4. ReadsOnce(e)' /\ WritesOnce(e)'
  <2>1. Single(queue[e], ReadOps(ops[e]), {"bind", "recv"}) /\ Single(queue[e], WriteOps(ops[e]), {"sent"})
    BY DEF EndInv, ReadsOnce, WritesOnce
  <2>2. Single(Append(queue[e], fo), ReadOps(ops[e]), {"bind", "recv"})
    BY <1>1, <2>1, SingleAppend
  <2>3. Single(Append(queue[e], fo), WriteOps(ops[e]), {"sent"})
    BY <1>1, <2>1, SingleAppend
  <2> QED BY <1>2, <2>1, <2>2, <2>3 DEF ReadsOnce, WritesOnce
<1>5. Framed(e)'
  <2>1. flag[e] = 2 => \A f \in Elems(queue'[e]) : f.fn = "recv" => has_recved[e] + f.arg <= body_len[e]
    BY <1>2 DEF EndInv, Framed
  <2>2. flag[e] # 1 => Without(queue'[e], {"bind"})
    BY <1>2 DEF EndInv, Framed, Without
  <2> QED BY <2>1, <2>2 DEF EndInv, Framed
<1>6. Current(e)'
  <2>1. Without(queue[e], {"sent"}) => Without(queue'[e], {"sent"})
    BY <1>2 DEF Without
  <2> QED BY <2>1 DEF EndInv, Current
<1>7. Silent(e)'
  BY DEF EndInv, Silent
<1> QED BY <1>2, <1>3, <1>4, <1>5, <1>6, <1>7

LEMMA SendMessageInv ==
  ASSUME TypeOK, NEW e \in Ends, EndInv(e), SendMessage(e)
  PROVE  TypeOK' /\ EndInv(e)'
<1> DEFINE n == Len(calls[e]) + 1
<1>1. PICK size \in Sizes, magic \in Magics, ok \in {TRUE, ~MayRefuse} :
        /\ calls' = Set(calls, e, Append(calls[e], [size |-> size, magic |-> magic, ok |-> ok]))
        /\ queue' = IF ok THEN Set(queue, e, Append(queue[e], Fo("send", n))) ELSE queue
  BY DEF SendMessage
<1>2. /\ Len(calls[e]) < MaxSends /\ heap' = Set(heap, e, heap[e] \cup {n})
      /\ UNCHANGED <<recvVars, cur_send, cmd_info_list, sockVars, userVars, netVars, ops>>
  BY DEF SendMessage
<1> DEFINE r == [size |-> size, magic |-> magic, ok |-> ok]
<1>3. ok \in BOOLEAN /\ r \in [size : Sizes, magic : Magics, ok : BOOLEAN]
  BY ParameterAssumption
<1>4. calls \in [Ends -> Calls] /\ Len(calls[e]) \in Nat /\ n \in 1 .. MaxSends
  <2>1. calls \in [Ends -> Calls]
    BY DEF TypeOK, Calls
  <2>2. Len(calls[e]) \in Nat
    BY <2>1, LenProperties DEF Calls
  <2> QED BY <1>2, <2>1, <2>2, Bounds
<1> HIDE DEF n, r
<1>5. /\ calls'[e] = Append(calls[e], r) /\ Append(calls[e], r) \in Calls
      /\ Len(calls'[e]) = n /\ calls'[Peer(e)] = calls[Peer(e)] /\ CallsType'
  <2>1. Append(calls[e], r) \in Calls /\ Len(Append(calls[e], r)) = Len(calls[e]) + 1
    <3>1. calls[e] \in Seq([size : Sizes, magic : Magics, ok : BOOLEAN])
      BY <1>4 DEF Calls
    <3> QED BY <1>3, <3>1, AppendProperties DEF Calls
  <2>2. calls'[e] = Append(calls[e], r) /\ calls'[Peer(e)] = calls[Peer(e)]
    BY <1>1, <1>4, EndFacts DEF Set, r
  <2>3. CallsType'
    BY <1>1, <1>4, <2>1 DEF CallsType, Set, r
  <2> QED BY <2>1, <2>2, <2>3 DEF n
<1>6. Fo("send", n) \in Fos /\ Fo("send", n).fn = "send" /\ Fo("send", n).arg = n
  BY <1>4, FoType
<1>7. queue' = queue \/ queue' = Set(queue, e, Append(queue[e], Fo("send", n)))
  BY <1>1
<1>8. UNCHANGED <<recvVars, sockVars, port_cb, wire, ops, cur_send>>
  BY <1>2 DEF userVars, netVars
<1>9. /\ QueueType' /\ KnownBytes(e)' /\ ReadsOnce(e)' /\ WritesOnce(e)' /\ Framed(e)'
      /\ Current(e)' /\ Silent(e)'
  <2>1. /\ Fo("send", n).fn \notin {"bind", "recv", "sent"}
        /\ Len(calls'[e]) \in Nat /\ Len(calls[e]) <= Len(calls'[e]) /\ Len(calls'[e]) <= MaxSends
    BY <1>4, <1>5, <1>6, Bounds DEF n
  <2> QED BY <1>5, <1>6, <1>7, <1>8, <2>1, PostKeeps
<1>10. OwnedInv(e)'
  <2>1. queue'[e] = IF ok THEN Append(queue[e], Fo("send", n)) ELSE queue[e]
    BY <1>1 DEF TypeOK, Set
  <2>2. heap'[e] = heap[e] \cup {n} /\ cmd_info_list'[e] = cmd_info_list[e] /\ cur_send'[e] = cur_send[e]
    BY <1>2 DEF TypeOK, Set
  <2>3. HeldOnce(IF ok THEN Append(queue[e], Fo("send", n)) ELSE queue[e], cmd_info_list[e],
                 cur_send[e], heap[e] \cup {n}, Append(calls[e], r))
    <3>1. Owners(queue[e], cmd_info_list[e], cur_send[e], heap[e], calls[e])
      BY OwnersAt DEF EndInv
    <3>2. n \in Nat /\ n = Len(calls[e]) + 1
      BY <1>4 DEF n
    <3>3. HeldOnce(IF ok THEN Append(queue[e], Fo("send", n)) ELSE queue[e], cmd_info_list[e],
                   cur_send[e], heap[e] \cup {n},
                   Append(calls[e], [size |-> size, magic |-> magic, ok |-> ok]))
      BY <1>3, <3>1, <3>2, OwnersCall, Zenon
    <3> QED BY <3>3 DEF r
  <2>4. \A fo \in Elems(queue'[e]) : fo.fn = "send" => fo.arg # 0
    <3>1. Elems(queue'[e]) \subseteq Elems(queue[e]) \cup {Fo("send", n)}
      BY <2>1, ElemsAppend, <1>6 DEF TypeOK
    <3> QED BY <1>4, <1>6, <3>1 DEF EndInv, OwnedInv
  <2> QED BY <1>5, <2>1, <2>2, <2>3, <2>4 DEF OwnedInv
<1>11. TypeOK'
  <2>1. SendTypes'
    BY <1>2, <1>4 DEF TypeOK, SendTypes, Set
  <2> QED BY <1>2, <1>5, <1>9, <2>1, TypesSame, TypeParts
<1> QED BY <1>9, <1>10, <1>11 DEF EndInv

LEMMA ClearInv ==
  ASSUME TypeOK, NEW e \in Ends, EndInv(e), Clear(e)
  PROVE  TypeOK' /\ EndInv(e)'
<1> DEFINE fo == Fo("clear", 0)
<1>1. queue' = queue \/ queue' = Set(queue, e, Append(queue[e], fo))
  BY DEF Clear
<1>2. UNCHANGED <<recvVars, sendVars, sockVars, userVars, netVars, ops, calls>>
  BY DEF Clear
<1>3. fo \in Fos /\ fo.fn = "clear"
  BY FoType
<1> HIDE DEF fo
<1>4. Len(calls[e]) \in Nat /\ Len(calls[e]) <= MaxSends
  BY LenProperties DEF TypeOK, EndInv, KnownBytes
<1>5. /\ QueueType' /\ KnownBytes(e)' /\ ReadsOnce(e)' /\ WritesOnce(e)' /\ Framed(e)'
      /\ Current(e)' /\ Silent(e)'
  <2>1. /\ UNCHANGED <<recvVars, sockVars, port_cb, wire, ops, cur_send>> /\ calls' = calls
        /\ fo.fn \notin {"bind", "recv", "sent"} /\ Len(calls'[e]) \in Nat
        /\ Len(calls[e]) <= Len(calls'[e]) /\ Len(calls'[e]) <= MaxSends
    BY <1>2, <1>3, <1>4 DEF userVars, netVars, sendVars
  <2> QED BY <1>1, <1>3, <2>1, PostKeeps
<1>6. OwnedInv(e)'
  <2>1. queue'[e] = queue[e] \/ queue'[e] = Append(queue[e], fo)
    BY <1>1 DEF TypeOK, Set
  <2>2. HeldOnce(queue'[e], cmd_info_list[e], cur_send[e], heap[e], calls[e])
    <3>1. Owners(queue[e], cmd_info_list[e], cur_send[e], heap[e], calls[e])
      BY OwnersAt DEF EndInv
    <3>2. HeldOnce(Append(queue[e], fo), cmd_info_list[e], cur_send[e], heap[e], calls[e])
      BY <1>3, <3>1, OwnersPost
    <3> QED BY <2>1, <3>1, <3>2 DEF Owners
  <2>3. Elems(queue'[e]) \subseteq Elems(queue[e]) \cup {fo}
    <3>1. queue[e] \in Seq(Fos)
      BY DEF TypeOK
    <3>2. Elems(Append(queue[e], fo)) = Elems(queue[e]) \cup {fo}
      BY <1>3, <3>1, ElemsAppend
    <3> QED BY <2>1, <3>2
  <2> QED BY <1>2, <1>3, <2>2, <2>3 DEF EndInv, OwnedInv, sendVars
<1>7. TypeOK'
  BY <1>2, <1>5, TypesSame, TypeParts
<1> QED BY <1>5, <1>6, <1>7 DEF EndInv
-----------------------------------------------------------------------------
(* What the strand runs: receiving.                                        *)

LEMMA OpType ==
  ASSUME NEW kind \in {"hdr", "body", "write"}, NEW ci \in 0 .. MaxSends,
         NEW off \in Nat, NEW len \in Nat
  PROVE  /\ Op(kind, ci, off, len) \in Operations
         /\ Op(kind, ci, off, len).kind = kind /\ Op(kind, ci, off, len).ci = ci
         /\ Op(kind, ci, off, len).off = off /\ Op(kind, ci, off, len).len = len
         /\ Op(kind, ci, off, len).got = 0 /\ Op(kind, ci, off, len).pc = "io"
BY DEF Op, Operations

LEMMA StartType ==
  ASSUME TypeOK, NEW e \in Ends, NEW o \in Operations, Start(e, o)
  PROVE  OpsType' /\ ops'[e] = ops[e] \cup {o}
BY DEF TypeOK, Start, Set, OpsType

\* The owners when the strand takes anything but a cmd_info.
LEMMA PopOwned ==
  ASSUME TypeOK, NEW e \in Ends, EndInv(e), queue[e] # <<>>, Head(queue[e]).fn # "send",
         queue'[e] = Tail(queue[e]), UNCHANGED sendVars, UNCHANGED calls
  PROVE  OwnedInv(e)'
<1>1. Owners(queue[e], cmd_info_list[e], cur_send[e], heap[e], calls[e])
  BY OwnersAt DEF EndInv
<1>2. HeldOnce(Tail(queue[e]), cmd_info_list[e], cur_send[e], heap[e], calls[e])
  BY <1>1, OwnersPop
<1>3. Elems(Tail(queue[e])) \subseteq Elems(queue[e])
  BY ElemsTail DEF TypeOK
<1> QED BY <1>2, <1>3 DEF EndInv, OwnedInv, sendVars

\* The writes when the strand takes anything, and no write starts.
LEMMA PopWrites ==
  ASSUME TypeOK, NEW e \in Ends, EndInv(e), queue[e] # <<>>, queue'[e] = Tail(queue[e]),
         WriteOps(ops'[e]) \subseteq WriteOps(ops[e]),
         open'[e] => open[e] /\ cur_send'[e] = cur_send[e]
  PROVE  WritesOnce(e)' /\ Current(e)'
<1>1. queue[e] \in Seq(Fos) /\ Elems(Tail(queue[e])) \subseteq Elems(queue[e])
  BY ElemsTail DEF TypeOK
<1>2. Single(queue[e], WriteOps(ops[e]), {"sent"})
  BY DEF EndInv, WritesOnce
<1>3. Single(Tail(queue[e]), WriteOps(ops[e]), {"sent"})
  BY <1>1, <1>2, SingleTail
<1>4. Single(queue'[e], WriteOps(ops'[e]), {"sent"})
  BY <1>3, SingleOps
<1>5. Without(queue[e], {"sent"}) => Without(queue'[e], {"sent"})
  BY <1>1 DEF Without
<1>6. Current(e)'
  BY <1>5 DEF EndInv, Current
<1> QED BY <1>4, <1>6 DEF WritesOnce

\* A read starts in the place of the function object that asks for it.
LEMMA StartRead ==
  ASSUME TypeOK, NEW e \in Ends, EndInv(e), queue[e] # <<>>,
         Head(queue[e]).fn \in {"bind", "recv"}, queue'[e] = Tail(queue[e]),
         NEW o, o.kind # "write", o.pc = "io", ops'[e] = ops[e] \cup {o}
  PROVE  /\ ReadsOnce(e)' /\ Without(queue'[e], {"bind", "recv"})
         /\ ReadOps(ops'[e]) = {o} /\ WriteOps(ops'[e]) = WriteOps(ops[e])
<1>1. queue[e] \in Seq(Fos) /\ Single(queue[e], ReadOps(ops[e]), {"bind", "recv"})
  BY DEF TypeOK, EndInv, ReadsOnce
<1>2. ReadOps(ops[e]) = {} /\ Without(Tail(queue[e]), {"bind", "recv"})
      /\ Single(Tail(queue[e]), ReadOps(ops[e]), {"bind", "recv"})
  BY <1>1, SingleTail
<1>3. ReadOps(ops'[e]) = {o} /\ WriteOps(ops'[e]) = WriteOps(ops[e])
  BY <1>2 DEF ReadOps, WriteOps
<1>4. Single(Tail(queue[e]), {o}, {"bind", "recv"})
  BY <1>2, SingleOps
<1> QED BY <1>2, <1>3, <1>4 DEF ReadsOnce

\* The bytes that are known, when none are added.
LEMMA KnownSame ==
  ASSUME TypeOK, NEW e \in Ends, EndInv(e), UNCHANGED <<calls, wire>>,
         \A o \in ops'[e] : o.ci \in 0 .. Len(calls[e]),
         open'[e] => open[e] /\ \/ cmd_hdr'[e] \in BytesTo(Len(calls[Peer(e)]))
                                \/ /\ cmd_hdr'[e] = cmd_hdr[e]
                                   /\ queue[e] # <<>> =>
                                        /\ Head(queue[e]).fn = "bind" =>
                                             queue'[e] # <<>> /\ Head(queue'[e]).fn = "bind"
  PROVE  KnownBytes(e)'
BY DEF EndInv, KnownBytes

LEMMA BindInv ==
  ASSUME TypeOK, NEW e \in Ends, EndInv(e), BindSocketStrand(e)
  PROVE  TypeOK' /\ EndInv(e)'
<1> DEFINE o == Op("hdr", 0, 0, 1)
<1>1. queue[e] # <<>> /\ Head(queue[e]).fn = "bind" /\ Pop(e)
  BY DEF BindSocketStrand, Runs
<1>2. /\ sock_cb' = Set(sock_cb, e, {"recv", "send", "err"})
      /\ cmd_hdr' = Set(cmd_hdr, e, Zero)
      /\ flag' = Set(flag, e, 1)
      /\ Start(e, o)
      /\ UNCHANGED <<has_recved, cmd_body, body_len, delivered, sendVars, open, userVars,
                     netVars, calls>>
  BY DEF BindSocketStrand, ReadHeader
<1>3. /\ o \in Operations /\ o.kind = "hdr" /\ o.ci = 0 /\ o.len = 1 /\ o.got = 0 /\ o.pc = "io"
  BY OpType, Bounds
<1> HIDE DEF o
<1>4. QueueType' /\ queue'[e] = Tail(queue[e]) /\ Elems(queue'[e]) \subseteq Elems(queue[e])
  BY <1>1, QueuePop
<1>5. OpsType' /\ ops'[e] = ops[e] \cup {o}
  BY <1>2, <1>3, StartType
<1>6. /\ Zero \in Bytes /\ \A n \in Nat : Zero \in BytesTo(n)
      /\ flag'[e] = 1 /\ cmd_hdr'[e] = Zero
  BY <1>2, Bounds DEF Zero, Bytes, BytesTo, TypeOK, Set
<1>7. TypeOK'
  <2>1. SockTypes'
    BY <1>2 DEF TypeOK, SockTypes, Set
  <2>2. flag' \in [Ends -> 0 .. 2] /\ cmd_hdr' \in [Ends -> Bytes \cup {None}]
    <3>1. flag \in [Ends -> 0 .. 2] /\ cmd_hdr \in [Ends -> Bytes \cup {None}]
      BY DEF TypeOK
    <3>2. Zero \in Bytes \cup {None} /\ 1 \in 0 .. 2
      BY <1>6
    <3>3. Set(flag, e, 1) \in [Ends -> 0 .. 2]
      BY <3>1, <3>2, PutType
    <3>4. Set(cmd_hdr, e, Zero) \in [Ends -> Bytes \cup {None}]
      BY <3>1, <3>2, PutType
    <3> QED BY <1>2, <3>3, <3>4
  <2>3. RecvTypes'
    BY <1>2, <2>2 DEF TypeOK, RecvTypes
  <2> QED BY <1>2, <1>4, <1>5, <2>1, <2>3, TypesSame, TypeParts
<1>8. KnownBytes(e)'
  <2>1. /\ Len(calls[Peer(e)]) \in Nat /\ Len(calls[e]) \in Nat
    BY LenProperties, EndFacts DEF TypeOK
  <2>2. \A p \in ops'[e] : p.ci \in 0 .. Len(calls[e])
    BY <1>3, <1>5, <2>1 DEF EndInv, KnownBytes
  <2> QED BY <1>2, <1>6, <2>1, <2>2, KnownSame DEF netVars
<1>9. /\ ReadsOnce(e)' /\ Without(queue'[e], {"bind", "recv"})
      /\ ReadOps(ops'[e]) = {o} /\ WriteOps(ops'[e]) = WriteOps(ops[e])
  BY <1>1, <1>3, <1>4, <1>5, StartRead
<1>10. WritesOnce(e)' /\ Current(e)'
  BY <1>1, <1>2, <1>4, <1>9, PopWrites DEF sendVars
<1>11. Framed(e)'
  <2>1. has_recved[e] = 0
    <3>1. flag[e] = 1
      BY <1>1, HeadType DEF EndInv, Framed, Without
    <3> QED BY <3>1 DEF EndInv, Framed
  <2>2. \A p \in ops'[e] : p.pc = "io" => p.got < p.len
    BY <1>3, <1>5 DEF EndInv, Framed
  <2> QED BY <1>2, <1>3, <1>6, <1>9, <2>1, <2>2 DEF Framed, Piece
<1>12. Silent(e)' /\ OwnedInv(e)'
  BY <1>1, <1>2, <1>4, PopOwned DEF EndInv, Silent, userVars
<1> QED BY <1>7, <1>8, <1>9, <1>10, <1>11, <1>12 DEF EndInv

LEMMA LenCalls ==
  ASSUME TypeOK, NEW e \in Ends
  PROVE  calls[e] \in Calls /\ Len(calls[e]) \in Nat
BY LenProperties DEF TypeOK, Calls

\* The header that has come in is that of a message that was sent.
LEMMA HeaderKnown ==
  ASSUME TypeOK, NEW e \in Ends, EndInv(e), Len(calls[Peer(e)]) <= MaxSends,
         open[e], queue[e] # <<>>, Head(queue[e]).fn = "recv"
  PROVE  /\ cmd_hdr[e] \in Bytes /\ cmd_hdr[e] \in BytesTo(Len(calls[Peer(e)]))
         /\ HeaderGood(e) => BodyLen(e) \in Nat
<1>1. Peer(e) \in Ends
  BY EndFacts
<1>2. calls[Peer(e)] \in Calls /\ Len(calls[Peer(e)]) \in Nat
  BY <1>1, LenCalls
<1>3. cmd_hdr[e] \in BytesTo(Len(calls[Peer(e)]))
  BY DEF EndInv, KnownBytes
<1>4. cmd_hdr[e] \in Bytes
  <2>1. BytesTo(Len(calls[Peer(e)])) \subseteq BytesTo(MaxSends) /\ BytesTo(MaxSends) = Bytes
    BY <1>2, Bounds, BytesGrow DEF BytesTo, Bytes
  <2> QED BY <1>3, <2>1
<1>5. ASSUME HeaderGood(e) PROVE BodyLen(e) \in Nat
  <2>1. cmd_hdr[e].ci \in 1 .. Len(calls[Peer(e)])
    BY <1>2, <1>3, <1>5 DEF HeaderGood, BytesTo
  <2>2. calls[Peer(e)][cmd_hdr[e].ci] \in [size : Sizes, magic : Magics, ok : BOOLEAN]
    BY <1>2, <2>1, ElementOfSeq DEF Calls
  <2> QED BY <2>2, Bounds DEF BodyLen
<1> QED BY <1>3, <1>4, <1>5

LEMMA PlainType ==
  ASSUME NEW len \in Nat, NEW body, \A i \in 1 .. len : body[i] \in Bytes
  PROVE  [i \in 1 .. len |-> Codec(body[i])] \in Seq(Bytes)
<1>1. \A b \in Bytes : Codec(b) \in Bytes
  BY DEF Bytes, Codec
<1>2. [i \in 1 .. len |-> Codec(body[i])] \in [1 .. len -> Bytes]
  BY <1>1
<1> QED BY <1>2, SeqDef

\* The conjuncts that receiving leaves alone.
LEMMA RecvKeeps ==
  ASSUME TypeOK, NEW e \in Ends, EndInv(e), queue[e] # <<>>, Head(queue[e]).fn = "recv",
         queue'[e] = Tail(queue[e]), UNCHANGED <<sendVars, sockVars, userVars, netVars, calls>>
  PROVE  OwnedInv(e)' /\ Silent(e)'
<1>1. OwnedInv(e)'
  BY PopOwned
<1> QED BY <1>1 DEF EndInv, Silent, sockVars, userVars

LEMMA FinishInv ==
  ASSUME TypeOK, NEW e \in Ends, EndInv(e), Len(calls[Peer(e)]) <= MaxSends, open[e],
         queue[e] # <<>>, Head(queue[e]).fn = "recv", Pop(e),
         NEW len \in Nat, NEW body, \A i \in 1 .. len : body[i] \in Bytes,
         FinishCommand(e, body, len),
         has_recved' = [has_recved EXCEPT ![e] = 0],
         UNCHANGED <<sendVars, sockVars, userVars, netVars, calls>>
  PROVE  TypeOK' /\ EndInv(e)'
<1> DEFINE o == Op("hdr", 0, 0, 1)
           plain == [i \in 1 .. len |-> Codec(body[i])]
           d == [hdr |-> cmd_hdr[e], body |-> plain]
<1>1. /\ delivered' = IF port_cb[e] THEN Set(delivered, e, Append(delivered[e], d)) ELSE delivered
      /\ cmd_body' = Set(cmd_body, e, None)
      /\ body_len' = Set(body_len, e, 0)
      /\ flag' = Set(flag, e, 1)
      /\ cmd_hdr' = Set(cmd_hdr, e, Zero)
      /\ Start(e, o)
  BY DEF FinishCommand, ReadHeader
<1>2. plain \in Seq(Bytes)
  BY PlainType
<1> HIDE DEF plain
<1>3. d \in [hdr : Bytes, body : Seq(Bytes)]
  BY <1>2, HeaderKnown
<1>4. o \in Operations /\ o.kind = "hdr" /\ o.ci = 0 /\ o.len = 1 /\ o.got = 0 /\ o.pc = "io"
  BY OpType, Bounds
<1> HIDE DEF o, d
<1>5. QueueType' /\ queue'[e] = Tail(queue[e]) /\ Elems(queue'[e]) \subseteq Elems(queue[e])
  BY QueuePop
<1>6. OpsType' /\ ops'[e] = ops[e] \cup {o}
  BY <1>1, <1>4, StartType
<1>7. Zero \in Bytes /\ \A n \in Nat : Zero \in BytesTo(n)
  BY Bounds DEF Zero, Bytes, BytesTo
<1>8. /\ flag \in [Ends -> 0 .. 2] /\ has_recved \in [Ends -> Nat] /\ body_len \in [Ends -> Nat]
      /\ cmd_hdr \in [Ends -> Bytes \cup {None}]
      /\ cmd_body \in [Ends -> Seq(Bytes) \cup {None}]
      /\ delivered \in [Ends -> Seq([hdr : Bytes, body : Seq(Bytes)])]
  BY DEF TypeOK
<1>9. flag'[e] = 1 /\ cmd_hdr'[e] = Zero /\ has_recved'[e] = 0
  BY <1>1, <1>8 DEF Set
<1>10. TypeOK'
  <2>1. Set(flag, e, 1) \in [Ends -> 0 .. 2] /\ Set(body_len, e, 0) \in [Ends -> Nat]
    <3>1. 1 \in 0 .. 2 /\ 0 \in Nat
      OBVIOUS
    <3>2. Set(flag, e, 1) \in [Ends -> 0 .. 2]
      BY <1>8, <3>1, PutType
    <3>3. Set(body_len, e, 0) \in [Ends -> Nat]
      BY <1>8, <3>1, PutType
    <3> QED BY <3>2, <3>3
  <2>2. has_recved' \in [Ends -> Nat]
    BY <1>8
  <2>3. Set(cmd_hdr, e, Zero) \in [Ends -> Bytes \cup {None}]
    <3>1. Zero \in Bytes \cup {None}
      BY <1>7
    <3> QED BY <1>8, <3>1, PutType
  <2>4. Set(cmd_body, e, None) \in [Ends -> Seq(Bytes) \cup {None}]
    <3>1. None \in Seq(Bytes) \cup {None}
      OBVIOUS
    <3> QED BY <1>8, <3>1, PutType
  <2>5. delivered' \in [Ends -> Seq([hdr : Bytes, body : Seq(Bytes)])]
    <3>1. Append(delivered[e], d) \in Seq([hdr : Bytes, body : Seq(Bytes)])
      BY <1>3, <1>8, AppendProperties
    <3>2. Set(delivered, e, Append(delivered[e], d))
            \in [Ends -> Seq([hdr : Bytes, body : Seq(Bytes)])]
      BY <1>8, <3>1, PutType
    <3> QED BY <1>1, <1>8, <3>2
  <2>6. RecvTypes'
    BY <1>1, <2>1, <2>2, <2>3, <2>4, <2>5 DEF RecvTypes
  <2> QED BY <1>5, <1>6, <2>6, TypesSame, TypeParts
<1>11. KnownBytes(e)'
  <2>1. Len(calls[Peer(e)]) \in Nat /\ Len(calls[e]) \in Nat
    BY LenCalls, EndFacts
  <2>2. \A p \in ops'[e] : p.ci \in 0 .. Len(calls[e])
    BY <1>4, <1>6, <2>1 DEF EndInv, KnownBytes
  <2> QED BY <1>7, <1>9, <2>1, <2>2, KnownSame DEF netVars, sockVars
<1>12. /\ ReadsOnce(e)' /\ Without(queue'[e], {"bind", "recv"})
       /\ ReadOps(ops'[e]) = {o} /\ WriteOps(ops'[e]) = WriteOps(ops[e])
  BY <1>4, <1>5, <1>6, StartRead
<1>13. WritesOnce(e)' /\ Current(e)'
  BY <1>5, <1>12, PopWrites DEF sendVars, sockVars
<1>14. Framed(e)'
  <2>1. \A p \in ops'[e] : p.pc = "io" => p.got < p.len
    BY <1>4, <1>6 DEF EndInv, Framed
  <2> QED BY <1>4, <1>9, <1>12, <2>1 DEF Framed, Piece
<1>15. Silent(e)' /\ OwnedInv(e)'
  BY <1>5, RecvKeeps
<1> QED BY <1>10, <1>11, <1>12, <1>13, <1>14, <1>15 DEF EndInv

LEMMA RecvSizeFits ==
  ASSUME NEW n \in Nat \ {0}
  PROVE  /\ RecvSize(n) \in Nat \ {0} /\ RecvSize(n) <= n
BY Bounds DEF RecvSize

\* A read into the body starts.
LEMMA BodyInv ==
  ASSUME TypeOK, NEW e \in Ends, EndInv(e), Len(calls[Peer(e)]) <= MaxSends, open[e],
         queue[e] # <<>>, Head(queue[e]).fn = "recv", Pop(e),
         NEW off \in Nat, NEW len \in Nat \ {0}, Start(e, Op("body", 0, off, len)),
         RecvTypes', UNCHANGED <<cmd_hdr, delivered>>,
         flag'[e] \in {0, 2}, flag'[e] = 0 => off = 0,
         has_recved'[e] = off, off + len <= body_len'[e],
         cmd_body'[e] \in Seq(Bytes), Len(cmd_body'[e]) = body_len'[e],
         UNCHANGED <<sendVars, sockVars, userVars, netVars, calls>>
  PROVE  TypeOK' /\ EndInv(e)'
<1> DEFINE o == Op("body", 0, off, len)
<1>1. /\ o \in Operations /\ o.kind = "body" /\ o.ci = 0 /\ o.off = off /\ o.len = len
      /\ o.got = 0 /\ o.pc = "io"
  <2>1. 0 \in 0 .. MaxSends /\ len \in Nat
    BY Bounds
  <2> QED BY <2>1, OpType
<1>2. Start(e, o)
  OBVIOUS
<1> HIDE DEF o
<1>3. QueueType' /\ queue'[e] = Tail(queue[e]) /\ Elems(queue'[e]) \subseteq Elems(queue[e])
  BY QueuePop
<1>4. OpsType' /\ ops'[e] = ops[e] \cup {o}
  BY <1>1, <1>2, StartType
<1>5. TypeOK'
  BY <1>3, <1>4, TypesSame, TypeParts
<1>6. KnownBytes(e)'
  <2>1. Len(calls[e]) \in Nat
    BY LenCalls
  <2>2. \A p \in ops'[e] : p.ci \in 0 .. Len(calls[e])
    BY <1>1, <1>4, <2>1 DEF EndInv, KnownBytes
  <2>3. cmd_hdr'[e] \in BytesTo(Len(calls[Peer(e)]))
    BY HeaderKnown
  <2> QED BY <2>2, <2>3, KnownSame DEF netVars, sockVars
<1>7. /\ ReadsOnce(e)' /\ Without(queue'[e], {"bind", "recv"})
      /\ ReadOps(ops'[e]) = {o} /\ WriteOps(ops'[e]) = WriteOps(ops[e])
  BY <1>1, <1>3, <1>4, StartRead
<1>8. WritesOnce(e)' /\ Current(e)'
  BY <1>3, <1>7, PopWrites DEF sendVars, sockVars
<1>9. Framed(e)'
  <2>1. \A p \in ops'[e] : p.pc = "io" => p.got < p.len
    BY <1>1, <1>4 DEF EndInv, Framed
  <2>2. \A p \in ReadOps(ops'[e]) : Piece(p, flag'[e], has_recved'[e], body_len'[e])
    BY <1>1, <1>7 DEF Piece
  <2>3. Without(queue'[e], {"bind"}) /\ \A fo \in Elems(queue'[e]) : fo.fn # "recv"
    BY <1>7 DEF Without
  <2> QED BY <2>1, <2>2, <2>3 DEF Framed
<1>10. Silent(e)' /\ OwnedInv(e)'
  BY <1>3, RecvKeeps
<1> QED BY <1>5, <1>6, <1>7, <1>8, <1>9, <1>10 DEF EndInv

LEMMA StartBodyInv ==
  ASSUME TypeOK, NEW e \in Ends, EndInv(e), Len(calls[Peer(e)]) <= MaxSends, open[e],
         flag[e] = 1, queue[e] # <<>>, Head(queue[e]).fn = "recv", StartBody(e),
         UNCHANGED <<sendVars, sockVars, userVars, netVars, calls>>
  PROVE  TypeOK' /\ EndInv(e)'
<1> DEFINE n == BodyLen(e)
           body == [i \in 1 .. n |-> Zero]
           f == IF n > MaxRecv THEN 2 ELSE 0
<1>1. /\ Pop(e) /\ cmd_body' = Set(cmd_body, e, body) /\ body_len' = Set(body_len, e, n)
      /\ flag' = Set(flag, e, f) /\ Start(e, Op("body", 0, 0, RecvSize(n)))
      /\ UNCHANGED <<has_recved, cmd_hdr, delivered>>
  BY DEF StartBody
<1>2. n \in Nat \ {0}
  BY HeaderKnown DEF StartBody
<1> HIDE DEF n
<1>3. RecvSize(n) \in Nat \ {0} /\ RecvSize(n) <= n
  BY <1>2, RecvSizeFits
<1>4. body \in Seq(Bytes) /\ Len(body) = n
  <2>1. Zero \in Bytes
    BY Bounds DEF Zero, Bytes
  <2>2. body \in [1 .. n -> Bytes]
    BY <2>1
  <2>3. body \in Seq(Bytes)
    BY <1>2, <2>2, SeqDef
  <2>4. 1 .. Len(body) = 1 .. n /\ Len(body) \in Nat
    BY <2>2, <2>3, LenProperties
  <2> QED BY <1>2, <2>3, <2>4
<1> HIDE DEF body
<1>5. /\ flag \in [Ends -> 0 .. 2] /\ body_len \in [Ends -> Nat]
      /\ cmd_body \in [Ends -> Seq(Bytes) \cup {None}]
      /\ f \in 0 .. 2 /\ f \in {0, 2} /\ body \in Seq(Bytes) \cup {None}
  <2>1. f \in 0 .. 2 /\ f \in {0, 2}
    OBVIOUS
  <2>2. /\ flag \in [Ends -> 0 .. 2] /\ body_len \in [Ends -> Nat]
        /\ cmd_body \in [Ends -> Seq(Bytes) \cup {None}]
    BY DEF TypeOK
  <2> QED BY <1>4, <2>1, <2>2
<1> HIDE DEF f
<1>6. flag' \in [Ends -> 0 .. 2] /\ flag'[e] = f
  <2>1. Set(flag, e, f) \in [Ends -> 0 .. 2]
    BY <1>5, PutType
  <2>2. Set(flag, e, f)[e] = f
    BY <1>5 DEF Set
  <2> QED BY <1>1, <2>1, <2>2
<1>7. body_len' \in [Ends -> Nat] /\ body_len'[e] = n
  <2>1. Set(body_len, e, n) \in [Ends -> Nat]
    BY <1>2, <1>5, PutType
  <2>2. Set(body_len, e, n)[e] = n
    BY <1>2, <1>5 DEF Set
  <2> QED BY <1>1, <2>1, <2>2
<1>8. cmd_body' \in [Ends -> Seq(Bytes) \cup {None}] /\ cmd_body'[e] = body
  <2>1. Set(cmd_body, e, body) \in [Ends -> Seq(Bytes) \cup {None}]
    BY <1>5, PutType
  <2>2. Set(cmd_body, e, body)[e] = body
    BY <1>5 DEF Set
  <2> QED BY <1>1, <2>1, <2>2
<1>9. RecvTypes'
  BY <1>1, <1>6, <1>7, <1>8 DEF RecvTypes, TypeOK
<1>10. has_recved'[e] = 0
  BY <1>1 DEF EndInv, Framed
<1>11. 0 + RecvSize(n) <= body_len'[e]
  BY <1>3, <1>7
<1>12. flag'[e] \in {0, 2} /\ cmd_body'[e] \in Seq(Bytes) /\ Len(cmd_body'[e]) = body_len'[e]
  BY <1>4, <1>5, <1>6, <1>7, <1>8
<1> QED BY <1>1, <1>3, <1>9, <1>10, <1>11, <1>12, BodyInv

LEMMA NextPieceInv ==
  ASSUME TypeOK, NEW e \in Ends, EndInv(e), Len(calls[Peer(e)]) <= MaxSends, open[e],
         flag[e] = 2, queue[e] # <<>>, Head(queue[e]).fn = "recv", NextPiece(e),
         UNCHANGED <<sendVars, sockVars, userVars, netVars, calls>>
  PROVE  TypeOK' /\ EndInv(e)'
<1> DEFINE t == Total(e)
<1>1. /\ t # body_len[e] /\ Pop(e) /\ has_recved' = Set(has_recved, e, t)
      /\ Start(e, Op("body", 0, t, RecvSize(body_len[e] - t)))
      /\ UNCHANGED <<flag, cmd_hdr, cmd_body, body_len, delivered>>
  BY DEF NextPiece, Place
<1>2. /\ has_recved \in [Ends -> Nat] /\ has_recved[e] \in Nat /\ body_len[e] \in Nat
      /\ Arg(e) \in Nat
  BY HeadType DEF TypeOK
<1>3. has_recved[e] + Arg(e) <= body_len[e]
  BY HeadType DEF EndInv, Framed, Arg
<1>4. t \in Nat /\ body_len[e] - t \in Nat \ {0}
  BY <1>1, <1>2, <1>3 DEF Total
<1> HIDE DEF t
<1>5. /\ RecvSize(body_len[e] - t) \in Nat \ {0}
      /\ RecvSize(body_len[e] - t) <= body_len[e] - t
  BY <1>4, RecvSizeFits
<1>6. has_recved' \in [Ends -> Nat] /\ has_recved'[e] = t
  <2>1. Set(has_recved, e, t) \in [Ends -> Nat]
    BY <1>2, <1>4, PutType
  <2>2. Set(has_recved, e, t)[e] = t
    BY <1>2, <1>4 DEF Set
  <2> QED BY <1>1, <2>1, <2>2
<1>7. RecvTypes'
  BY <1>1, <1>6 DEF RecvTypes, TypeOK
<1>8. t + RecvSize(body_len[e] - t) <= body_len'[e]
  BY <1>1, <1>2, <1>4, <1>5
<1>9. /\ flag'[e] \in {0, 2} /\ flag'[e] # 0
      /\ cmd_body'[e] \in Seq(Bytes) /\ Len(cmd_body'[e]) = body_len'[e]
  BY <1>1 DEF EndInv, Framed
<1> QED BY <1>1, <1>4, <1>5, <1>6, <1>7, <1>8, <1>9, BodyInv

\* The strand takes a completion of a read and starts none: the socket is
\* closed, or the header is bad.
LEMMA NoReadInv ==
  ASSUME TypeOK, NEW e \in Ends, EndInv(e), queue[e] # <<>>, Head(queue[e]).fn = "recv",
         \/ queue' = Set(queue, e, Tail(queue[e]))
         \/ queue' = Set(queue, e, Append(Tail(queue[e]), Fo("error", 0))),
         UNCHANGED <<recvVars, ops>>,
         UNCHANGED <<sendVars, sockVars, userVars, netVars, calls>>
  PROVE  TypeOK' /\ EndInv(e)'
<1> DEFINE rest == Tail(queue[e])
           fo == Fo("error", 0)
<1>1. /\ queue \in [Ends -> Seq(Fos)] /\ queue[e] \in Seq(Fos) /\ rest \in Seq(Fos)
      /\ Elems(rest) \subseteq Elems(queue[e])
  <2>1. queue \in [Ends -> Seq(Fos)] /\ queue[e] \in Seq(Fos)
    BY DEF TypeOK
  <2> QED BY <2>1, ElemsTail
<1>2. fo \in Fos /\ fo.fn = "error"
  BY FoType
<1>3. /\ Append(rest, fo) \in Seq(Fos) /\ Elems(Append(rest, fo)) = Elems(rest) \cup {fo}
  <2> HIDE DEF fo, rest
  <2> QED BY <1>1, <1>2, ElemsAppend
<1>4. queue' = Set(queue, e, rest) \/ queue' = Set(queue, e, Append(rest, fo))
  OBVIOUS
<1> HIDE DEF fo
<1>5. queue'[e] = rest \/ queue'[e] = Append(rest, fo)
  BY <1>1, <1>4 DEF Set
<1>6. Elems(queue'[e]) \subseteq Elems(queue[e]) \cup {fo}
  BY <1>1, <1>3, <1>5
<1>7. QueueType'
  <2>1. Set(queue, e, rest) \in [Ends -> Seq(Fos)]
    BY <1>1, PutType
  <2>2. Set(queue, e, Append(rest, fo)) \in [Ends -> Seq(Fos)]
    BY <1>1, <1>3, PutType
  <2> QED BY <1>4, <2>1, <2>2 DEF QueueType
<1>8. TypeOK'
  BY <1>7, TypesSame, TypeParts
<1>9. KnownBytes(e)'
  BY KnownSame DEF recvVars, sockVars, netVars, EndInv, KnownBytes
<1>10. ReadsOnce(e)' /\ WritesOnce(e)'
  <2>1. /\ Single(queue[e], ReadOps(ops[e]), {"bind", "recv"})
        /\ Single(queue[e], WriteOps(ops[e]), {"sent"})
    BY DEF EndInv, ReadsOnce, WritesOnce
  <2>2. Single(rest, ReadOps(ops[e]), {"bind", "recv"})
    BY <1>1, <2>1, SingleTail
  <2>3. Single(rest, WriteOps(ops[e]), {"sent"})
    BY <1>1, <2>1, SingleTail
  <2>4. fo.fn \notin {"bind", "recv"} /\ fo.fn \notin {"sent"}
    BY <1>2
  <2> HIDE DEF rest
  <2>5. Single(Append(rest, fo), ReadOps(ops[e]), {"bind", "recv"})
    BY <1>1, <1>2, <2>2, <2>4, SingleAppend
  <2>6. Single(Append(rest, fo), WriteOps(ops[e]), {"sent"})
    BY <1>1, <1>2, <2>3, <2>4, SingleAppend
  <2> QED BY <1>5, <2>2, <2>3, <2>5, <2>6 DEF ReadsOnce, WritesOnce
<1>11. Framed(e)'
  <2>1. flag[e] = 2 => \A f \in Elems(queue'[e]) : f.fn = "recv" => has_recved[e] + f.arg <= body_len[e]
    BY <1>2, <1>6 DEF EndInv, Framed
  <2>2. flag[e] # 1 => Without(queue'[e], {"bind"})
    BY <1>2, <1>6 DEF EndInv, Framed, Without
  <2> QED BY <2>1, <2>2 DEF EndInv, Framed, recvVars, sockVars
<1>12. Current(e)' /\ Silent(e)'
  <2>1. Without(queue[e], {"sent"}) => Without(queue'[e], {"sent"})
    BY <1>2, <1>6 DEF Without
  <2> QED BY <2>1 DEF EndInv, Current, Silent, sockVars, userVars, sendVars
<1>13. OwnedInv(e)'
  <2>1. Owners(queue[e], cmd_info_list[e], cur_send[e], heap[e], calls[e])
    BY OwnersAt DEF EndInv
  <2>2. HeldOnce(rest, cmd_info_list[e], cur_send[e], heap[e], calls[e])
    BY <2>1, OwnersPop
  <2> HIDE DEF rest
  <2>3. Owners(rest, cmd_info_list[e], cur_send[e], heap[e], calls[e])
    BY <1>1, <2>1, <2>2 DEF Owners
  <2>4. HeldOnce(Append(rest, fo), cmd_info_list[e], cur_send[e], heap[e], calls[e])
    BY <1>2, <2>3, OwnersPost
  <2> QED BY <1>2, <1>5, <1>6, <2>2, <2>4 DEF EndInv, OwnedInv, sendVars
<1> QED BY <1>8, <1>9, <1>10, <1>11, <1>12, <1>13 DEF EndInv

LEMMA RecvInv ==
  ASSUME TypeOK, NEW e \in Ends, EndInv(e), Len(calls[Peer(e)]) <= MaxSends, OnRecvStrand(e)
  PROVE  TypeOK' /\ EndInv(e)'
<1>1. /\ queue[e] # <<>> /\ Head(queue[e]).fn = "recv"
      /\ UNCHANGED <<sendVars, sockVars, userVars, netVars, calls>>
  BY DEF OnRecvStrand, Runs
<1>2. CASE ~open[e] /\ Pop(e) /\ UNCHANGED <<recvVars, ops>>
  BY <1>1, <1>2, NoReadInv DEF Pop
<1>3. CASE open[e] /\ flag[e] = 0 /\ WholeBody(e)
  <2>1. /\ has_recved' = [has_recved EXCEPT ![e] = 0]
        /\ body_len[e] \in Nat /\ \A i \in 1 .. body_len[e] : cmd_body[e][i] \in Bytes
    <3>1. has_recved[e] = 0 /\ cmd_body[e] \in Seq(Bytes) /\ Len(cmd_body[e]) = body_len[e]
      BY <1>3 DEF EndInv, Framed
    <3>2. body_len[e] \in Nat /\ \A i \in 1 .. body_len[e] : cmd_body[e][i] \in Bytes
      BY <3>1, LenProperties, ElementOfSeq
    <3> QED BY <1>3, <3>1, <3>2 DEF TypeOK, WholeBody
  <2> QED BY <1>1, <1>3, <2>1, FinishInv DEF WholeBody
<1>4. CASE open[e] /\ flag[e] = 1 /\ BadHeader(e)
  BY <1>1, <1>4, NoReadInv DEF BadHeader, Pop
<1>5. CASE open[e] /\ flag[e] = 1 /\ EmptyBody(e)
  <2>1. has_recved' = [has_recved EXCEPT ![e] = 0]
    BY <1>5 DEF EndInv, Framed, TypeOK, EmptyBody
  <2>2. /\ 0 \in Nat /\ \A i \in 1 .. 0 : <<>>[i] \in Bytes
        /\ Pop(e) /\ FinishCommand(e, <<>>, 0)
    BY <1>5 DEF EmptyBody
  <2> QED BY <1>1, <1>5, <2>1, <2>2, FinishInv
<1>6. CASE open[e] /\ flag[e] = 1 /\ StartBody(e)
  BY <1>1, <1>6, StartBodyInv
<1>7. CASE open[e] /\ flag[e] = 2 /\ LastPiece(e)
  <2>1. has_recved' = [has_recved EXCEPT ![e] = 0]
    BY <1>7 DEF LastPiece, Set, ResetCount
  <2>2. body_len[e] \in Nat /\ \A i \in 1 .. body_len[e] : cmd_body[e][i] \in Bytes
    <3>1. cmd_body[e] \in Seq(Bytes) /\ Len(cmd_body[e]) = body_len[e]
      BY <1>7 DEF EndInv, Framed
    <3> QED BY <3>1, LenProperties, ElementOfSeq
  <2> QED BY <1>1, <1>7, <2>1, <2>2, FinishInv DEF LastPiece
<1>8. CASE open[e] /\ flag[e] = 2 /\ NextPiece(e)
  BY <1>1, <1>8, NextPieceInv
<1> QED BY <1>2, <1>3, <1>4, <1>5, <1>6, <1>7, <1>8 DEF OnRecvStrand
-----------------------------------------------------------------------------
(* What the strand runs: sending.                                          *)

LEMMA WriteType ==
  ASSUME TypeOK, NEW e \in Ends, NEW n \in 1 .. Len(calls[e]), Len(calls[e]) <= MaxSends
  PROVE  /\ Write(e, n) \in Operations /\ Write(e, n).kind = "write" /\ Write(e, n).ci = n
         /\ Write(e, n).pc = "io" /\ Write(e, n).got < Write(e, n).len
<1>1. calls[e][n].size \in Nat
  <2>1. calls[e] \in Seq([size : Sizes, magic : Magics, ok : BOOLEAN])
    BY DEF TypeOK
  <2>2. calls[e][n] \in [size : Sizes, magic : Magics, ok : BOOLEAN]
    BY <2>1, ElementOfSeq
  <2> QED BY <2>2, Bounds
<1>2. n \in 0 .. MaxSends /\ 0 \in Nat /\ calls[e][n].size + 1 \in Nat
  BY <1>1, LenCalls, Bounds
<1>3. 0 < calls[e][n].size + 1
  BY <1>1
<1> DEFINE len == calls[e][n].size + 1
<1> HIDE DEF len
<1>4. /\ Op("write", n, 0, len) \in Operations
      /\ Op("write", n, 0, len).kind = "write" /\ Op("write", n, 0, len).ci = n
      /\ Op("write", n, 0, len).len = len
      /\ Op("write", n, 0, len).got = 0 /\ Op("write", n, 0, len).pc = "io"
  BY <1>2, OpType, SMTT(30) DEF len
<1> QED BY <1>3, <1>4 DEF Write, len

\* What a step of sending leaves alone, whether or not a write starts.
LEMMA SendKeeps ==
  ASSUME TypeOK, NEW e \in Ends, EndInv(e), queue[e] # <<>>,
         Head(queue[e]).fn \in {"send", "sent"}, Pop(e),
         \/ UNCHANGED ops
         \/ \E n \in 1 .. Len(calls[e]) : Start(e, Write(e, n)),
         UNCHANGED <<recvVars, sockVars, port_cb, netVars, calls>>
  PROVE  /\ QueueType' /\ OpsType' /\ KnownBytes(e)' /\ ReadsOnce(e)' /\ Framed(e)' /\ Silent(e)'
         /\ queue'[e] = Tail(queue[e]) /\ Elems(queue'[e]) \subseteq Elems(queue[e])
<1>1. QueueType' /\ queue'[e] = Tail(queue[e]) /\ Elems(queue'[e]) \subseteq Elems(queue[e])
  BY QueuePop
<1>2. Len(calls[e]) \in Nat /\ Len(calls[e]) <= MaxSends
  BY LenCalls DEF EndInv, KnownBytes
<1>3. /\ OpsType' /\ ReadOps(ops'[e]) = ReadOps(ops[e])
      /\ \A p \in ops'[e] : p.ci \in 0 .. Len(calls[e]) /\ (p.pc = "io" => p.got < p.len)
  <2>1. CASE UNCHANGED ops
    BY <2>1, TypesSame DEF EndInv, KnownBytes, Framed
  <2>2. ASSUME NEW n \in 1 .. Len(calls[e]), Start(e, Write(e, n))
        PROVE  /\ OpsType' /\ ReadOps(ops'[e]) = ReadOps(ops[e])
               /\ \A p \in ops'[e] : p.ci \in 0 .. Len(calls[e]) /\ (p.pc = "io" => p.got < p.len)
    <3> DEFINE o == Write(e, n)
    <3>1. /\ o \in Operations /\ o.kind = "write" /\ o.ci = n /\ o.pc = "io" /\ o.got < o.len
      BY <1>2, WriteType
    <3>2. Start(e, o)
      BY <2>2
    <3> HIDE DEF o
    <3>3. OpsType' /\ ops'[e] = ops[e] \cup {o}
      BY <3>1, <3>2, StartType
    <3>4. ReadOps(ops'[e]) = ReadOps(ops[e])
      BY <3>1, <3>3 DEF ReadOps
    <3> QED BY <1>2, <3>1, <3>3, <3>4 DEF EndInv, KnownBytes, Framed
  <2> QED BY <2>1, <2>2
<1>4. KnownBytes(e)'
  <2>1. open[e] => cmd_hdr[e] \in BytesTo(Len(calls[Peer(e)]))
    BY DEF EndInv, KnownBytes
  <2> QED BY <1>3, <2>1, KnownSame DEF recvVars, sockVars, netVars
<1>5. ReadsOnce(e)'
  <2>1. queue[e] \in Seq(Fos) /\ Single(queue[e], ReadOps(ops[e]), {"bind", "recv"})
    BY DEF TypeOK, EndInv, ReadsOnce
  <2>2. Single(Tail(queue[e]), ReadOps(ops[e]), {"bind", "recv"})
    BY <2>1, SingleTail
  <2> QED BY <1>1, <1>3, <2>2 DEF ReadsOnce
<1>6. Framed(e)'
  <2>1. flag[e] = 2 => \A f \in Elems(queue'[e]) : f.fn = "recv" => has_recved[e] + f.arg <= body_len[e]
    BY <1>1 DEF EndInv, Framed
  <2>2. flag[e] # 1 => Without(queue'[e], {"bind"})
    BY <1>1 DEF EndInv, Framed, Without
  <2> QED BY <1>3, <2>1, <2>2 DEF EndInv, Framed, recvVars, sockVars
<1>7. Silent(e)'
  BY DEF EndInv, Silent, sockVars
<1> QED BY <1>1, <1>3, <1>4, <1>5, <1>6, <1>7

\* A write starts when there was none.
LEMMA StartWrite ==
  ASSUME TypeOK, NEW e \in Ends, EndInv(e), queue[e] # <<>>, queue'[e] = Tail(queue[e]),
         NEW n \in 1 .. Len(calls[e]), Start(e, Write(e, n)),
         WriteOps(ops[e]) = {}, Without(Tail(queue[e]), {"sent"}), cur_send'[e] = n
  PROVE  WritesOnce(e)' /\ Current(e)'
<1> DEFINE o == Write(e, n)
<1>1. Len(calls[e]) \in Nat /\ Len(calls[e]) <= MaxSends /\ n # 0
  BY LenCalls DEF EndInv, KnownBytes
<1>2. o \in Operations /\ o.kind = "write" /\ o.ci = n /\ Start(e, o)
  BY <1>1, WriteType
<1> HIDE DEF o
<1>3. ops'[e] = ops[e] \cup {o}
  BY <1>2, StartType
<1>4. WriteOps(ops'[e]) = {o}
  BY <1>2, <1>3 DEF WriteOps
<1>5. queue[e] \in Seq(Fos) /\ Single(queue[e], WriteOps(ops[e]), {"sent"})
  BY DEF TypeOK, EndInv, WritesOnce
<1>6. Single(Tail(queue[e]), WriteOps(ops[e]), {"sent"})
  BY <1>5, SingleTail
<1>7. Single(Tail(queue[e]), {o}, {"sent"})
  BY <1>6, SingleOps
<1> QED BY <1>1, <1>2, <1>4, <1>7 DEF WritesOnce, Current

LEMMA SendInv ==
  ASSUME TypeOK, NEW e \in Ends, EndInv(e), SendMessageStrand(e)
  PROVE  TypeOK' /\ EndInv(e)'
<1> DEFINE m == Arg(e)
<1>1. /\ queue[e] # <<>> /\ Head(queue[e]).fn = "send" /\ Pop(e)
      /\ UNCHANGED <<recvVars, sockVars, userVars, netVars, calls>>
  BY DEF SendMessageStrand, Runs
<1>2. m \in Nat \ {0} /\ m = Head(queue[e]).arg
  BY <1>1, HeadType DEF EndInv, OwnedInv, Arg
<1>3. /\ Owners(queue[e], cmd_info_list[e], cur_send[e], heap[e], calls[e])
      /\ Len(calls[e]) \in Nat /\ Len(calls[e]) <= MaxSends
  BY OwnersAt, LenCalls DEF EndInv, KnownBytes
<1> HIDE DEF m
<1>4. /\ HeldOnce(Tail(queue[e]), cmd_info_list[e], cur_send[e], heap[e] \ {m}, calls[e])
      /\ HeldOnce(Tail(queue[e]), Append(cmd_info_list[e], m), cur_send[e], heap[e], calls[e])
      /\ cur_send[e] = 0 =>
           HeldOnce(Tail(queue[e]), cmd_info_list[e], m, heap[e], calls[e])
      /\ m \in 1 .. Len(calls[e])
  <2> DEFINE left == heap[e] \ {m}
  <2>1. left = heap[e] \ {m}
    OBVIOUS
  <2> HIDE DEF left
  <2>2. /\ HeldOnce(Tail(queue[e]), cmd_info_list[e], cur_send[e], left, calls[e])
        /\ HeldOnce(Tail(queue[e]), Append(cmd_info_list[e], m), cur_send[e], heap[e], calls[e])
        /\ cur_send[e] = 0 =>
             HeldOnce(Tail(queue[e]), cmd_info_list[e], m, heap[e], calls[e])
        /\ m \in 1 .. Len(calls[e])
    BY <1>1, <1>2, <1>3, <2>1, OwnersTake
  <2> QED BY <2>2 DEF left
<1>5. \/ UNCHANGED ops
      \/ \E n \in 1 .. Len(calls[e]) : Start(e, Write(e, n))
  BY <1>4 DEF SendMessageStrand, DropSend, QueueSend, StartSend, m
<1>6. /\ QueueType' /\ OpsType' /\ KnownBytes(e)' /\ ReadsOnce(e)' /\ Framed(e)' /\ Silent(e)'
      /\ queue'[e] = Tail(queue[e]) /\ Elems(queue'[e]) \subseteq Elems(queue[e])
  BY <1>1, <1>5, SendKeeps DEF userVars
<1>7. \A fo \in Elems(queue'[e]) : fo.fn = "send" => fo.arg # 0
  BY <1>6 DEF EndInv, OwnedInv
<1>8. m \in 1 .. MaxSends
  BY <1>3, <1>4, Bounds
<1>9. /\ cur_send \in [Ends -> 0 .. MaxSends] /\ cmd_info_list \in [Ends -> Seq(1 .. MaxSends)]
      /\ heap \in [Ends -> SUBSET (1 .. MaxSends)]
  BY DEF TypeOK
<1>10. /\ SendTypes' /\ OwnedInv(e)' /\ WritesOnce(e)' /\ Current(e)'
  <2>1. CASE DropSend(e)
    <3>1. heap' = Set(heap, e, heap[e] \ {m}) /\ UNCHANGED <<cur_send, cmd_info_list, ops>>
      BY <2>1 DEF DropSend, m
    <3>2. heap' \in [Ends -> SUBSET (1 .. MaxSends)] /\ heap'[e] = heap[e] \ {m}
      BY <1>9, <3>1 DEF Set
    <3>3. SendTypes'
      BY <1>9, <3>1, <3>2 DEF SendTypes
    <3>4. OwnedInv(e)'
      BY <1>1, <1>4, <1>6, <1>7, <3>1, <3>2 DEF OwnedInv
    <3>5. WritesOnce(e)' /\ Current(e)'
      BY <1>1, <1>6, <3>1, PopWrites DEF sockVars
    <3> QED BY <3>3, <3>4, <3>5
  <2>2. CASE QueueSend(e)
    <3>1. /\ cmd_info_list' = Set(cmd_info_list, e, Append(cmd_info_list[e], m))
          /\ UNCHANGED <<cur_send, heap, ops>>
      BY <2>2 DEF QueueSend, m
    <3>2. Append(cmd_info_list[e], m) \in Seq(1 .. MaxSends)
      BY <1>8, <1>9, AppendProperties
    <3>3. /\ cmd_info_list' \in [Ends -> Seq(1 .. MaxSends)]
          /\ cmd_info_list'[e] = Append(cmd_info_list[e], m)
      BY <1>9, <3>1, <3>2 DEF Set
    <3>4. SendTypes'
      BY <1>9, <3>1, <3>3 DEF SendTypes
    <3>5. OwnedInv(e)'
      BY <1>1, <1>4, <1>6, <1>7, <3>1, <3>3 DEF OwnedInv
    <3>6. WritesOnce(e)' /\ Current(e)'
      BY <1>1, <1>6, <3>1, PopWrites DEF sockVars
    <3> QED BY <3>4, <3>5, <3>6
  <2>3. CASE StartSend(e)
    <3>1. /\ open[e] /\ cur_send[e] = 0 /\ cur_send' = Set(cur_send, e, m)
          /\ Start(e, Write(e, m)) /\ UNCHANGED <<cmd_info_list, heap>>
      BY <2>3 DEF StartSend, Sending, m
    <3>2. cur_send' \in [Ends -> 0 .. MaxSends] /\ cur_send'[e] = m
      BY <1>8, <1>9, <3>1 DEF Set
    <3>3. SendTypes'
      BY <1>9, <3>1, <3>2 DEF SendTypes
    <3>4. OwnedInv(e)'
      BY <1>1, <1>4, <1>6, <1>7, <3>1, <3>2 DEF OwnedInv
    <3>5. WriteOps(ops[e]) = {} /\ Without(Tail(queue[e]), {"sent"})
      BY <1>6, <3>1 DEF EndInv, Current, Without
    <3>6. WritesOnce(e)' /\ Current(e)'
      BY <1>1, <1>4, <1>6, <3>1, <3>2, <3>5, StartWrite
    <3> QED BY <3>3, <3>4, <3>6
  <2> QED BY <2>1, <2>2, <2>3 DEF SendMessageStrand
<1>11. TypeOK'
  BY <1>1, <1>6, <1>10, TypesSame, TypeParts
<1> QED BY <1>6, <1>10, <1>11 DEF EndInv

LEMMA SentInv ==
  ASSUME TypeOK, NEW e \in Ends, EndInv(e), OnSendStrand(e)
  PROVE  TypeOK' /\ EndInv(e)'
<1> DEFINE list == cmd_info_list[e]
           left == heap[e] \ {cur_send[e]}
<1>1. /\ queue[e] # <<>> /\ Head(queue[e]).fn = "sent" /\ Pop(e) /\ heap' = Set(heap, e, left)
      /\ UNCHANGED <<recvVars, sockVars, port_cb, errors, netVars, calls>>
  BY DEF OnSendStrand, Runs
<1>2. /\ cur_send \in [Ends -> 0 .. MaxSends] /\ cmd_info_list \in [Ends -> Seq(1 .. MaxSends)]
      /\ heap \in [Ends -> SUBSET (1 .. MaxSends)] /\ queue[e] \in Seq(Fos)
      /\ list \in Seq(1 .. MaxSends)
  BY DEF TypeOK
<1>3. heap' \in [Ends -> SUBSET (1 .. MaxSends)] /\ heap'[e] = left
  BY <1>1, <1>2 DEF Set
<1>4. left = heap[e] \ {cur_send[e]}
  OBVIOUS
<1> HIDE DEF left
<1>5. Owners(Tail(queue[e]), list, cur_send[e], heap[e], calls[e])
  <2>1. Owners(queue[e], list, cur_send[e], heap[e], calls[e])
    BY OwnersAt DEF EndInv
  <2>2. HeldOnce(Tail(queue[e]), list, cur_send[e], heap[e], calls[e])
    BY <1>1, <2>1, OwnersPop
  <2>3. Tail(queue[e]) \in Seq(Fos)
    BY <1>1, <1>2, ElemsTail
  <2> QED BY <2>1, <2>2, <2>3 DEF Owners
<1>6. /\ list = <<>> => HeldOnce(Tail(queue[e]), list, 0, left, calls[e])
      /\ list # <<>> => /\ HeldOnce(Tail(queue[e]), Tail(list), Head(list), left, calls[e])
                        /\ Head(list) \in 1 .. Len(calls[e])
  <2> HIDE DEF list
  <2> QED BY <1>4, <1>5, OwnersNext
<1>7. \/ UNCHANGED ops
      \/ \E n \in 1 .. Len(calls[e]) : Start(e, Write(e, n))
  BY <1>6 DEF OnSendStrand, LastSent, NextSent
<1>8. /\ QueueType' /\ OpsType' /\ KnownBytes(e)' /\ ReadsOnce(e)' /\ Framed(e)' /\ Silent(e)'
      /\ queue'[e] = Tail(queue[e]) /\ Elems(queue'[e]) \subseteq Elems(queue[e])
  BY <1>1, <1>7, SendKeeps
<1>9. \A fo \in Elems(queue'[e]) : fo.fn = "send" => fo.arg # 0
  BY <1>8 DEF EndInv, OwnedInv
<1>10. /\ WriteOps(ops[e]) = {} /\ Without(Tail(queue[e]), {"sent"})
       /\ Single(Tail(queue[e]), {}, {"sent"})
  <2>1. Single(queue[e], WriteOps(ops[e]), {"sent"}) /\ Head(queue[e]).fn \in {"sent"}
    BY <1>1 DEF EndInv, WritesOnce
  <2>2. /\ WriteOps(ops[e]) = {} /\ Without(Tail(queue[e]), {"sent"})
        /\ Single(Tail(queue[e]), WriteOps(ops[e]), {"sent"})
    BY <1>1, <1>2, <2>1, SingleTail
  <2> QED BY <2>2
<1>11. SendTypes' /\ OwnedInv(e)' /\ WritesOnce(e)' /\ Current(e)'
  <2>1. CASE LastSent(e)
    <3>1. list = <<>> /\ cur_send' = Set(cur_send, e, 0) /\ UNCHANGED <<cmd_info_list, ops>>
      BY <2>1 DEF LastSent
    <3>2. cur_send' \in [Ends -> 0 .. MaxSends] /\ cur_send'[e] = 0
      BY <1>2, <3>1, Bounds DEF Set
    <3>3. SendTypes'
      BY <1>2, <1>3, <3>1, <3>2 DEF SendTypes
    <3>4. OwnedInv(e)'
      BY <1>1, <1>3, <1>6, <1>8, <1>9, <3>1, <3>2 DEF OwnedInv
    <3>5. WritesOnce(e)' /\ Current(e)'
      BY <1>8, <1>10, <3>1 DEF WritesOnce, Current
    <3> QED BY <3>3, <3>4, <3>5
  <2>2. CASE NextSent(e)
    <3>1. /\ list # <<>> /\ cur_send' = Set(cur_send, e, Head(list))
          /\ cmd_info_list' = Set(cmd_info_list, e, Tail(list)) /\ Start(e, Write(e, Head(list)))
      BY <2>2 DEF NextSent, PopFront
    <3>2. Head(list) \in 1 .. MaxSends /\ Tail(list) \in Seq(1 .. MaxSends)
      BY <1>2, <3>1, ElemsTail
    <3>3. cur_send' \in [Ends -> 0 .. MaxSends] /\ cur_send'[e] = Head(list)
      BY <1>2, <3>1, <3>2, Bounds DEF Set
    <3>4. /\ cmd_info_list' \in [Ends -> Seq(1 .. MaxSends)] /\ cmd_info_list'[e] = Tail(list)
      BY <1>2, <3>1, <3>2 DEF Set
    <3>5. SendTypes'
      BY <1>3, <3>3, <3>4 DEF SendTypes
    <3>6. OwnedInv(e)'
      BY <1>1, <1>3, <1>6, <1>8, <1>9, <3>1, <3>3, <3>4 DEF OwnedInv
    <3>7. WritesOnce(e)' /\ Current(e)'
      BY <1>1, <1>6, <1>8, <1>10, <3>1, <3>3, StartWrite
    <3> QED BY <3>5, <3>6, <3>7
  <2> QED BY <2>1, <2>2 DEF OnSendStrand
<1>12. UserTypes'
  <2>1. finished \in [Ends -> Nat] /\ finished[e] + 1 \in Nat
    BY DEF TypeOK
  <2>2. Set(finished, e, finished[e] + 1) \in [Ends -> Nat]
    BY <2>1, PutType
  <2> QED BY <1>1, <2>1, <2>2 DEF OnSendStrand, UserTypes, TypeOK
<1>13. TypeOK'
  BY <1>1, <1>8, <1>11, <1>12, TypesSame, TypeParts
<1> QED BY <1>8, <1>11, <1>13 DEF EndInv
-----------------------------------------------------------------------------
(* What the strand runs: the end.                                          *)

LEMMA DoClearInv ==
  ASSUME TypeOK, NEW e \in Ends, EndInv(e), queue[e] # <<>>, Pop(e), DoClear(e),
         Head(queue[e]).fn \in {"clear", "error"}, errors' \in [Ends -> Nat],
         UNCHANGED finished
  PROVE  TypeOK' /\ EndInv(e)'
<1> DEFINE list == cmd_info_list[e]
           gone == {cur_send[e]} \cup {list[i] : i \in DOMAIN list}
           left == heap[e] \ gone
<1>1. /\ port_cb' = Set(port_cb, e, FALSE)
      /\ open' = Set(open, e, FALSE)
      /\ sock_cb' = Set(sock_cb, e, {})
      /\ heap' = Set(heap, e, left)
      /\ cmd_info_list' = Set(cmd_info_list, e, <<>>)
      /\ cur_send' = Set(cur_send, e, 0)
      /\ cmd_hdr' = Set(cmd_hdr, e, None)
      /\ cmd_body' = Set(cmd_body, e, None)
      /\ UNCHANGED <<flag, has_recved, body_len, delivered, netVars, ops, calls>>
  BY DEF DoClear, NoCallbacks, FreeAll
<1>2. left = heap[e] \ gone /\ gone = {cur_send[e]} \cup {list[i] : i \in DOMAIN list}
  OBVIOUS
<1> HIDE DEF left, gone
<1>3. QueueType' /\ queue'[e] = Tail(queue[e]) /\ Elems(queue'[e]) \subseteq Elems(queue[e])
  BY QueuePop
<1>4. /\ cur_send \in [Ends -> 0 .. MaxSends] /\ cmd_info_list \in [Ends -> Seq(1 .. MaxSends)]
      /\ heap \in [Ends -> SUBSET (1 .. MaxSends)] /\ queue[e] \in Seq(Fos)
      /\ <<>> \in Seq(1 .. MaxSends) /\ 0 \in 0 .. MaxSends
  BY Bounds, EmptySeq DEF TypeOK
<1>5. /\ cur_send' \in [Ends -> 0 .. MaxSends] /\ cur_send'[e] = 0
  BY <1>1, <1>4 DEF Set
<1>6. /\ cmd_info_list' \in [Ends -> Seq(1 .. MaxSends)] /\ cmd_info_list'[e] = <<>>
  BY <1>1, <1>4 DEF Set
<1>7. /\ heap' \in [Ends -> SUBSET (1 .. MaxSends)] /\ heap'[e] = left
  BY <1>1, <1>2, <1>4 DEF Set
<1>8. SendTypes'
  BY <1>5, <1>6, <1>7 DEF SendTypes
<1>9. SockTypes' /\ UserTypes' /\ open'[e] = FALSE /\ port_cb'[e] = FALSE
  BY <1>1 DEF SockTypes, UserTypes, TypeOK, Set
<1>10. RecvTypes'
  <2>1. None \in Bytes \cup {None} /\ None \in Seq(Bytes) \cup {None}
    OBVIOUS
  <2>2. cmd_hdr \in [Ends -> Bytes \cup {None}] /\ cmd_body \in [Ends -> Seq(Bytes) \cup {None}]
    BY DEF TypeOK
  <2>3. Set(cmd_hdr, e, None) \in [Ends -> Bytes \cup {None}]
    BY <2>1, <2>2, PutType
  <2>4. Set(cmd_body, e, None) \in [Ends -> Seq(Bytes) \cup {None}]
    BY <2>1, <2>2, PutType
  <2> QED BY <1>1, <2>3, <2>4 DEF RecvTypes, TypeOK
<1>11. TypeOK'
  BY <1>1, <1>3, <1>8, <1>9, <1>10, TypesSame, TypeParts
<1>12. KnownBytes(e)'
  BY <1>1, <1>9, KnownSame DEF netVars, EndInv, KnownBytes
<1>13. ReadsOnce(e)'
  <2>1. Single(queue[e], ReadOps(ops[e]), {"bind", "recv"})
    BY DEF EndInv, ReadsOnce
  <2>2. Single(Tail(queue[e]), ReadOps(ops[e]), {"bind", "recv"})
    BY <1>4, <2>1, SingleTail
  <2> QED BY <1>1, <1>3, <2>2 DEF ReadsOnce
<1>14. WritesOnce(e)' /\ Current(e)'
  BY <1>1, <1>3, <1>9, PopWrites
<1>15. Framed(e)'
  <2>1. flag[e] = 2 => \A f \in Elems(queue'[e]) : f.fn = "recv" => has_recved[e] + f.arg <= body_len[e]
    BY <1>3 DEF EndInv, Framed
  <2>2. flag[e] # 1 => Without(queue'[e], {"bind"})
    BY <1>3 DEF EndInv, Framed, Without
  <2> QED BY <1>1, <1>9, <2>1, <2>2 DEF EndInv, Framed
<1>16. OwnedInv(e)'
  <2>1. Owners(queue[e], list, cur_send[e], heap[e], calls[e])
    BY OwnersAt DEF EndInv
  <2>2. HeldOnce(Tail(queue[e]), list, cur_send[e], heap[e], calls[e])
    BY <2>1, OwnersPop
  <2>3. Owners(Tail(queue[e]), list, cur_send[e], heap[e], calls[e])
    <3>1. Tail(queue[e]) \in Seq(Fos)
      BY <1>4, ElemsTail
    <3> QED BY <2>1, <2>2, <3>1 DEF Owners
  <2> HIDE DEF list
  <2>4. HeldOnce(Tail(queue[e]), <<>>, 0, left, calls[e])
    BY <1>2, <2>3, OwnersClear
  <2> QED BY <1>1, <1>3, <1>5, <1>6, <1>7, <2>4 DEF EndInv, OwnedInv
<1>17. Silent(e)'
  BY <1>9 DEF Silent
<1> QED BY <1>11, <1>12, <1>13, <1>14, <1>15, <1>16, <1>17 DEF EndInv

LEMMA EndStrandInv ==
  ASSUME TypeOK, NEW e \in Ends, EndInv(e), ClearStrand(e) \/ OnErrorStrand(e)
  PROVE  TypeOK' /\ EndInv(e)'
<1>1. /\ queue[e] # <<>> /\ Pop(e) /\ DoClear(e) /\ Head(queue[e]).fn \in {"clear", "error"}
  BY DEF ClearStrand, OnErrorStrand, Runs
<1>2. errors' \in [Ends -> Nat]
  <2>1. errors \in [Ends -> Nat] /\ errors[e] + 1 \in Nat
    BY DEF TypeOK
  <2>2. Set(errors, e, errors[e] + 1) \in [Ends -> Nat]
    BY <2>1, PutType
  <2> QED BY <2>1, <2>2 DEF ClearStrand, OnErrorStrand
<1>3. UNCHANGED finished
  BY DEF ClearStrand, OnErrorStrand
<1> QED BY <1>1, <1>2, <1>3, DoClearInv
-----------------------------------------------------------------------------
(* The asynchronous operations and their handlers.                         *)

\* An operation goes on: it stays what it is.
LEMMA ReplaceKeeps ==
  ASSUME TypeOK, NEW e \in Ends, EndInv(e), NEW o \in ops[e], NEW new \in Operations,
         new.kind = o.kind, new.ci = o.ci, new.off = o.off, new.len = o.len,
         new.pc # "report" => o.pc # "report", new.pc = "io" => new.got < new.len,
         Replace(e, o, new),
         UNCHANGED <<queue, flag, has_recved, body_len, calls, sendVars, open, port_cb>>
  PROVE  /\ OpsType' /\ ops'[e] = (ops[e] \ {o}) \cup {new}
         /\ ReadsOnce(e)' /\ WritesOnce(e)' /\ Current(e)' /\ OwnedInv(e)' /\ Silent(e)'
         /\ \A p \in ops'[e] : p.ci \in 0 .. Len(calls[e]) /\ (p.pc = "io" => p.got < p.len)
         /\ \A p \in ReadOps(ops'[e]) : Piece(p, flag[e], has_recved[e], body_len[e])
<1>1. ops'[e] = (ops[e] \ {o}) \cup {new} /\ OpsType'
  <2>1. ops \in [Ends -> SUBSET Operations]
    BY DEF TypeOK
  <2>2. (ops[e] \ {o}) \cup {new} \in SUBSET Operations
    BY <2>1
  <2>3. Set(ops, e, (ops[e] \ {o}) \cup {new}) \in [Ends -> SUBSET Operations]
    BY <2>1, <2>2, PutType
  <2>4. Set(ops, e, (ops[e] \ {o}) \cup {new})[e] = (ops[e] \ {o}) \cup {new}
    BY <2>1 DEF Set
  <2> QED BY <2>3, <2>4 DEF Replace, OpsType
<1>2. ReadsOnce(e)'
  <2>1. Single(queue[e], ReadOps(ops[e]), {"bind", "recv"})
    BY DEF EndInv, ReadsOnce
  <2>2. \/ ReadOps(ops'[e]) \subseteq ReadOps(ops[e])
        \/ ReadOps(ops[e]) # {} /\ \A p, q \in ReadOps(ops'[e]) : p = q
    BY <1>1, <2>1 DEF ReadOps, Single
  <2>3. Single(queue[e], ReadOps(ops'[e]), {"bind", "recv"})
    BY <2>1, <2>2, SingleOps
  <2> QED BY <2>3 DEF ReadsOnce
<1>3. WritesOnce(e)'
  <2>1. Single(queue[e], WriteOps(ops[e]), {"sent"})
    BY DEF EndInv, WritesOnce
  <2>2. \/ WriteOps(ops'[e]) \subseteq WriteOps(ops[e])
        \/ WriteOps(ops[e]) # {} /\ \A p, q \in WriteOps(ops'[e]) : p = q
    BY <1>1, <2>1 DEF WriteOps, Single
  <2>3. Single(queue[e], WriteOps(ops'[e]), {"sent"})
    BY <2>1, <2>2, SingleOps
  <2> QED BY <2>3 DEF WritesOnce
<1>4. Current(e)'
  BY <1>1 DEF EndInv, Current, WriteOps, sendVars
<1>5. OwnedInv(e)' /\ Silent(e)'
  BY DEF EndInv, OwnedInv, Silent, sendVars
<1>6. \A p \in ops'[e] : p.ci \in 0 .. Len(calls[e]) /\ (p.pc = "io" => p.got < p.len)
  BY <1>1 DEF EndInv, KnownBytes, Framed
<1>7. \A p \in ReadOps(ops'[e]) : Piece(p, flag[e], has_recved[e], body_len[e])
  <2> TAKE p \in ReadOps(ops'[e])
  <2>1. CASE p \in ops[e]
    BY <2>1 DEF EndInv, Framed, ReadOps
  <2>2. CASE p = new
    <3>1. o \in ReadOps(ops[e])
      BY <2>2 DEF ReadOps
    <3>2. Piece(o, flag[e], has_recved[e], body_len[e])
      BY <3>1 DEF EndInv, Framed
    <3> QED BY <2>2, <3>2 DEF Piece
  <2> QED BY <1>1, <2>1, <2>2 DEF ReadOps
<1> QED BY <1>1, <1>2, <1>3, <1>4, <1>5, <1>6, <1>7

\* An operation ends, and nothing is posted.
LEMMA RemoveKeeps ==
  ASSUME TypeOK, NEW e \in Ends, EndInv(e), NEW o \in ops[e], Remove(e, o),
         UNCHANGED <<queue, flag, has_recved, body_len, calls, sendVars, open, port_cb>>
  PROVE  /\ OpsType' /\ ops'[e] = ops[e] \ {o}
         /\ ReadsOnce(e)' /\ WritesOnce(e)' /\ Current(e)' /\ OwnedInv(e)' /\ Silent(e)'
         /\ \A p \in ops'[e] : p.ci \in 0 .. Len(calls[e]) /\ (p.pc = "io" => p.got < p.len)
         /\ \A p \in ReadOps(ops'[e]) : Piece(p, flag[e], has_recved[e], body_len[e])
<1>1. ops'[e] = ops[e] \ {o} /\ OpsType'
  BY DEF TypeOK, Remove, Set, OpsType
<1>2. ReadsOnce(e)'
  <2>1. Single(queue[e], ReadOps(ops[e]), {"bind", "recv"})
    BY DEF EndInv, ReadsOnce
  <2>2. ReadOps(ops'[e]) \subseteq ReadOps(ops[e])
    BY <1>1 DEF ReadOps
  <2>3. Single(queue[e], ReadOps(ops'[e]), {"bind", "recv"})
    BY <2>1, <2>2, SingleOps
  <2> QED BY <2>3 DEF ReadsOnce
<1>3. WritesOnce(e)'
  <2>1. Single(queue[e], WriteOps(ops[e]), {"sent"})
    BY DEF EndInv, WritesOnce
  <2>2. WriteOps(ops'[e]) \subseteq WriteOps(ops[e])
    BY <1>1 DEF WriteOps
  <2>3. Single(queue[e], WriteOps(ops'[e]), {"sent"})
    BY <2>1, <2>2, SingleOps
  <2> QED BY <2>3 DEF WritesOnce
<1>4. Current(e)'
  BY <1>1 DEF EndInv, Current, WriteOps, sendVars
<1>5. OwnedInv(e)' /\ Silent(e)'
  BY DEF EndInv, OwnedInv, Silent, sendVars
<1>6. \A p \in ops'[e] : p.ci \in 0 .. Len(calls[e]) /\ (p.pc = "io" => p.got < p.len)
  BY <1>1 DEF EndInv, KnownBytes, Framed
<1>7. \A p \in ReadOps(ops'[e]) : Piece(p, flag[e], has_recved[e], body_len[e])
  BY <1>1 DEF EndInv, Framed, ReadOps
<1> QED BY <1>1, <1>2, <1>3, <1>4, <1>5, <1>6, <1>7

LEMMA AdvancedType ==
  ASSUME NEW o \in Operations, o.got < o.len
  PROVE  /\ Advanced(o) \in Operations
         /\ Advanced(o).kind = o.kind /\ Advanced(o).ci = o.ci
         /\ Advanced(o).off = o.off /\ Advanced(o).len = o.len
         /\ Advanced(o).pc \in {"io", "ok"}
         /\ Advanced(o).pc = "io" => Advanced(o).got < Advanced(o).len
<1>1. o.got \in Nat /\ o.len \in Nat
  BY DEF Operations
<1>2. /\ Advanced(o).kind = o.kind /\ Advanced(o).ci = o.ci
      /\ Advanced(o).off = o.off /\ Advanced(o).len = o.len /\ Advanced(o).got = o.got + 1
      /\ Advanced(o).pc = IF o.got + 1 = o.len THEN "ok" ELSE "io"
  BY DEF Operations, Advanced
<1>3. Advanced(o) \in Operations
  <2> DEFINE p == [o EXCEPT !.got = o.got + 1]
             pc == IF o.got + 1 = o.len THEN "ok" ELSE "io"
  <2>1. p \in Operations
    BY <1>1 DEF Operations
  <2>2. Advanced(o) = [p EXCEPT !.pc = pc]
    BY DEF Advanced
  <2>3. pc \in {"io", "ok"}
    OBVIOUS
  <2> HIDE DEF p, pc
  <2>4. [p EXCEPT !.pc = pc] \in Operations
    BY <2>1, <2>3 DEF Operations
  <2> QED BY <2>2, <2>4
<1> QED BY <1>1, <1>2, <1>3

LEMMA TurnedType ==
  ASSUME NEW o \in Operations, NEW pc \in {"ok", "err", "call", "report"}
  PROVE  /\ [o EXCEPT !.pc = pc] \in Operations
         /\ [o EXCEPT !.pc = pc].kind = o.kind /\ [o EXCEPT !.pc = pc].ci = o.ci
         /\ [o EXCEPT !.pc = pc].off = o.off /\ [o EXCEPT !.pc = pc].len = o.len
         /\ [o EXCEPT !.pc = pc].pc = pc
BY DEF Operations

\* Most of the invariant holds whatever the operations do to the connection.
LEMMA IoKeeps ==
  ASSUME TypeOK, NEW e \in Ends, EndInv(e), NEW o \in ops[e],
         \/ Remove(e, o)
         \/ \E new \in Operations :
              /\ new.kind = o.kind /\ new.ci = o.ci /\ new.off = o.off /\ new.len = o.len
              /\ new.pc # "report" => o.pc # "report"
              /\ new.pc = "io" => new.got < new.len
              /\ Replace(e, o, new),
         UNCHANGED <<queue, recvVars, calls, sendVars, open, port_cb, wire>>
  PROVE  OpsType' /\ EndInv(e)'
<1>1. UNCHANGED <<queue, flag, has_recved, body_len, calls, sendVars, open, port_cb>>
  BY DEF recvVars
<1>2. /\ OpsType' /\ ReadsOnce(e)' /\ WritesOnce(e)' /\ Current(e)' /\ OwnedInv(e)' /\ Silent(e)'
      /\ \A p \in ops'[e] : p.ci \in 0 .. Len(calls[e]) /\ (p.pc = "io" => p.got < p.len)
      /\ \A p \in ReadOps(ops'[e]) : Piece(p, flag[e], has_recved[e], body_len[e])
  <2>1. CASE Remove(e, o)
    BY <1>1, <2>1, RemoveKeeps
  <2>2. CASE \E new \in Operations :
              /\ new.kind = o.kind /\ new.ci = o.ci /\ new.off = o.off /\ new.len = o.len
              /\ new.pc # "report" => o.pc # "report"
              /\ new.pc = "io" => new.got < new.len
              /\ Replace(e, o, new)
    BY <1>1, <2>2, ReplaceKeeps
  <2> QED BY <2>1, <2>2
<1>3. KnownBytes(e)'
  BY <1>2, KnownSame DEF recvVars
<1>4. Framed(e)'
  BY <1>1, <1>2 DEF EndInv, Framed, recvVars
<1> QED BY <1>2, <1>3, <1>4 DEF EndInv

LEMMA IoWriteInv ==
  ASSUME TypeOK, NEW e \in Ends, EndInv(e), NEW o \in ops[e], IoWrite(e, o)
  PROVE  TypeOK' /\ EndInv(e)'
<1> DEFINE byte == Image(o.ci, o.got)
<1>1. /\ o.pc = "io" /\ open[e] /\ Replace(e, o, Advanced(o))
      /\ \/ Len(wire[e]) < WireMax /\ wire' = Set(wire, e, Append(wire[e], byte))
         \/ wire' = wire
      /\ UNCHANGED <<queue, recvVars, sendVars, sockVars, userVars, link, calls>>
  BY DEF IoWrite
<1>2. o \in Operations /\ o.got < o.len /\ o.got \in Nat /\ o.ci \in 0 .. Len(calls[e])
  BY <1>1 DEF TypeOK, EndInv, Framed, KnownBytes, Operations
<1>3. Len(calls[e]) \in Nat /\ Len(calls[e]) <= MaxSends
  BY LenCalls DEF EndInv, KnownBytes
<1>4. /\ Advanced(o) \in Operations
      /\ Advanced(o).kind = o.kind /\ Advanced(o).ci = o.ci
      /\ Advanced(o).off = o.off /\ Advanced(o).len = o.len
      /\ Advanced(o).pc # "report" /\ o.pc # "report"
      /\ Advanced(o).pc = "io" => Advanced(o).got < Advanced(o).len
  BY <1>1, <1>2, AdvancedType
<1>5. byte \in BytesTo(Len(calls[e])) /\ byte \in Bytes
  BY <1>2, <1>3, Bounds DEF Image, BytesTo, Bytes
<1> HIDE DEF byte
<1>6. /\ OpsType' /\ ReadsOnce(e)' /\ WritesOnce(e)' /\ Current(e)' /\ OwnedInv(e)' /\ Silent(e)'
      /\ \A p \in ops'[e] : p.ci \in 0 .. Len(calls[e]) /\ (p.pc = "io" => p.got < p.len)
      /\ \A p \in ReadOps(ops'[e]) : Piece(p, flag[e], has_recved[e], body_len[e])
  BY <1>1, <1>4, ReplaceKeeps DEF recvVars, sockVars, userVars
<1>7. /\ wire \in [Ends -> Seq(Bytes)] /\ wire[e] \in Seq(BytesTo(Len(calls[e])))
      /\ Len(wire[e]) \in Nat
  <2>1. wire \in [Ends -> Seq(Bytes)] /\ wire[e] \in Seq(BytesTo(Len(calls[e])))
    BY DEF TypeOK, EndInv, KnownBytes
  <2> QED BY <2>1, LenProperties
<1>8. /\ wire' \in [Ends -> Seq(Bytes)] /\ wire'[e] \in Seq(BytesTo(Len(calls[e])))
      /\ \A d \in Ends : Len(wire'[d]) <= WireMax
  <2>1. CASE wire' = wire
    BY <1>7, <2>1 DEF TypeOK
  <2>2. CASE Len(wire[e]) < WireMax /\ wire' = Set(wire, e, Append(wire[e], byte))
    <3>1. Append(wire[e], byte) \in Seq(BytesTo(Len(calls[e])))
      BY <1>5, <1>7, AppendProperties
    <3>2. Append(wire[e], byte) \in Seq(Bytes) /\ Len(Append(wire[e], byte)) = Len(wire[e]) + 1
      BY <1>5, <1>7, AppendProperties
    <3>3. Set(wire, e, Append(wire[e], byte)) \in [Ends -> Seq(Bytes)]
      BY <1>7, <3>2, PutType
    <3>4. wire'[e] = Append(wire[e], byte) /\ \A d \in Ends : d # e => wire'[d] = wire[d]
      BY <1>7, <2>2 DEF Set
    <3>5. Len(wire'[e]) <= WireMax
      BY <1>7, <2>2, <3>2, <3>4, Bounds
    <3>6. \A d \in Ends : Len(wire[d]) <= WireMax
      BY DEF TypeOK
    <3> QED BY <2>2, <3>1, <3>3, <3>4, <3>5, <3>6
  <2> QED BY <1>1, <2>1, <2>2
<1>9. TypeOK'
  <2>1. NetTypes'
    BY <1>1, <1>8 DEF NetTypes, TypeOK
  <2> QED BY <1>1, <1>6, <2>1, TypesSame, TypeParts
<1>10. KnownBytes(e)'
  BY <1>1, <1>6, <1>8 DEF EndInv, KnownBytes, recvVars, sockVars
<1>11. Framed(e)'
  BY <1>1, <1>6 DEF EndInv, Framed, recvVars, sockVars
<1> QED BY <1>6, <1>9, <1>10, <1>11 DEF EndInv

LEMMA IoReadInv ==
  ASSUME TypeOK, NEW e \in Ends, EndInv(e), KnownBytes(Peer(e)), NEW o \in ops[e],
         IoRead(e, o)
  PROVE  TypeOK' /\ EndInv(e)'
<1> DEFINE f == Peer(e)
           byte == Head(wire[f])
           at == o.off + o.got + 1
<1>0. f \in Ends /\ f # e
  BY EndFacts
<1>1. /\ o.kind # "write" /\ o.pc = "io" /\ open[e] /\ Replace(e, o, Advanced(o))
      /\ wire[f] # <<>> /\ wire' = Set(wire, f, Tail(wire[f]))
      /\ IF o.kind = "hdr"
         THEN cmd_hdr' = Set(cmd_hdr, e, byte) /\ UNCHANGED cmd_body
         ELSE cmd_body' = [cmd_body EXCEPT ![e][at] = byte] /\ UNCHANGED cmd_hdr
      /\ UNCHANGED <<queue, flag, has_recved, body_len, delivered, sendVars, sockVars, userVars,
                     link, calls>>
  BY DEF IoRead
<1> HIDE DEF f
<1>2. /\ o \in Operations /\ o.got < o.len /\ o.got \in Nat /\ o.off \in Nat /\ o.len \in Nat
      /\ o \in ReadOps(ops[e])
  <2>1. o \in Operations
    BY DEF TypeOK
  <2>2. o.got < o.len
    BY <1>1 DEF EndInv, Framed
  <2>3. o \in ReadOps(ops[e])
    BY <1>1 DEF ReadOps
  <2> QED BY <2>1, <2>2, <2>3 DEF Operations
<1>3. /\ Len(calls[f]) \in Nat /\ Len(calls[f]) <= MaxSends
      /\ wire[f] \in Seq(BytesTo(Len(calls[f])))
  BY <1>0, LenCalls DEF KnownBytes, f
<1>4. /\ Advanced(o) \in Operations
      /\ Advanced(o).kind = o.kind /\ Advanced(o).ci = o.ci
      /\ Advanced(o).off = o.off /\ Advanced(o).len = o.len
      /\ Advanced(o).pc # "report" /\ o.pc # "report"
      /\ Advanced(o).pc = "io" => Advanced(o).got < Advanced(o).len
  BY <1>1, <1>2, AdvancedType
<1>5. byte \in BytesTo(Len(calls[f])) /\ byte \in Bytes
  <2>1. byte \in BytesTo(Len(calls[f]))
    BY <1>1, <1>3, ElemsTail
  <2>2. BytesTo(Len(calls[f])) \subseteq BytesTo(MaxSends) /\ BytesTo(MaxSends) = Bytes
    BY <1>3, Bounds, BytesGrow DEF BytesTo, Bytes
  <2> QED BY <2>1, <2>2
<1> HIDE DEF byte
<1>6. /\ OpsType' /\ ReadsOnce(e)' /\ WritesOnce(e)' /\ Current(e)' /\ OwnedInv(e)' /\ Silent(e)'
      /\ \A p \in ops'[e] : p.ci \in 0 .. Len(calls[e]) /\ (p.pc = "io" => p.got < p.len)
      /\ \A p \in ReadOps(ops'[e]) : Piece(p, flag[e], has_recved[e], body_len[e])
  BY <1>1, <1>4, ReplaceKeeps DEF sockVars, userVars
<1>7. /\ cmd_hdr' \in [Ends -> Bytes \cup {None}] /\ cmd_body' \in [Ends -> Seq(Bytes) \cup {None}]
      /\ cmd_hdr'[e] = cmd_hdr[e] \/ cmd_hdr'[e] \in BytesTo(Len(calls[f]))
      /\ flag[e] # 1 => cmd_body'[e] \in Seq(Bytes) /\ Len(cmd_body'[e]) = body_len[e]
  <2>1. /\ cmd_hdr \in [Ends -> Bytes \cup {None}]
        /\ cmd_body \in [Ends -> Seq(Bytes) \cup {None}]
        /\ flag[e] # 1 => cmd_body[e] \in Seq(Bytes) /\ Len(cmd_body[e]) = body_len[e]
    BY <1>1 DEF TypeOK, EndInv, Framed
  <2>2. CASE o.kind = "hdr"
    <3>1. byte \in Bytes \cup {None}
      BY <1>5
    <3>2. Set(cmd_hdr, e, byte) \in [Ends -> Bytes \cup {None}]
      BY <2>1, <3>1, PutType
    <3>3. Set(cmd_hdr, e, byte)[e] = byte
      BY <2>1 DEF Set
    <3> QED BY <1>1, <1>5, <2>1, <2>2, <3>2, <3>3
  <2>3. CASE o.kind # "hdr"
    <3> DEFINE buf == cmd_body[e]
    <3>1. Piece(o, flag[e], has_recved[e], body_len[e])
      BY <1>2 DEF EndInv, Framed
    <3>2. /\ flag[e] # 1 /\ o.off = has_recved[e] /\ has_recved[e] + o.len <= body_len[e]
      BY <2>3, <3>1 DEF Piece
    <3>3. buf \in Seq(Bytes) /\ Len(buf) = body_len[e] /\ body_len[e] \in Nat
      BY <2>1, <3>2 DEF TypeOK
    <3>4. at \in 1 .. Len(buf)
      BY <1>2, <3>2, <3>3
    <3> HIDE DEF at
    <3>5. cmd_body' = Set(cmd_body, e, [buf EXCEPT ![at] = byte])
      BY <1>1, <2>1, <2>3 DEF Set
    <3> HIDE DEF buf
    <3>6. [buf EXCEPT ![at] = byte] \in Seq(Bytes) /\ Len([buf EXCEPT ![at] = byte]) = Len(buf)
      BY <1>5, <3>3, <3>4, ExceptSeq
    <3>7. [buf EXCEPT ![at] = byte] \in Seq(Bytes) \cup {None}
      BY <3>6
    <3>8. Set(cmd_body, e, [buf EXCEPT ![at] = byte]) \in [Ends -> Seq(Bytes) \cup {None}]
      BY <2>1, <3>7, PutType
    <3>9. Set(cmd_body, e, [buf EXCEPT ![at] = byte])[e] = [buf EXCEPT ![at] = byte]
      BY <2>1 DEF Set
    <3> QED BY <1>1, <2>1, <2>3, <3>3, <3>5, <3>6, <3>8, <3>9
  <2> QED BY <2>2, <2>3
<1>8. /\ wire' \in [Ends -> Seq(Bytes)] /\ wire'[e] = wire[e]
      /\ \A d \in Ends : Len(wire'[d]) <= WireMax
  <2>1. wire \in [Ends -> Seq(Bytes)] /\ \A d \in Ends : Len(wire[d]) <= WireMax
    BY DEF TypeOK
  <2>2. /\ Tail(wire[f]) \in Seq(Bytes) /\ Len(Tail(wire[f])) = Len(wire[f]) - 1
        /\ Len(wire[f]) \in Nat
    BY <1>0, <1>1, <2>1, HeadTailProperties, LenProperties
  <2>3. Set(wire, f, Tail(wire[f])) \in [Ends -> Seq(Bytes)]
    BY <1>0, <2>1, <2>2, PutType
  <2>4. wire'[f] = Tail(wire[f]) /\ \A d \in Ends : d # f => wire'[d] = wire[d]
    BY <1>0, <1>1, <2>1 DEF Set
  <2>5. Len(wire'[f]) <= WireMax
    BY <1>0, <2>1, <2>2, <2>4, Bounds
  <2> QED BY <1>0, <1>1, <2>1, <2>3, <2>4, <2>5
<1>9. TypeOK'
  <2>1. NetTypes' /\ RecvTypes'
    BY <1>1, <1>7, <1>8 DEF NetTypes, RecvTypes, TypeOK
  <2> QED BY <1>1, <1>6, <2>1, TypesSame, TypeParts
<1>10. KnownBytes(e)'
  <2>1. open[e] => \/ cmd_hdr[e] \in BytesTo(Len(calls[f]))
                   \/ queue[e] # <<>> /\ Head(queue[e]).fn = "bind"
    BY DEF EndInv, KnownBytes, f
  <2>2. Len(calls[e]) <= MaxSends /\ wire[e] \in Seq(BytesTo(Len(calls[e])))
    BY DEF EndInv, KnownBytes
  <2> QED BY <1>1, <1>6, <1>7, <1>8, <2>1, <2>2 DEF KnownBytes, sockVars, f
<1>11. Framed(e)'
  BY <1>1, <1>6, <1>7 DEF EndInv, Framed, sockVars
<1> QED BY <1>6, <1>9, <1>10, <1>11 DEF EndInv

LEMMA IoFailInv ==
  ASSUME TypeOK, NEW e \in Ends, EndInv(e), NEW o \in ops[e], IoFail(e, o)
  PROVE  TypeOK' /\ EndInv(e)'
<1> DEFINE new == [o EXCEPT !.pc = "err"]
<1>1. /\ o.pc = "io" /\ Replace(e, o, new)
      /\ UNCHANGED <<queue, recvVars, sendVars, sockVars, userVars, netVars, calls>>
  BY DEF IoFail
<1>2. o \in Operations
  BY DEF TypeOK
<1>3. /\ new \in Operations /\ new.kind = o.kind /\ new.ci = o.ci /\ new.off = o.off
      /\ new.len = o.len /\ new.pc = "err"
  BY <1>2, TurnedType
<1> HIDE DEF new
<1>4. UNCHANGED <<queue, recvVars, calls, sendVars, open, port_cb, wire>>
  BY <1>1 DEF sockVars, userVars, netVars
<1>5. OpsType' /\ EndInv(e)'
  BY <1>1, <1>3, <1>4, IoKeeps
<1>6. TypeOK'
  BY <1>1, <1>5, TypesSame, TypeParts
<1> QED BY <1>5, <1>6

LEMMA HandlerCopyInv ==
  ASSUME TypeOK, NEW e \in Ends, EndInv(e), NEW o \in ops[e], HandlerCopy(e, o)
  PROVE  TypeOK' /\ EndInv(e)'
<1>1. /\ sock_cb' = sock_cb \/ sock_cb' = Set(sock_cb, e, sock_cb[e] \ {"err"})
      /\ o.pc \in {"ok", "err"}
      /\ \/ Remove(e, o)
         \/ \E pc \in {"call", "report"} : Replace(e, o, [o EXCEPT !.pc = pc])
      /\ UNCHANGED <<queue, recvVars, sendVars, open, userVars, netVars, calls>>
  BY DEF HandlerCopy, TakeError
<1>2. o \in Operations
  BY DEF TypeOK
<1>3. \/ Remove(e, o)
      \/ \E new \in Operations :
           /\ new.kind = o.kind /\ new.ci = o.ci /\ new.off = o.off /\ new.len = o.len
           /\ new.pc # "report" => o.pc # "report"
           /\ new.pc = "io" => new.got < new.len
           /\ Replace(e, o, new)
  <2>1. CASE Remove(e, o)
    BY <2>1
  <2>2. ASSUME NEW pc \in {"call", "report"}, Replace(e, o, [o EXCEPT !.pc = pc])
        PROVE  \E new \in Operations :
                 /\ new.kind = o.kind /\ new.ci = o.ci /\ new.off = o.off /\ new.len = o.len
                 /\ new.pc # "report" => o.pc # "report"
                 /\ new.pc = "io" => new.got < new.len
                 /\ Replace(e, o, new)
    <3> DEFINE new == [o EXCEPT !.pc = pc]
    <3>1. /\ new \in Operations /\ new.kind = o.kind /\ new.ci = o.ci /\ new.off = o.off
          /\ new.len = o.len /\ new.pc = pc
      <4>1. pc \in {"ok", "err", "call", "report"}
        OBVIOUS
      <4> QED BY <1>2, <4>1, TurnedType
    <3>2. Replace(e, o, new)
      BY <2>2
    <3> HIDE DEF new
    <3>3. /\ new.pc # "report" => o.pc # "report"
          /\ new.pc = "io" => new.got < new.len
      BY <1>1, <2>2, <3>1
    <3> QED BY <3>1, <3>2, <3>3
  <2> QED BY <1>1, <2>1, <2>2
<1>4. UNCHANGED <<queue, recvVars, calls, sendVars, open, port_cb, wire>>
  BY <1>1 DEF userVars, netVars
<1>5. OpsType' /\ EndInv(e)'
  BY <1>3, <1>4, IoKeeps
<1>6. SockTypes'
  <2>1. /\ sock_cb \in [Ends -> SUBSET {"recv", "send", "err"}] /\ open \in [Ends -> BOOLEAN]
        /\ sock_cb[e] \ {"err"} \in SUBSET {"recv", "send", "err"}
    BY DEF TypeOK
  <2>2. Set(sock_cb, e, sock_cb[e] \ {"err"}) \in [Ends -> SUBSET {"recv", "send", "err"}]
    BY <2>1, PutType
  <2> QED BY <1>1, <2>1, <2>2 DEF SockTypes
<1>7. TypeOK'
  BY <1>1, <1>5, <1>6, TypesSame, TypeParts
<1> QED BY <1>5, <1>7

LEMMA HandlerCallInv ==
  ASSUME TypeOK, NEW e \in Ends, EndInv(e), NEW o \in ops[e], HandlerCall(e, o)
  PROVE  TypeOK' /\ EndInv(e)'
<1> DEFINE fo == IF o.pc = "report" THEN Fo("error", 0)
                 ELSE IF o.kind = "write" THEN Fo("sent", o.len) ELSE Fo("recv", o.len)
<1>1. /\ o.pc \in {"call", "report"} /\ Remove(e, o)
      /\ queue' = Set(queue, e, Append(queue[e], fo)) \/ queue' = queue
      /\ UNCHANGED <<recvVars, sendVars, sockVars, userVars, netVars, calls>>
  BY DEF HandlerCall
<1>2. o \in Operations /\ o.len \in Nat /\ o.pc # "io"
  BY <1>1 DEF TypeOK, Operations
<1>3. /\ fo \in Fos /\ fo.fn # "bind" /\ fo.fn # "send"
      /\ fo.fn = "recv" => o \in ReadOps(ops[e]) /\ fo.arg = o.len
      /\ fo.fn = "sent" => o \in WriteOps(ops[e])
  <2>1. CASE o.pc = "report"
    BY <2>1, FoType
  <2>2. CASE o.pc # "report" /\ o.kind = "write"
    <3>1. fo = Fo("sent", o.len)
      BY <2>2
    <3> QED BY <1>2, <2>2, <3>1, FoType DEF WriteOps
  <2>3. CASE o.pc # "report" /\ o.kind # "write"
    <3>1. fo = Fo("recv", o.len)
      BY <2>3
    <3> QED BY <1>2, <2>3, <3>1, FoType DEF ReadOps
  <2> QED BY <2>1, <2>2, <2>3
<1> HIDE DEF fo
<1>4. ASSUME queue' = queue PROVE TypeOK' /\ EndInv(e)'
  <2>1. UNCHANGED <<queue, recvVars, calls, sendVars, open, port_cb, wire>>
    BY <1>1, <1>4 DEF sockVars, userVars, netVars
  <2>2. OpsType' /\ EndInv(e)'
    BY <1>1, <2>1, IoKeeps
  <2> QED BY <1>1, <1>4, <2>2, TypesSame, TypeParts
<1>5. ASSUME queue' = Set(queue, e, Append(queue[e], fo)) PROVE TypeOK' /\ EndInv(e)'
  <2>1. /\ QueueType' /\ queue'[e] = Append(queue[e], fo)
        /\ Elems(queue'[e]) = Elems(queue[e]) \cup {fo}
        /\ queue[e] # <<>> => queue'[e] # <<>> /\ Head(queue'[e]) = Head(queue[e])
    BY <1>3, <1>5, QueuePost
  <2>2. ops'[e] = ops[e] \ {o} /\ OpsType' /\ queue[e] \in Seq(Fos)
    BY <1>1 DEF TypeOK, Remove, Set, OpsType
  <2>3. TypeOK'
    BY <1>1, <2>1, <2>2, TypesSame, TypeParts
  <2>4. KnownBytes(e)'
    <3>1. /\ open[e] => \/ cmd_hdr[e] \in BytesTo(Len(calls[Peer(e)]))
                        \/ queue[e] # <<>> /\ Head(queue[e]).fn = "bind"
          /\ Len(calls[e]) <= MaxSends /\ wire[e] \in Seq(BytesTo(Len(calls[e])))
          /\ \A p \in ops[e] : p.ci \in 0 .. Len(calls[e])
      BY DEF EndInv, KnownBytes
    <3> QED BY <1>1, <2>1, <2>2, <3>1 DEF KnownBytes, recvVars, sockVars, netVars
  <2>5. ReadsOnce(e)'
    <3>1. Single(queue[e], ReadOps(ops[e]), {"bind", "recv"})
      BY DEF EndInv, ReadsOnce
    <3>2. ReadOps(ops'[e]) \subseteq ReadOps(ops[e])
      BY <2>2 DEF ReadOps
    <3>3. Single(queue[e], ReadOps(ops'[e]), {"bind", "recv"})
      BY <3>1, <3>2, SingleOps
    <3>4. fo.fn = "recv" => ReadOps(ops'[e]) = {} /\ Without(queue[e], {"bind", "recv"})
      BY <1>3, <2>2, <3>1 DEF Single, ReadOps
    <3>5. \/ fo.fn \notin {"bind", "recv"}
          \/ ReadOps(ops'[e]) = {} /\ Without(queue[e], {"bind", "recv"})
      BY <1>3, <3>4
    <3>6. Single(Append(queue[e], fo), ReadOps(ops'[e]), {"bind", "recv"})
      BY <1>3, <2>2, <3>3, <3>5, SingleAppend
    <3> QED BY <2>1, <3>6 DEF ReadsOnce
  <2>6. WritesOnce(e)'
    <3>1. Single(queue[e], WriteOps(ops[e]), {"sent"})
      BY DEF EndInv, WritesOnce
    <3>2. WriteOps(ops'[e]) \subseteq WriteOps(ops[e])
      BY <2>2 DEF WriteOps
    <3>3. Single(queue[e], WriteOps(ops'[e]), {"sent"})
      BY <3>1, <3>2, SingleOps
    <3>4. fo.fn = "sent" => WriteOps(ops'[e]) = {} /\ Without(queue[e], {"sent"})
      BY <1>3, <2>2, <3>1 DEF Single, WriteOps
    <3>5. \/ fo.fn \notin {"sent"}
          \/ WriteOps(ops'[e]) = {} /\ Without(queue[e], {"sent"})
      BY <3>4
    <3>6. Single(Append(queue[e], fo), WriteOps(ops'[e]), {"sent"})
      BY <1>3, <2>2, <3>3, <3>5, SingleAppend
    <3> QED BY <2>1, <3>6 DEF WritesOnce
  <2>7. Current(e)'
    <3>1. open[e] => /\ \A p \in WriteOps(ops[e]) : p.ci = cur_send[e]
                     /\ cur_send[e] = 0 => WriteOps(ops[e]) = {} /\ Without(queue[e], {"sent"})
      BY DEF EndInv, Current
    <3>2. WriteOps(ops'[e]) \subseteq WriteOps(ops[e])
      BY <2>2 DEF WriteOps
    <3>3. Without(queue[e], {"sent"}) /\ WriteOps(ops[e]) = {} => Without(queue'[e], {"sent"})
      BY <1>3, <2>1 DEF Without
    <3> QED BY <1>1, <3>1, <3>2, <3>3 DEF Current, sockVars, sendVars
  <2>8. Framed(e)'
    <3>1. /\ flag[e] # 2 => has_recved[e] = 0
          /\ \A p \in ops'[e] : p.pc = "io" => p.got < p.len
          /\ open[e] /\ flag[e] # 1 =>
               cmd_body[e] \in Seq(Bytes) /\ Len(cmd_body[e]) = body_len[e]
      BY <2>2 DEF EndInv, Framed
    <3>2. flag[e] # 1 => Without(queue'[e], {"bind"})
      BY <1>3, <2>1 DEF EndInv, Framed, Without
    <3>3. \A p \in ReadOps(ops'[e]) : Piece(p, flag[e], has_recved[e], body_len[e])
      BY <2>2 DEF EndInv, Framed, ReadOps
    <3>4. ASSUME flag[e] = 2, NEW f \in Elems(queue'[e]), f.fn = "recv"
          PROVE  has_recved[e] + f.arg <= body_len[e]
      <4>1. CASE f \in Elems(queue[e])
        BY <3>4, <4>1 DEF EndInv, Framed
      <4>2. CASE f = fo
        BY <1>3, <3>4, <4>2 DEF EndInv, Framed, Piece
      <4> QED BY <2>1, <3>4, <4>1, <4>2
    <3> QED BY <1>1, <3>1, <3>2, <3>3, <3>4 DEF Framed, recvVars, sockVars
  <2>9. OwnedInv(e)'
    <3>1. Owners(queue[e], cmd_info_list[e], cur_send[e], heap[e], calls[e])
      BY OwnersAt DEF EndInv
    <3>2. HeldOnce(Append(queue[e], fo), cmd_info_list[e], cur_send[e], heap[e], calls[e])
      BY <1>3, <3>1, OwnersPost
    <3>3. \A f \in Elems(queue'[e]) : f.fn = "send" => f.arg # 0
      BY <1>3, <2>1 DEF EndInv, OwnedInv
    <3> QED BY <1>1, <2>1, <3>2, <3>3 DEF OwnedInv, sendVars
  <2>10. Silent(e)'
    BY <1>1 DEF EndInv, Silent, sockVars, userVars
  <2> QED BY <2>3, <2>4, <2>5, <2>6, <2>7, <2>8, <2>9, <2>10 DEF EndInv
<1> QED BY <1>1, <1>4, <1>5
-----------------------------------------------------------------------------
(* The invariant holds.                                                    *)

LEMMA InitTypes == Init => TypeOK
<1> SUFFICES ASSUME Init PROVE TypeOK
  OBVIOUS
<1>1. /\ Fo("bind", 0) \in Fos /\ 0 \in 0 .. MaxSends /\ 0 <= WireMax /\ 1 \in 0 .. 2
  BY Bounds, FoType
<1>2. <<Fo("bind", 0)>> \in Seq(Fos)
  BY <1>1
<1>3. \A S : <<>> \in Seq(S)
  BY EmptySeq
<1>4. QueueType /\ UserTypes /\ SockTypes /\ OpsType
  BY <1>2 DEF Init, QueueType, UserTypes, SockTypes, OpsType
<1>5. RecvTypes
  BY <1>1, <1>3 DEF Init, RecvTypes
<1>6. SendTypes
  BY <1>1, <1>3 DEF Init, SendTypes
<1>7. NetTypes /\ CallsType
  <2>1. wire = [e \in Ends |-> <<>>] /\ link = TRUE /\ calls = [e \in Ends |-> <<>>]
    BY DEF Init
  <2>2. \A e \in Ends : Len(wire[e]) = 0
    BY <2>1
  <2>3. <<>> \in Seq(Bytes) /\ <<>> \in Calls
    BY <1>3 DEF Calls
  <2>4. wire \in [Ends -> Seq(Bytes)] /\ calls \in [Ends -> Calls]
    BY <2>1, <2>3
  <2>5. \A e \in Ends : Len(wire[e]) <= WireMax
    BY <1>1, <2>2
  <2> QED BY <2>1, <2>4, <2>5 DEF NetTypes, CallsType
<1> QED BY <1>4, <1>5, <1>6, <1>7, TypeParts

LEMMA InitIInv == Init => IInv
<1> SUFFICES ASSUME Init, NEW e \in Ends PROVE EndInv(e)
  BY InitTypes DEF IInv
<1>1. /\ queue[e] = <<Fo("bind", 0)>> /\ open[e] = TRUE /\ flag[e] = 1 /\ has_recved[e] = 0
      /\ ops[e] = {} /\ wire[e] = <<>> /\ calls[e] = <<>> /\ cur_send[e] = 0
      /\ cmd_info_list[e] = <<>> /\ heap[e] = {}
  BY DEF Init
<1>2. /\ Fo("bind", 0) \in Fos /\ Fo("bind", 0).fn = "bind" /\ Fo("bind", 0).arg = 0
  BY FoType
<1>3. Len(queue[e]) = 1 /\ queue[e][1] = Fo("bind", 0) /\ queue[e] # <<>>
      /\ Head(queue[e]) = Fo("bind", 0)
  BY <1>1
<1>4. Elems(queue[e]) = {Fo("bind", 0)}
  BY <1>3 DEF Elems
<1>5. KnownBytes(e)
  BY <1>1, <1>2, <1>3, Bounds, EmptySeq DEF KnownBytes
<1>6. ReadOps(ops[e]) = {} /\ WriteOps(ops[e]) = {}
  BY <1>1 DEF ReadOps, WriteOps
<1>7. ReadsOnce(e) /\ WritesOnce(e)
  <2>1. \A i, j \in 1 .. Len(queue[e]) : i = j
    BY <1>3
  <2> QED BY <1>6, <2>1 DEF ReadsOnce, WritesOnce, Single
<1>8. Framed(e)
  BY <1>1, <1>6 DEF Framed
<1>9. Current(e) /\ Silent(e)
  BY <1>1, <1>2, <1>4, <1>6 DEF Current, Silent, Without
<1>10. OwnedInv(e)
  <2>1. ASSUME NEW n \in Nat \ {0}
        PROVE  HeldBy(queue[e], cmd_info_list[e], cur_send[e], n) = Owed(heap[e], calls[e], n)
    <3>1. Occurs(queue[e], Fo("send", n)) = 0
      <4>1. Fo("bind", 0) # Fo("send", n)
        BY DEF Fo
      <4>2. Places(queue[e], Fo("send", n)) = {}
        BY <1>3, <4>1 DEF Places
      <4> QED BY <4>2, FS_EmptySet DEF Occurs
    <3>2. Occurs(cmd_info_list[e], n) = 0
      <4>1. Places(cmd_info_list[e], n) = {}
        BY <1>1 DEF Places
      <4> QED BY <4>1, FS_EmptySet DEF Occurs
    <3>3. Owed(heap[e], calls[e], n) = 0
      BY <1>1 DEF Owed
    <3> QED BY <1>1, <3>1, <3>2, <3>3 DEF HeldBy
  <2> QED BY <1>2, <1>4, <2>1 DEF OwnedInv, HeldOnce
<1> QED BY <1>5, <1>7, <1>8, <1>9, <1>10 DEF EndInv

LEMMA EndStepInv ==
  ASSUME IInv, NEW e \in Ends, EndStep(e)
  PROVE  IInv'
<1>1. /\ TypeOK /\ EndInv(e) /\ Peer(e) \in Ends /\ KnownBytes(Peer(e))
      /\ Len(calls[Peer(e)]) <= MaxSends
  BY EndFacts DEF IInv, EndInv, KnownBytes
<1>2. TypeOK' /\ EndInv(e)'
  <2>1. CASE SendMessage(e)
    BY <1>1, <2>1, SendMessageInv
  <2>2. CASE Clear(e)
    BY <1>1, <2>2, ClearInv
  <2>3. CASE BindSocketStrand(e)
    BY <1>1, <2>3, BindInv
  <2>4. CASE SendMessageStrand(e)
    BY <1>1, <2>4, SendInv
  <2>5. CASE OnSendStrand(e)
    BY <1>1, <2>5, SentInv
  <2>6. CASE OnRecvStrand(e)
    BY <1>1, <2>6, RecvInv
  <2>7. CASE ClearStrand(e) \/ OnErrorStrand(e)
    BY <1>1, <2>7, EndStrandInv
  <2>8. ASSUME NEW o \in ops[e], IoStep(e, o) PROVE TypeOK' /\ EndInv(e)'
    <3>1. CASE IoWrite(e, o)
      BY <1>1, <3>1, IoWriteInv
    <3>2. CASE IoRead(e, o)
      BY <1>1, <3>2, IoReadInv
    <3>3. CASE IoFail(e, o)
      BY <1>1, <3>3, IoFailInv
    <3>4. CASE HandlerCopy(e, o)
      BY <1>1, <3>4, HandlerCopyInv
    <3>5. CASE HandlerCall(e, o)
      BY <1>1, <3>5, HandlerCallInv
    <3> QED BY <2>8, <3>1, <3>2, <3>3, <3>4, <3>5 DEF IoStep
  <2> QED BY <2>1, <2>2, <2>3, <2>4, <2>5, <2>6, <2>7, <2>8 DEF EndStep, StrandStep
<1>3. \A d \in Ends : d # e => EndInv(d)'
  BY OtherInv
<1> QED BY <1>2, <1>3 DEF IInv

\* An end keeps its invariant when nothing at it changes.
LEMMA SameInv ==
  ASSUME IInv,
         UNCHANGED <<queue, recvVars, sendVars, sockVars, userVars, wire, ops, calls>>
  PROVE  \A e \in Ends : EndInv(e)'
<1> TAKE e \in Ends
<1> USE DEF recvVars, sendVars, sockVars, userVars
<1>1. EndInv(e)
  BY DEF IInv
<1>2. KnownBytes(e)' /\ ReadsOnce(e)' /\ WritesOnce(e)' /\ Silent(e)'
  BY <1>1 DEF EndInv, KnownBytes, ReadsOnce, WritesOnce, Silent
<1>3. Framed(e)' /\ Current(e)' /\ OwnedInv(e)'
  BY <1>1 DEF EndInv, Framed, Current, OwnedInv
<1> QED BY <1>2, <1>3 DEF EndInv

LEMMA LoseInv ==
  ASSUME IInv, Lose
  PROVE  IInv'
<1>1. UNCHANGED <<queue, recvVars, sendVars, sockVars, userVars, wire, ops, calls>> /\ link' = FALSE
  BY DEF Lose
<1>2. TypeOK
  BY DEF IInv
<1>3. NetTypes'
  BY <1>1, <1>2 DEF TypeOK, NetTypes
<1>4. TypeOK'
  BY <1>1, <1>2, <1>3, TypesSame, TypeParts
<1> QED BY <1>1, <1>4, SameInv DEF IInv

LEMMA StutterInv ==
  ASSUME IInv, UNCHANGED vars
  PROVE  IInv'
<1>1. UNCHANGED <<queue, recvVars, sendVars, sockVars, userVars, netVars, ops, calls>>
  BY DEF vars
<1>2. TypeOK
  BY DEF IInv
<1>3. TypeOK'
  BY <1>1, <1>2, TypesSame, TypeParts
<1>4. UNCHANGED wire
  BY <1>1 DEF netVars
<1> QED BY <1>1, <1>3, <1>4, SameInv DEF IInv

\* What a step is.
LEMMA NextSteps ==
  ASSUME [Next]_vars
  PROVE  (\E e \in Ends : EndStep(e)) \/ Lose \/ UNCHANGED vars
BY ParameterAssumption DEF Next, EndStep

LEMMA NextIInv ==
  ASSUME IInv, [Next]_vars
  PROVE  IInv'
BY NextSteps, EndStepInv, LoseInv, StutterInv

\* The inductive invariant.
THEOREM Invariance == Spec => []IInv
BY InitIInv, NextIInv, PTL DEF Spec
-----------------------------------------------------------------------------
(* The properties.                                                         *)

\* The netports, the sockets and the connection keep their types: what is
\* handed up is always a header and a body (netport.cpp:163-241).
THEOREM Types == Spec => []TypeOK
BY Invariance, PTL DEF IInv

\* The bytes that a read into the body still waits for fit the buffer that
\* flag_, has_recved_ and body_len say (netport.cpp:195-238).
Fits ==
  \A e \in Ends : \A o \in ops[e] :
    open[e] /\ o.kind = "body" /\ o.pc = "io" =>
      o.off + o.got < Len(cmd_body[e]) /\ o.off + o.len <= Len(cmd_body[e])

LEMMA FitsHere == IInv => Fits
<1> SUFFICES ASSUME IInv, NEW e \in Ends, NEW o \in ops[e],
                    open[e], o.kind = "body", o.pc = "io"
             PROVE  o.off + o.got < Len(cmd_body[e]) /\ o.off + o.len <= Len(cmd_body[e])
  BY DEF Fits
<1>1. Framed(e) /\ o \in Operations /\ body_len[e] \in Nat
  BY DEF IInv, EndInv, TypeOK
<1>2. o \in ReadOps(ops[e])
  BY DEF ReadOps
<1>3. Piece(o, flag[e], has_recved[e], body_len[e]) /\ o.got < o.len
  BY <1>1, <1>2 DEF Framed
<1>4. flag[e] # 1 /\ o.off = has_recved[e] /\ has_recved[e] + o.len <= body_len[e]
  BY <1>3 DEF Piece
<1>5. Len(cmd_body[e]) = body_len[e]
  BY <1>1, <1>4 DEF Framed
<1>6. o.off \in Nat /\ o.len \in Nat /\ o.got \in Nat
  BY <1>1 DEF Operations
<1> QED BY <1>1, <1>3, <1>4, <1>5, <1>6

\* No read of an open netport writes past the end of the body it was given,
\* however the stream is cut into pieces (netport.cpp:195-238).
THEOREM ReadsFit == Spec => []Fits
BY Invariance, FitsHere, PTL

LEMMA HeldIsBy ==
  ASSUME TypeOK, NEW e \in Ends, NEW n
  PROVE  Held(e, n) = HeldBy(queue[e], cmd_info_list[e], cur_send[e], n)
<1>1. DOMAIN queue[e] = 1 .. Len(queue[e]) /\ DOMAIN cmd_info_list[e] = 1 .. Len(cmd_info_list[e])
  BY LenProperties DEF TypeOK
<1> QED BY <1>1 DEF Held, HeldBy, Occurs, Places

LEMMA OwnedHere == IInv => Owned
<1> SUFFICES ASSUME IInv, NEW e \in Ends, NEW n \in 1 .. Len(calls[e])
             PROVE  Held(e, n) = (IF n \in heap[e] /\ calls[e][n].ok THEN 1 ELSE 0)
  BY DEF Owned
<1>1. TypeOK /\ OwnedInv(e) /\ Len(calls[e]) \in Nat
  BY LenCalls DEF IInv, EndInv
<1>2. n \in Nat \ {0}
  BY <1>1
<1>3. HeldBy(queue[e], cmd_info_list[e], cur_send[e], n) = Owed(heap[e], calls[e], n)
  BY <1>1, <1>2 DEF OwnedInv, HeldOnce
<1>4. Owed(heap[e], calls[e], n) = (IF n \in heap[e] /\ calls[e][n].ok THEN 1 ELSE 0)
  BY DEF Owed
<1> QED BY <1>1, <1>3, <1>4, HeldIsBy

\* Every cmd_info that is allocated and was posted has exactly one holder, and
\* one that was freed has none: it is neither leaked nor freed twice nor used
\* after that (netport.cpp:119-161, 250-333).
THEOREM OwnedOnce == Spec => []Owned
BY Invariance, OwnedHere, PTL

LEMMA OneWriteHere == IInv => OneWrite
<1> SUFFICES ASSUME IInv, NEW e \in Ends, NEW o \in ops[e], o.kind = "write", open[e]
             PROVE  o.ci = cur_send[e] /\ o.ci \in heap[e]
  BY DEF OneWrite
<1> DEFINE n == cur_send[e]
<1>1. TypeOK /\ EndInv(e) /\ OwnedInv(e)
  BY DEF IInv, EndInv
<1>2. o.ci = n /\ n # 0
  BY <1>1 DEF EndInv, Current, WriteOps
<1>3. n \in Nat \ {0}
  BY <1>1, <1>2, Bounds DEF TypeOK
<1>4. Owners(queue[e], cmd_info_list[e], n, heap[e], calls[e])
  BY <1>1, OwnersAt
<1> HIDE DEF n
<1>5. /\ Occurs(queue[e], Fo("send", n)) \in Nat /\ Occurs(cmd_info_list[e], n) \in Nat
      /\ Occurs(queue[e], Fo("send", n)) + Occurs(cmd_info_list[e], n) + 1
           = Owed(heap[e], calls[e], n)
  BY <1>3, <1>4, HeldFacts
<1>6. Owed(heap[e], calls[e], n) # 0
  BY <1>5
<1> QED BY <1>2, <1>6 DEF Owed, n

\* While the socket is open, the one write in flight is that of cur_send_, and
\* its buffer is not freed before its handler has run (netport.cpp:139-161,
\* 250-272).
THEOREM OneWriteAtATime == Spec => []OneWrite
BY Invariance, OneWriteHere, PTL

\* No callback of the user is made.
CallsKept(e) ==
  delivered'[e] = delivered[e] /\ finished'[e] = finished[e] /\ errors'[e] = errors[e]

LEMMA QuietStep ==
  ASSUME IInv, [Next]_vars, NEW e \in Ends, ~open[e]
  PROVE  CallsKept(e)
<1>1. TypeOK /\ ~port_cb[e]
  BY DEF IInv, EndInv, Silent
<1>2. ASSUME NEW d \in Ends, d # e, EndStep(d)
      PROVE  CallsKept(e)
  BY <1>1, <1>2, OtherOwn DEF Own, CallsKept
<1>3. CASE UNCHANGED <<recvVars, userVars>>
  BY <1>3 DEF recvVars, userVars, CallsKept
<1>4. CASE EndStep(e)
  <2>1. CASE SendMessage(e) \/ Clear(e) \/ SendMessageStrand(e)
    BY <1>3, <2>1 DEF SendMessage, Clear, SendMessageStrand
  <2>6. CASE OnSendStrand(e)
    BY <1>1, <2>6 DEF OnSendStrand, recvVars, CallsKept
  <2>2. CASE BindSocketStrand(e)
    BY <2>2 DEF BindSocketStrand, userVars, CallsKept
  <2>3. CASE OnRecvStrand(e)
    BY <1>3, <2>3 DEF OnRecvStrand
  <2>4. CASE ClearStrand(e) \/ OnErrorStrand(e)
    BY <1>1, <2>4 DEF ClearStrand, OnErrorStrand, DoClear, CallsKept
  <2>5. ASSUME NEW o \in ops[e], IoStep(e, o)
        PROVE  CallsKept(e)
    <3>1. CASE IoRead(e, o)
      BY <3>1 DEF IoRead, userVars, CallsKept
    <3>2. CASE ~IoRead(e, o)
      BY <1>3, <2>5, <3>2 DEF IoStep, IoWrite, IoFail, HandlerCopy, HandlerCall
    <3> QED BY <3>1, <3>2
  <2> QED BY <1>4, <2>1, <2>2, <2>3, <2>4, <2>5, <2>6 DEF EndStep, StrandStep
<1>5. CASE Lose
  BY <1>3, <1>5 DEF Lose
<1>6. CASE UNCHANGED vars
  BY <1>3, <1>6 DEF vars
<1> QED BY <1>2, <1>4, <1>5, <1>6, NextSteps

\* After i_do_clear the user of a netport gets no more callbacks, whatever was
\* in flight or posted (netport.cpp:250-252, 285-317).
THEOREM QuietAfterTheClear == Spec => QuietAfterClear
<1>1. ASSUME IInv, [Next]_vars
      PROVE  [\A e \in Ends : ~open[e] => /\ delivered'[e] = delivered[e]
                                          /\ finished'[e] = finished[e]
                                          /\ errors'[e] = errors[e]]_vars
  BY <1>1, QuietStep DEF CallsKept
<1> QED BY <1>1, Invariance, PTL DEF Spec, QuietAfterClear
-----------------------------------------------------------------------------
(* A netport keeps receiving, if post_call does not refuse.                *)

Going(e) == ReadOps(ops[e]) # {} \/ ~Without(queue[e], {"bind", "recv"})

\* The socket is open, and the error that would close it has not come up.
Expected(e) ==
  /\ open[e]
  /\ ~Without(queue[e], {"bind"}) \/ "err" \in sock_cb[e]
  /\ Without(queue[e], {"error"})

\* error_occur takes err_cb_, and nothing but i_do_clear takes recv_cb_.
Alive(e) ==
  /\ "err" \in sock_cb[e] => "recv" \in sock_cb[e]
  /\ Expected(e) => Going(e)

LEMMA ElemsSplit ==
  ASSUME NEW S, NEW q \in Seq(S), q # <<>>
  PROVE  Elems(q) = {Head(q)} \cup Elems(Tail(q))
<1>1. /\ Len(q) \in Nat \ {0} /\ Head(q) = q[1] /\ Len(Tail(q)) = Len(q) - 1
      /\ \A i \in 1 .. Len(Tail(q)) : Tail(q)[i] = q[i + 1]
  BY EmptySeq, LenProperties, HeadTailProperties
<1>2. Head(q) \in Elems(q) /\ Elems(Tail(q)) \subseteq Elems(q)
  BY ElemsTail
<1>3. ASSUME NEW i \in 1 .. Len(q) PROVE q[i] \in {Head(q)} \cup Elems(Tail(q))
  <2>1. CASE i = 1
    BY <1>1, <2>1
  <2>2. CASE i # 1
    <3>1. i - 1 \in 1 .. Len(Tail(q)) /\ (i - 1) + 1 = i
      BY <1>1, <2>2
    <3>2. Tail(q)[i - 1] = q[i]
      BY <1>1, <3>1
    <3> QED BY <3>1, <3>2 DEF Elems
  <2> QED BY <2>1, <2>2
<1> QED BY <1>2, <1>3 DEF Elems

LEMMA AliveKept ==
  ASSUME NEW e \in Ends, Alive(e),
         open'[e] => open[e],
         sock_cb'[e] = sock_cb[e],
         Without(queue[e], {"bind"}) => Without(queue'[e], {"bind"}),
         Without(queue'[e], {"error"}) => Without(queue[e], {"error"}),
         Going(e) => Going(e)'
  PROVE  Alive(e)'
BY DEF Alive, Expected

LEMMA AliveEnd ==
  ASSUME TypeOK, NEW e \in Ends, Alive(e), ~MayRefuse, EndStep(e)
  PROVE  Alive(e)'
<1>0. queue \in [Ends -> Seq(Fos)] /\ queue[e] \in Seq(Fos)
  BY DEF TypeOK
<1>1. ASSUME NEW fo \in Fos, fo.fn \in {"send", "clear"},
             queue' = queue \/ queue' = Set(queue, e, Append(queue[e], fo)),
             UNCHANGED <<open, sock_cb, ops>>
      PROVE  Alive(e)'
  <2>1. Elems(queue'[e]) = Elems(queue[e]) \/ Elems(queue'[e]) = Elems(queue[e]) \cup {fo}
    BY <1>1, QueuePost
  <2> QED BY <1>1, <2>1, AliveKept DEF Without, Going
<1>2. CASE SendMessage(e)
  <2>1. Fo("send", Len(calls[e]) + 1) \in Fos /\ Fo("send", Len(calls[e]) + 1).fn = "send"
    BY LenCalls, FoType
  <2>2. /\ UNCHANGED <<open, sock_cb, ops>>
        /\ \/ queue' = queue
           \/ queue' = Set(queue, e, Append(queue[e], Fo("send", Len(calls[e]) + 1)))
    BY <1>2 DEF SendMessage, sockVars
  <2> QED BY <1>1, <2>1, <2>2
<1>3. CASE Clear(e)
  <2>1. Fo("clear", 0) \in Fos /\ Fo("clear", 0).fn = "clear"
    BY FoType
  <2>2. /\ UNCHANGED <<open, sock_cb, ops>>
        /\ queue' = queue \/ queue' = Set(queue, e, Append(queue[e], Fo("clear", 0)))
    BY <1>3 DEF Clear, sockVars
  <2> QED BY <1>1, <2>1, <2>2
\* A read has started.
<1>4. ASSUME NEW o, o.kind # "write", o.pc = "io", o \in ops'[e],
             "err" \in sock_cb'[e] => "recv" \in sock_cb'[e]
      PROVE  Alive(e)'
  BY <1>4 DEF Alive, Going, ReadOps
<1>5. CASE BindSocketStrand(e)
  <2> DEFINE o == Op("hdr", 0, 0, 1)
  <2>1. o.kind # "write" /\ o.pc = "io"
    BY DEF Op
  <2>2. Start(e, o) /\ sock_cb' = Set(sock_cb, e, {"recv", "send", "err"})
    BY <1>5 DEF BindSocketStrand, ReadHeader
  <2> HIDE DEF o
  <2>3. o \in ops'[e] /\ sock_cb'[e] = {"recv", "send", "err"}
    BY <2>2 DEF Start, Set, TypeOK
  <2> QED BY <1>4, <2>1, <2>3
<1>6. CASE SendMessageStrand(e) \/ OnSendStrand(e)
  <2>1. /\ queue[e] # <<>> /\ Head(queue[e]).fn \in {"send", "sent"} /\ Pop(e)
        /\ UNCHANGED <<open, sock_cb>>
    BY <1>6 DEF SendMessageStrand, OnSendStrand, Runs, sockVars
  <2>2. Elems(queue[e]) = {Head(queue[e])} \cup Elems(queue'[e])
    BY <1>0, <2>1, QueuePop, ElemsSplit
  <2>3. ReadOps(ops[e]) \subseteq ReadOps(ops'[e])
    <3>1. ops[e] \subseteq ops'[e]
      BY <1>6 DEF SendMessageStrand, OnSendStrand, DropSend, QueueSend, StartSend, LastSent,
                  NextSent, Start, Set, TypeOK
    <3> QED BY <3>1 DEF ReadOps
  <2> QED BY <2>1, <2>2, <2>3, AliveKept DEF Without, Going
<1>7. CASE OnRecvStrand(e)
  <2>1. queue[e] # <<>> /\ UNCHANGED <<open, sock_cb>>
    BY <1>7 DEF OnRecvStrand, Runs, sockVars
  <2>2. CASE ~open[e]
    BY <2>1, <2>2 DEF Alive, Expected
  <2>3. ASSUME \E kind \in {"hdr", "body"}, off \in {0, Total(e)},
                  len \in {1, RecvSize(BodyLen(e)), RecvSize(body_len[e] - Total(e))} :
                  Start(e, Op(kind, 0, off, len))
        PROVE  Alive(e)'
    <3>1. PICK o : o.kind # "write" /\ o.pc = "io" /\ Start(e, o)
      BY <2>3 DEF Op
    <3>2. o \in ops'[e]
      BY <3>1 DEF Start, Set, TypeOK
    <3> QED BY <1>4, <2>1, <3>1, <3>2 DEF Alive
  <2>4. CASE WholeBody(e) \/ EmptyBody(e) \/ LastPiece(e)
    BY <2>3, <2>4 DEF WholeBody, EmptyBody, LastPiece, FinishCommand, ReadHeader
  <2>5. CASE StartBody(e) \/ NextPiece(e)
    BY <2>3, <2>5 DEF StartBody, NextPiece, Place
  <2>6. CASE BadHeader(e)
    <3>1. queue'[e] = Append(Tail(queue[e]), Fo("error", 0))
      BY <1>0, <2>6 DEF BadHeader, Set
    <3>2. Tail(queue[e]) \in Seq(Fos) /\ Fo("error", 0) \in Fos /\ Fo("error", 0).fn = "error"
      BY <1>0, <2>1, ElemsTail, FoType
    <3>3. Fo("error", 0) \in Elems(queue'[e])
      BY <3>1, <3>2, ElemsAppend
    <3>4. ~Without(queue'[e], {"error"})
      BY <3>2, <3>3 DEF Without
    <3> QED BY <2>1, <3>4 DEF Alive, Expected
  <2> QED BY <1>7, <2>2, <2>4, <2>5, <2>6 DEF OnRecvStrand
<1>8. CASE ClearStrand(e) \/ OnErrorStrand(e)
  <2>1. open'[e] = FALSE /\ sock_cb'[e] = {}
    BY <1>8 DEF ClearStrand, OnErrorStrand, DoClear, TypeOK, Set
  <2> QED BY <2>1 DEF Alive, Expected
\* An operation goes on.
<1>9. ASSUME NEW o \in ops[e], NEW new, Replace(e, o, new), new.kind = o.kind,
             new.pc # "report"
      PROVE  ReadOps(ops[e]) # {} => ReadOps(ops'[e]) # {}
  <2>1. ops'[e] = (ops[e] \ {o}) \cup {new}
    BY <1>9 DEF Replace, Set, TypeOK
  <2> QED BY <1>9, <2>1 DEF ReadOps
<1>10. ASSUME NEW o \in ops[e], IoWrite(e, o) \/ IoRead(e, o) PROVE Alive(e)'
  <2>1. Replace(e, o, Advanced(o)) /\ UNCHANGED <<queue, open, sock_cb>>
    BY <1>10 DEF IoWrite, IoRead, sockVars
  <2>2. Advanced(o).kind = o.kind /\ Advanced(o).pc # "report"
    <3>1. o \in Operations
      BY DEF TypeOK
    <3> QED BY <3>1 DEF Operations, Advanced
  <2>3. ReadOps(ops[e]) # {} => ReadOps(ops'[e]) # {}
    BY <1>9, <2>1, <2>2
  <2> QED BY <2>1, <2>3, AliveKept DEF Going
<1>11. ASSUME NEW o \in ops[e], IoFail(e, o) PROVE Alive(e)'
  <2>1. Replace(e, o, [o EXCEPT !.pc = "err"]) /\ UNCHANGED <<queue, open, sock_cb>>
    BY <1>11 DEF IoFail, sockVars
  <2>2. [o EXCEPT !.pc = "err"].kind = o.kind /\ [o EXCEPT !.pc = "err"].pc # "report"
    BY DEF TypeOK, Operations
  <2>3. ReadOps(ops[e]) # {} => ReadOps(ops'[e]) # {}
    BY <1>9, <2>1, <2>2
  <2> QED BY <2>1, <2>3, AliveKept DEF Going
<1>12. ASSUME NEW o \in ops[e], HandlerCopy(e, o) PROVE Alive(e)'
  <2>1. UNCHANGED <<queue, open>>
    BY <1>12 DEF HandlerCopy
  <2>2. ~Without(queue[e], {"bind"}) => Going(e)'
    BY <2>1 DEF Going, Without
  <2>3. CASE o.pc = "ok" /\ UNCHANGED sock_cb
    <3>1. CASE CallbackOf(o) \in sock_cb[e]
      <4>1. Replace(e, o, [o EXCEPT !.pc = "call"])
        BY <1>12, <2>3, <3>1 DEF HandlerCopy
      <4>2. [o EXCEPT !.pc = "call"].kind = o.kind /\ [o EXCEPT !.pc = "call"].pc # "report"
        BY DEF TypeOK, Operations
      <4>3. ReadOps(ops[e]) # {} => ReadOps(ops'[e]) # {}
        BY <1>9, <4>1, <4>2
      <4> QED BY <2>1, <2>3, <4>3, AliveKept DEF Going
    <3>2. CASE CallbackOf(o) \notin sock_cb[e]
      <4>1. ops'[e] = ops[e] \ {o}
        BY <1>12, <2>3, <3>2 DEF HandlerCopy, Remove, Set, TypeOK
      <4>2. CASE o.kind = "write"
        <5>1. ReadOps(ops'[e]) = ReadOps(ops[e])
          BY <4>1, <4>2 DEF ReadOps
        <5> QED BY <2>1, <2>3, <5>1, AliveKept DEF Going
      <4>3. CASE o.kind # "write"
        <5>1. "err" \notin sock_cb'[e]
          BY <2>3, <3>2, <4>3 DEF CallbackOf, Alive
        <5> QED BY <2>1, <2>2, <5>1 DEF Alive, Expected
      <4> QED BY <4>2, <4>3
    <3> QED BY <3>1, <3>2
  <2>4. CASE sock_cb' = Set(sock_cb, e, TakeError(sock_cb[e]))
    <3>1. "err" \notin sock_cb'[e]
      BY <2>4 DEF Set, TypeOK, TakeError
    <3> QED BY <2>1, <2>2, <3>1 DEF Alive, Expected
  <2> QED BY <1>12, <2>3, <2>4 DEF HandlerCopy
<1>13. ASSUME NEW o \in ops[e], HandlerCall(e, o) PROVE Alive(e)'
  <2> DEFINE fo == IF o.pc = "report" THEN Fo("error", 0)
                   ELSE IF o.kind = "write" THEN Fo("sent", o.len) ELSE Fo("recv", o.len)
  <2>1. /\ queue' = Set(queue, e, Append(queue[e], fo)) /\ UNCHANGED <<open, sock_cb>>
        /\ o.pc \in {"call", "report"}
    BY <1>13 DEF HandlerCall, sockVars
  <2>2. /\ fo \in Fos
        /\ fo.fn = IF o.pc = "report" THEN "error" ELSE IF o.kind = "write" THEN "sent" ELSE "recv"
    <3>1. o.len \in Nat
      BY DEF TypeOK, Operations
    <3> QED BY <3>1 DEF Fo, Fos
  <2> HIDE DEF fo
  <2>3. Elems(queue'[e]) = Elems(queue[e]) \cup {fo}
    BY <2>1, <2>2, QueuePost
  <2>4. ops'[e] = ops[e] \ {o}
    BY <1>13 DEF HandlerCall, Remove, Set, TypeOK
  <2>5. CASE o.pc = "report"
    <3>1. ~Without(queue'[e], {"error"})
      BY <2>2, <2>3, <2>5 DEF Without
    <3> QED BY <2>1, <3>1 DEF Alive, Expected
  <2>6. CASE o.pc # "report" /\ o.kind = "write"
    <3>1. ReadOps(ops'[e]) = ReadOps(ops[e])
      BY <2>4, <2>6 DEF ReadOps
    <3> QED BY <2>1, <2>2, <2>3, <2>6, <3>1, AliveKept DEF Going, Without
  <2>7. CASE o.pc # "report" /\ o.kind # "write"
    <3>1. Going(e)'
      BY <2>2, <2>3, <2>7 DEF Going, Without
    <3> QED BY <2>1, <3>1 DEF Alive
  <2> QED BY <2>5, <2>6, <2>7
<1> QED BY <1>2, <1>3, <1>5, <1>6, <1>7, <1>8, <1>10, <1>11, <1>12, <1>13
        DEF EndStep, StrandStep, IoStep

LEMMA AliveStep ==
  ASSUME TypeOK, ~MayRefuse, \A e \in Ends : Alive(e), [Next]_vars
  PROVE  \A e \in Ends : Alive(e)'
<1> TAKE e \in Ends
<1>1. ASSUME NEW d \in Ends, d # e, EndStep(d) PROVE Alive(e)'
  <2>1. UNCHANGED <<queue[e], open[e], sock_cb[e], ops[e]>>
    BY <1>1, OtherOwn DEF Own
  <2> QED BY <2>1 DEF Alive, Expected, Going
<1>2. CASE EndStep(e)
  BY <1>2, AliveEnd
<1>3. CASE UNCHANGED <<queue, open, sock_cb, ops>>
  BY <1>3 DEF Alive, Expected, Going
<1>4. CASE Lose \/ UNCHANGED vars
  BY <1>3, <1>4 DEF Lose, vars, sockVars
<1> QED BY <1>1, <1>2, <1>4, NextSteps

LEMMA InitAlive ==
  ASSUME Init
  PROVE  \A e \in Ends : Alive(e)
<1> TAKE e \in Ends
<1>1. queue[e] = <<Fo("bind", 0)>> /\ sock_cb[e] = {}
  BY DEF Init
<1>2. Fo("bind", 0).fn = "bind" /\ Fo("bind", 0) \in Elems(queue[e])
  BY <1>1, FoType DEF Elems
<1> QED BY <1>1, <1>2 DEF Alive, Going, Without

\* Of a set whose members are all the same there is one at most.
LEMMA OneAtMost ==
  ASSUME NEW X, \A x, y \in X : x = y
  PROVE  /\ Cardinality(X) \in {0, 1}
         /\ X = {} <=> Cardinality(X) = 0
<1>1. CASE X = {}
  BY <1>1, FS_EmptySet
<1>2. CASE X # {}
  <2>1. PICK x \in X : X = {x}
    BY <1>2
  <2>2. Cardinality({x}) = 1
    BY FS_Singleton
  <2> QED BY <1>2, <2>1, <2>2
<1> QED BY <1>1, <1>2

LEMMA KeepsReceivingHere ==
  ASSUME IInv, \A e \in Ends : Alive(e)
  PROVE  KeepsReceiving
<1> SUFFICES ASSUME NEW e \in Ends
             PROVE  /\ Receiving(e) <= 1
                    /\ open[e] /\ (Posted(e, "bind") \/ "err" \in sock_cb[e])
                         /\ ~Posted(e, "error") => Receiving(e) = 1
  BY DEF KeepsReceiving
<1> DEFINE reads == ReadOps(ops[e])
           posts == {i \in DOMAIN queue[e] : queue[e][i].fn \in {"bind", "recv"}}
<1>1. TypeOK /\ ReadsOnce(e) /\ DOMAIN queue[e] = 1 .. Len(queue[e])
  BY LenProperties DEF IInv, EndInv, TypeOK
<1>2. Single(queue[e], reads, {"bind", "recv"})
  BY <1>1 DEF ReadsOnce
<1>3. \A fn : Posted(e, fn) <=> ~Without(queue[e], {fn})
  BY <1>1 DEF Posted, Without, Elems
<1>4. posts = {} <=> Without(queue[e], {"bind", "recv"})
  BY <1>1 DEF Without, Elems
<1>5. /\ \A o, p \in reads : o = p
      /\ \A i, j \in posts : i = j
      /\ reads = {} \/ posts = {}
  BY <1>1, <1>2, <1>4 DEF Single
<1>6. Receiving(e) = Cardinality(reads) + Cardinality(posts)
  BY DEF Receiving, ReadOps
<1>7. open[e] /\ (Posted(e, "bind") \/ "err" \in sock_cb[e]) /\ ~Posted(e, "error")
        => reads # {} \/ posts # {}
  BY <1>3, <1>4 DEF Alive, Expected, Going
<1> HIDE DEF reads, posts
<1>8. /\ Cardinality(reads) \in {0, 1} /\ (reads = {} <=> Cardinality(reads) = 0)
      /\ Cardinality(posts) \in {0, 1} /\ (posts = {} <=> Cardinality(posts) = 0)
  BY <1>5, OneAtMost
<1> QED BY <1>5, <1>6, <1>7, <1>8

\* As long as post_call takes what is posted, one operation reads at a time, and
\* an open netport without an error always goes on receiving
\* (netport.cpp:163-241).
THEOREM KeepsOnReceiving ==
  ASSUME ~MayRefuse
  PROVE  Spec => []KeepsReceiving
<1> DEFINE AllAlive == \A e \in Ends : Alive(e)
<1>1. Init => AllAlive
  BY InitAlive
<1>2. IInv /\ AllAlive /\ [Next]_vars => AllAlive'
  BY AliveStep DEF IInv
<1>3. IInv /\ AllAlive => KeepsReceiving
  BY KeepsReceivingHere
<1> HIDE DEF AllAlive
<1> QED BY <1>1, <1>2, <1>3, Invariance, PTL DEF Spec
=============================================================================
