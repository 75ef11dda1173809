------------------------------- MODULE Netport -------------------------------
(***************************************************************************)
(* Two netports (src/bas/netport.cpp) connected by a pair of sockets       *)
(* (socket_t of src/bas/socket.hpp) and a byte stream each way.            *)
(*                                                                         *)
(* Every function of a netport is a function object posted under its       *)
(* strand; these run one at a time in the order of posting, which is what  *)
(* SerialExecutor says and StrandPool keeps.  Each is one action here.     *)
(* The io threads of asio carry out the reads and writes in flight and run *)
(* their completion handlers: a handler copies the callback of the socket  *)
(* in one step and calls it, which posts, in the next.                     *)
(*                                                                         *)
(* The n-th call of send_message at an end is called n, and so is its      *)
(* cmd_info.  A byte is what it is a part of: [ci, i, enc] is the i-th     *)
(* byte of the body of message ci, encrypted or not; i = 0 is its header,  *)
(* which travels as one byte.  The connection is made, and bind_socket     *)
(* posted, before the first state, as the two helpers do it.               *)
(***************************************************************************)
EXTENDS Integers, Sequences, FiniteSets

CONSTANTS
  A, B,          \* the two ends
  None,          \* a null pointer
  Senders,       \* the ends at which send_message is called
  Sizes,         \* the body lengths of messages
  Magics,        \* whether the magic number of a header is right
  MaxRecv,       \* TP_MAX_RECV_SIZE
  MaxSends,      \* bound: calls of send_message at each end
  WireMax,       \* bytes the connection holds each way
  MayClear,      \* whether clear is called
  MayFail,       \* whether the connection may be lost
  MayRefuse      \* whether post_call may refuse

Ends    == {A, B}
Peer(e) == IF e = A THEN B ELSE A

ASSUME ParameterAssumption ==
  /\ A # B /\ Senders \subseteq Ends
  /\ Sizes \subseteq Nat /\ Magics \subseteq BOOLEAN
  /\ {MaxRecv, MaxSends, WireMax} \subseteq Nat \ {0}
  /\ {MayClear, MayFail, MayRefuse} \subseteq BOOLEAN

Zero == [ci |-> 0, i |-> 0, enc |-> FALSE]

VARIABLES
  queue,          \* the function objects under the strand: their name and argument
  port_cb,        \* whether recv_cb_, send_cb_ and err_cb_ of the netport are set
  open,           \* is_open_ of the socket
  sock_cb,        \* which of recv_cb_, send_cb_ and err_cb_ of the socket are set
  flag,           \* flag_
  has_recved,     \* has_recved_
  cmd_hdr,        \* ci_.cmd_hdr
  cmd_body,       \* ci_.cmd_body
  body_len,       \* ci_.body_len
  cur_send,       \* cur_send_, 0 for none
  cmd_info_list,  \* cmd_info_list_
  ops,            \* the asynchronous reads and writes of the socket
  heap,           \* the cmd_infos that are allocated
  wire,           \* the bytes on their way from each end
  link,           \* whether the connection holds
  calls,          \* history: the calls of send_message, and whether they were posted
  delivered,      \* history: the calls of recv_cb_
  finished,       \* history: how often send_cb_ was called
  errors          \* history: how often err_cb_ was called

recvVars == <<flag, has_recved, cmd_hdr, cmd_body, body_len, delivered>>
sendVars == <<cur_send, cmd_info_list, heap>>
sockVars == <<open, sock_cb>>
userVars == <<port_cb, finished, errors>>
netVars  == <<wire, link>>
vars == <<queue, recvVars, sendVars, sockVars, userVars, netVars, ops, calls>>

\* An asynchronous operation on len bytes; a read puts them at off.
Op(kind, ci, off, len) ==
  [kind |-> kind, ci |-> ci, off |-> off, len |-> len, got |-> 0, pc |-> "io"]

Fo(fn, arg) == [fn |-> fn, arg |-> arg]

Init ==
  /\ queue = [e \in Ends |-> <<Fo("bind", 0)>>]
  /\ port_cb = [e \in Ends |-> TRUE]
  /\ open = [e \in Ends |-> TRUE]
  /\ sock_cb = [e \in Ends |-> {}]
  /\ flag = [e \in Ends |-> 1]
  /\ has_recved = [e \in Ends |-> 0]
  /\ cmd_hdr = [e \in Ends |-> None]
  /\ cmd_body = [e \in Ends |-> None]
  /\ body_len = [e \in Ends |-> 0]
  /\ cur_send = [e \in Ends |-> 0]
  /\ cmd_info_list = [e \in Ends |-> <<>>]
  /\ ops = [e \in Ends |-> {}]
  /\ heap = [e \in Ends |-> {}]
  /\ wire = [e \in Ends |-> <<>>]
  /\ link = TRUE
  /\ calls = [e \in Ends |-> <<>>]
  /\ delivered = [e \in Ends |-> <<>>]
  /\ finished = [e \in Ends |-> 0]
  /\ errors = [e \in Ends |-> 0]

Set(f, e, v) == [f EXCEPT ![e] = v]

\* The function object that runs is taken off the list.
Runs(e, fn)  == queue[e] # <<>> /\ Head(queue[e]).fn = fn
Pop(e)       == queue' = Set(queue, e, Tail(queue[e]))
Arg(e)       == Head(queue[e]).arg
Start(e, op) == ops' = Set(ops, e, ops[e] \cup {op})
-----------------------------------------------------------------------------
(* Calls from above, from any thread.                                      *)

\* send_message: the cmd_info is made, and its address posted.
SendMessage(e) ==
  /\ Len(calls[e]) < MaxSends
  /\ LET n == Len(calls[e]) + 1 IN
     /\ heap' = Set(heap, e, heap[e] \cup {n})
     /\ \E size \in Sizes, magic \in Magics, ok \in {TRUE, ~MayRefuse} :
          /\ calls' = Set(calls, e, Append(calls[e], [size |-> size, magic |-> magic, ok |-> ok]))
          /\ queue' = IF ok THEN Set(queue, e, Append(queue[e], Fo("send", n))) ELSE queue
  /\ UNCHANGED <<recvVars, cur_send, cmd_info_list, sockVars, userVars, netVars, ops>>

Posted(e, fn) == \E i \in DOMAIN queue[e] : queue[e][i].fn = fn

\* clear; the bound is one call in the queue at a time.
Clear(e) ==
  /\ MayClear
  /\ ~Posted(e, "clear")
  /\ \/ queue' = Set(queue, e, Append(queue[e], Fo("clear", 0)))
     \/ MayRefuse /\ UNCHANGED queue
  /\ UNCHANGED <<recvVars, sendVars, sockVars, userVars, netVars, ops, calls>>
-----------------------------------------------------------------------------
(* Function objects under the strand.                                      *)

\* Mutated form: the next header is not asked for.
NoRead(e) == UNCHANGED ops

ReadHeader(e) == Start(e, Op("hdr", 0, 0, 1))

\* i_bind_socket_strand
BindSocketStrand(e) ==
  /\ Runs(e, "bind") /\ Pop(e)
  /\ sock_cb' = Set(sock_cb, e, {"recv", "send", "err"})
  /\ cmd_hdr' = Set(cmd_hdr, e, Zero)
  /\ flag' = Set(flag, e, 1)
  /\ ReadHeader(e)
  /\ UNCHANGED <<has_recved, cmd_body, body_len, delivered, sendVars, open, userVars,
                 netVars, calls>>

\* The bytes of message n as async_write sends them: the header, then the
\* body through jf_msg_codec.
Image(n, i) == [ci |-> n, i |-> i, enc |-> i > 0]
Write(e, n) == Op("write", n, 0, calls[e][n].size + 1)

\* Mutated form: a message is written at once, whether or not one is in flight.
NeverSending(e) == FALSE

Sending(e) == cur_send[e] # 0

\* i_send_message_strand
DropSend(e) ==
  /\ ~open[e]
  /\ heap' = Set(heap, e, heap[e] \ {Arg(e)})
  /\ UNCHANGED <<cur_send, cmd_info_list, ops>>

QueueSend(e) ==
  /\ open[e] /\ Sending(e)
  /\ cmd_info_list' = Set(cmd_info_list, e, Append(cmd_info_list[e], Arg(e)))
  /\ UNCHANGED <<cur_send, heap, ops>>

StartSend(e) ==
  /\ open[e] /\ ~Sending(e)
  /\ cur_send' = Set(cur_send, e, Arg(e))
  /\ Start(e, Write(e, Arg(e)))
  /\ UNCHANGED <<cmd_info_list, heap>>

SendMessageStrand(e) ==
  /\ Runs(e, "send") /\ Pop(e)
  /\ DropSend(e) \/ QueueSend(e) \/ StartSend(e)
  /\ UNCHANGED <<recvVars, sockVars, userVars, netVars, calls>>

\* Mutated form: the message that is sent next stays in the list.
KeepFront(list) == list

\* cmd_info_list_.pop_front()
PopFront(list) == Tail(list)

\* i_on_send_strand: send_cb_ first, then the cmd_info is freed and
\* i_send_message_strand called with the next; the list is empty once the socket
\* is closed.
LastSent(e) ==
  /\ cmd_info_list[e] = <<>>
  /\ cur_send' = Set(cur_send, e, 0)
  /\ UNCHANGED <<cmd_info_list, ops>>

NextSent(e) ==
  /\ cmd_info_list[e] # <<>> /\ open[e]
  /\ cur_send' = Set(cur_send, e, Head(cmd_info_list[e]))
  /\ cmd_info_list' = Set(cmd_info_list, e, PopFront(cmd_info_list[e]))
  /\ Start(e, Write(e, Head(cmd_info_list[e])))

OnSendStrand(e) ==
  /\ Runs(e, "sent") /\ Pop(e)
  /\ finished' = IF port_cb[e] THEN Set(finished, e, finished[e] + 1) ELSE finished
  /\ heap' = Set(heap, e, heap[e] \ {cur_send[e]})
  /\ LastSent(e) \/ NextSent(e)
  /\ UNCHANGED <<recvVars, sockVars, port_cb, errors, netVars, calls>>

\* RC4 with the same key both ways.
Codec(byte) == [byte EXCEPT !.enc = ~@]

\* The end of case 0: the command is processed and the next header read.
FinishCommand(e, body, len) ==
  /\ delivered' = IF port_cb[e]
       THEN Set(delivered, e, Append(delivered[e],
              [hdr |-> cmd_hdr[e], body |-> [i \in 1 .. len |-> Codec(body[i])]]))
       ELSE delivered
  /\ cmd_body' = Set(cmd_body, e, None)
  /\ body_len' = Set(body_len, e, 0)
  /\ flag' = Set(flag, e, 1)
  /\ cmd_hdr' = Set(cmd_hdr, e, Zero)
  /\ ReadHeader(e)

\* What clone makes of the header: the magic number is right.
HeaderGood(e) ==
  cmd_hdr[e].ci # 0 /\ cmd_hdr[e].i = 0 /\ calls[Peer(e)][cmd_hdr[e].ci].magic

BodyLen(e) == calls[Peer(e)][cmd_hdr[e].ci].size

\* A read takes TP_MAX_RECV_SIZE bytes at most.
RecvSize(left) == IF left > MaxRecv THEN MaxRecv ELSE left

\* Case 1: a header has come in.
BadHeader(e) ==
  /\ ~HeaderGood(e)
  /\ \/ queue' = Set(queue, e, Append(Tail(queue[e]), Fo("error", 0)))
     \/ MayRefuse /\ Pop(e)
  /\ UNCHANGED <<recvVars, ops>>

EmptyBody(e) ==
  /\ HeaderGood(e) /\ BodyLen(e) = 0
  /\ Pop(e) /\ FinishCommand(e, <<>>, 0)
  /\ UNCHANGED has_recved

StartBody(e) ==
  /\ HeaderGood(e) /\ BodyLen(e) > 0
  /\ Pop(e)
  /\ cmd_body' = Set(cmd_body, e, [i \in 1 .. BodyLen(e) |-> Zero])
  /\ body_len' = Set(body_len, e, BodyLen(e))
  /\ flag' = Set(flag, e, IF BodyLen(e) > MaxRecv THEN 2 ELSE 0)
  /\ Start(e, Op("body", 0, 0, RecvSize(BodyLen(e))))
  /\ UNCHANGED <<has_recved, cmd_hdr, delivered>>

\* Mutated form: has_recved_ is left as it is for the next long command.
KeepCount(count) == count

\* has_recved_ = 0
ResetCount(count) == 0

\* Case 2: one more piece of a long body.
Total(e) == has_recved[e] + Arg(e)

LastPiece(e) ==
  /\ Total(e) = body_len[e]
  /\ Pop(e)
  /\ has_recved' = Set(has_recved, e, ResetCount(Total(e)))
  /\ FinishCommand(e, cmd_body[e], body_len[e])

\* Mutated form: every piece is put where the first was.
SamePlace(e) == 0

\* The place in the body of the piece that is read next.
Place(e) == Total(e)

NextPiece(e) ==
  /\ Total(e) # body_len[e]
  /\ Pop(e)
  /\ has_recved' = Set(has_recved, e, Total(e))
  /\ Start(e, Op("body", 0, Place(e), RecvSize(body_len[e] - Total(e))))
  /\ UNCHANGED <<flag, cmd_hdr, cmd_body, body_len, delivered>>

\* Case 0: the whole of a short body.
WholeBody(e) ==
  Pop(e) /\ FinishCommand(e, cmd_body[e], body_len[e]) /\ UNCHANGED has_recved

\* i_on_recv_strand
OnRecvStrand(e) ==
  /\ Runs(e, "recv")
  /\ \/ ~open[e] /\ Pop(e) /\ UNCHANGED <<recvVars, ops>>
     \/ open[e] /\ flag[e] = 0 /\ WholeBody(e)
     \/ open[e] /\ flag[e] = 1 /\ (BadHeader(e) \/ EmptyBody(e) \/ StartBody(e))
     \/ open[e] /\ flag[e] = 2 /\ (LastPiece(e) \/ NextPiece(e))
  /\ UNCHANGED <<sendVars, sockVars, userVars, netVars, calls>>

\* Mutated form: the callbacks of the netport stay set.
KeepCallbacks(e) == port_cb[e]

\* recv_cb_, send_cb_ and err_cb_ are emptied.
NoCallbacks(e) == FALSE

\* Mutated form: the messages that wait are not freed.
FreeCurrent(e) == heap[e] \ {cur_send[e]}

\* cmd_info_list_ and cur_send_ are freed.
FreeAll(e) ==
  heap[e] \ ({cur_send[e]} \cup {cmd_info_list[e][i] : i \in DOMAIN cmd_info_list[e]})

\* i_do_clear: socket_t::close aborts what is in flight.
DoClear(e) ==
  /\ port_cb' = Set(port_cb, e, NoCallbacks(e))
  /\ open' = Set(open, e, FALSE)
  /\ sock_cb' = Set(sock_cb, e, {})
  /\ heap' = Set(heap, e, FreeAll(e))
  /\ cmd_info_list' = Set(cmd_info_list, e, <<>>)
  /\ cur_send' = Set(cur_send, e, 0)
  /\ cmd_hdr' = Set(cmd_hdr, e, None)
  /\ cmd_body' = Set(cmd_body, e, None)
  /\ UNCHANGED <<flag, has_recved, body_len, delivered, netVars, ops, calls>>

\* i_do_clear, posted by clear.
ClearStrand(e) == Runs(e, "clear") /\ Pop(e) /\ DoClear(e) /\ UNCHANGED <<finished, errors>>

\* i_on_error_strand: err_cb_ first, then i_do_clear.
OnErrorStrand(e) ==
  /\ Runs(e, "error") /\ Pop(e)
  /\ errors' = IF port_cb[e] THEN Set(errors, e, errors[e] + 1) ELSE errors
  /\ DoClear(e)
  /\ UNCHANGED finished

StrandStep(e) ==
  \/ BindSocketStrand(e) \/ SendMessageStrand(e) \/ OnSendStrand(e)
  \/ OnRecvStrand(e) \/ ClearStrand(e) \/ OnErrorStrand(e)
-----------------------------------------------------------------------------
(* The asynchronous operations and their completion handlers.              *)

Replace(e, o, new) == ops' = Set(ops, e, (ops[e] \ {o}) \cup {new})
Remove(e, o)       == ops' = Set(ops, e, ops[e] \ {o})
Advanced(o) ==
  [o EXCEPT !.got = @ + 1, !.pc = IF o.got + 1 = o.len THEN "ok" ELSE "io"]

\* One more byte of a write is taken by the system, and goes nowhere once the
\* connection is lost or the other end has closed.
IoWrite(e, o) ==
  /\ o.kind = "write" /\ o.pc = "io"
  /\ open[e]
  /\ \/ /\ link /\ open[Peer(e)]
        /\ Len(wire[e]) < WireMax
        /\ wire' = Set(wire, e, Append(wire[e], Image(o.ci, o.got)))
     \/ /\ ~link \/ ~open[Peer(e)]
        /\ UNCHANGED wire
  /\ Replace(e, o, Advanced(o))
  /\ UNCHANGED <<queue, recvVars, sendVars, sockVars, userVars, link, calls>>

\* One more byte of a read comes in.
IoRead(e, o) ==
  /\ o.kind # "write" /\ o.pc = "io"
  /\ open[e]
  /\ wire[Peer(e)] # <<>>
  /\ LET byte == Head(wire[Peer(e)]) IN
     IF o.kind = "hdr"
     THEN cmd_hdr' = Set(cmd_hdr, e, byte) /\ UNCHANGED cmd_body
     ELSE cmd_body' = [cmd_body EXCEPT ![e][o.off + o.got + 1] = byte] /\ UNCHANGED cmd_hdr
  /\ wire' = Set(wire, Peer(e), Tail(wire[Peer(e)]))
  /\ Replace(e, o, Advanced(o))
  /\ UNCHANGED <<queue, flag, has_recved, body_len, delivered, sendVars, sockVars, userVars,
                 link, calls>>

\* An operation fails: it was aborted by close, the other end has closed or
\* the connection is lost.
IoFail(e, o) ==
  /\ o.pc = "io"
  /\ ~open[e] \/ ~open[Peer(e)] \/ ~link
  /\ Replace(e, o, [o EXCEPT !.pc = "err"])
  /\ UNCHANGED <<queue, recvVars, sendVars, sockVars, userVars, netVars, calls>>

CallbackOf(o) == IF o.kind = "write" THEN "send" ELSE "recv"

\* err_cb_ = {}
TakeError(cbs) == cbs \ {"err"}

\* Mutated form: no error is reported.
NeverReported(e) == FALSE

Reported(e) == "err" \in sock_cb[e]

\* The handler copies the callback under mutex_; error_occur empties err_cb_.
HandlerCopy(e, o) ==
  /\ \/ /\ o.pc = "ok"
        /\ UNCHANGED sock_cb
        /\ IF CallbackOf(o) \in sock_cb[e]
           THEN Replace(e, o, [o EXCEPT !.pc = "call"])
           ELSE Remove(e, o)
     \/ /\ o.pc = "err"
        /\ sock_cb' = Set(sock_cb, e, TakeError(sock_cb[e]))
        /\ IF Reported(e)
           THEN Replace(e, o, [o EXCEPT !.pc = "report"])
           ELSE Remove(e, o)
  /\ UNCHANGED <<queue, recvVars, sendVars, open, userVars, netVars, calls>>

\* It calls the copy, and i_on_recv, i_on_send or i_on_error posts.
HandlerCall(e, o) ==
  /\ o.pc \in {"call", "report"}
  /\ \/ queue' = Set(queue, e, Append(queue[e],
                   IF o.pc = "report" THEN Fo("error", 0)
                   ELSE IF o.kind = "write" THEN Fo("sent", o.len) ELSE Fo("recv", o.len)))
     \/ MayRefuse /\ UNCHANGED queue
  /\ Remove(e, o)
  /\ UNCHANGED <<recvVars, sendVars, sockVars, userVars, netVars, calls>>

IoStep(e, o) ==
  IoWrite(e, o) \/ IoRead(e, o) \/ IoFail(e, o) \/ HandlerCopy(e, o) \/ HandlerCall(e, o)

\* The connection is lost, with any of the bytes on their way.
Lose ==
  /\ MayFail /\ link
  /\ link' = FALSE
  /\ UNCHANGED <<queue, recvVars, sendVars, sockVars, userVars, wire, ops, calls>>

Next ==
  \/ \E e \in Senders : SendMessage(e)
  \/ \E e \in Ends : Clear(e) \/ StrandStep(e) \/ \E o \in ops[e] : IoStep(e, o)
  \/ Lose

Spec == Init /\ [][Next]_vars

\* The strand runs what is posted, which StrandPool shows of the pool, and the
\* io threads carry out what the connection allows, reads and writes alike.
Reads(e)  == \E o \in ops[e] : o.kind # "write" /\ IoStep(e, o)
Writes(e) == \E o \in ops[e] : o.kind = "write" /\ IoStep(e, o)

Fairness ==
  \A e \in Ends : WF_vars(StrandStep(e)) /\ WF_vars(Reads(e)) /\ WF_vars(Writes(e))

FairSpec == Spec /\ Fairness
-----------------------------------------------------------------------------
(* Properties.                                                             *)

Bytes == [ci : 0 .. MaxSends, i : Nat, enc : BOOLEAN]

Fos == [fn : {"bind", "send", "sent", "recv", "error", "clear"}, arg : Nat]

Operations ==
  [kind : {"hdr", "body", "write"}, ci : 0 .. MaxSends, off : Nat, len : Nat, got : Nat,
   pc : {"io", "ok", "err", "call", "report"}]

TypeOK ==
  /\ queue \in [Ends -> Seq(Fos)]
  /\ port_cb \in [Ends -> BOOLEAN]
  /\ open \in [Ends -> BOOLEAN]
  /\ sock_cb \in [Ends -> SUBSET {"recv", "send", "err"}]
  /\ flag \in [Ends -> 0 .. 2]
  /\ has_recved \in [Ends -> Nat]
  /\ cmd_hdr \in [Ends -> Bytes \cup {None}]
  /\ cmd_body \in [Ends -> Seq(Bytes) \cup {None}]
  /\ body_len \in [Ends -> Nat]
  /\ cur_send \in [Ends -> 0 .. MaxSends]
  /\ cmd_info_list \in [Ends -> Seq(1 .. MaxSends)]
  /\ ops \in [Ends -> SUBSET Operations]
  /\ heap \in [Ends -> SUBSET (1 .. MaxSends)]
  /\ wire \in [Ends -> Seq(Bytes)] /\ \A e \in Ends : Len(wire[e]) <= WireMax
  /\ link \in BOOLEAN
  /\ calls \in [Ends -> Seq([size : Sizes, magic : Magics, ok : BOOLEAN])]
  /\ delivered \in [Ends -> Seq([hdr : Bytes, body : Seq(Bytes)])]
  /\ finished \in [Ends -> Nat]
  /\ errors \in [Ends -> Nat]

\* How often cmd_info n is held: by a function object, in cmd_info_list_, by
\* cur_send_.
Held(e, n) ==
  Cardinality({i \in DOMAIN queue[e] : queue[e][i] = Fo("send", n)})
    + Cardinality({i \in DOMAIN cmd_info_list[e] : cmd_info_list[e][i] = n})
    + (IF cur_send[e] = n THEN 1 ELSE 0)

\* "post_call must hold the ownership of its parameters" (netport.cpp:46-47):
\* an allocated cmd_info has exactly one holder, so it is freed once and not
\* used after that, and one that was freed has none.  The exception: send_message
\* ignores a refused post, and nobody holds that cmd_info (netport.cpp:120-129).
Owned ==
  \A e \in Ends : \A n \in 1 .. Len(calls[e]) :
    Held(e, n) = (IF n \in heap[e] /\ calls[e][n].ok THEN 1 ELSE 0)

\* A write in flight is that of cur_send_, whose buffer is not freed before
\* its handler has run, unless the socket is closed (netport.cpp:139-161,
\* 250-272).
OneWrite ==
  \A e \in Ends : \A o \in ops[e] :
    o.kind = "write" /\ open[e] => o.ci = cur_send[e] /\ o.ci \in heap[e]

\* One operation reads at a time, and while the socket is open and has had no
\* error something will go on receiving: a read, its handler, or what it posted
\* (netport.cpp:163-241).  Otherwise the netport would be deaf.
Receiving(e) ==
  Cardinality({o \in ops[e] : o.kind # "write" /\ o.pc # "report"})
    + Cardinality({i \in DOMAIN queue[e] : queue[e][i].fn \in {"bind", "recv"}})

KeepsReceiving ==
  \A e \in Ends :
    /\ Receiving(e) <= 1
    /\ open[e] /\ (Posted(e, "bind") \/ "err" \in sock_cb[e]) /\ ~Posted(e, "error")
         => Receiving(e) = 1

\* After i_do_clear none of the three callbacks is made any more, whatever was in
\* flight or posted when the socket was closed (netport.cpp:250-252, 285-317): so the
\* error callback is made once at most, although a read, a write and a bad header
\* may all fail, and send_cb_, which is called without a look at the socket, never
\* for a write that was done before and is told of after.
QuietAfterClear ==
  [][\A e \in Ends : ~open[e] => /\ delivered'[e] = delivered[e]
                                 /\ finished'[e] = finished[e]
                                 /\ errors'[e] = errors[e]]_vars

\* What was handed to the netport as the n-th call.
MessageOf(cl, n) == [ci |-> n, size |-> cl[n].size, magic |-> cl[n].magic]

\* The message that a call of recv_cb_ hands up: whole, in order and decrypted,
\* or else no message.
Handed(e, d) ==
  LET n == d.hdr.ci
      m == calls[Peer(e)][n]
      plain == [i \in 1 .. m.size |-> [ci |-> n, i |-> i, enc |-> FALSE]]
  IN IF n \in DOMAIN calls[Peer(e)] /\ d.hdr.i = 0 /\ d.body = plain
     THEN MessageOf(calls[Peer(e)], n)
     ELSE None

\* A message counts as sent when its post was accepted; it is the Nth that was.
Accepted(cl) == {n \in DOMAIN cl : cl[n].ok}
Nth(cl, n)   == Cardinality({m \in Accepted(cl) : m <= n})

SentAt(e) ==
  [k \in 1 .. Cardinality(Accepted(calls[e])) |->
     MessageOf(calls[e], CHOOSE n \in Accepted(calls[e]) : Nth(calls[e], n) = k)]

MC == INSTANCE MessageChannel WITH
        Messages <- [ci : 1 .. MaxSends, size : Sizes, magic : Magics],
        sent <- [e \in Ends |-> SentAt(e)],
        delivered <- [e \in Ends |-> [k \in DOMAIN delivered[e] |-> Handed(e, delivered[e][k])]],
        broken <- ~link \/ \E e \in Ends : ~open[e]

\* The netports keep the promise of netport.h:3-12: messages arrive whole,
\* once and in order, through every cut of the stream into reads.
FifoChannel == MC!Spec

\* The same, and every message arrives unless the connection breaks.
ReliableChannel == MC!FairSpec

\* When the connection is lost or the other end closes, each end gets to know
\* and closes its socket (socket.hpp:411-425, netport.cpp:274-289).
LossNoticed == \A e \in Ends : ~link \/ ~open[Peer(e)] ~> ~open[e]

\* Once a netport is cleared, all cmd_infos it ever had get freed
\* (netport.cpp:141-150, 319-333).
Reclaimed ==
  \A e \in Ends : ~open[e] ~> \A n \in 1 .. Len(calls[e]) : n \notin heap[e]
=============================================================================
