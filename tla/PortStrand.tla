----------------------------- MODULE PortStrand -----------------------------
(***************************************************************************)
(* The netports of connector_helper_t and listener_helper_t as those can   *)
(* tell them (src/bas/netport.cpp, modelled in full by Netport): each has  *)
(* its socket, its callbacks and its errors, and what is posted to its     *)
(* strand is run in the order of posting, as StrandPool does.              *)
(*                                                                         *)
(* A netport is named by the connection it is made for.  A helper's module *)
(* EXTENDS this one and says who posts what.                               *)
(***************************************************************************)
EXTENDS Naturals, Sequences, FiniteSets

CONSTANTS
  MaxEvents,   \* bound: what the sockets report
  MaxRefused   \* bound: the function objects post_call refuses

ASSUME PortAssumption == {MaxEvents, MaxRefused} \subseteq Nat

VARIABLES
  sock,       \* the socket of a connection
  port_cb,    \* whether the callbacks of its netport are set
  bound,      \* the netports that have their sock_
  queue,      \* the strand's function objects
  refused,    \* history: the function objects that post_call refused
  spc,        \* where the function object that runs stands
  user_cb,    \* its copy of the helper's callback
  events,     \* reported so far
  crashed     \* a function object has used a sock_ that is not there

portVars   == <<port_cb, bound>>
postVars   == <<queue, refused>>
strandVars == <<spc, user_cb>>

Fo(fn, k) == [fn |-> fn, port |-> k]

PortInit(ports) ==
  /\ sock = [k \in ports |-> "none"]
  /\ port_cb = [k \in ports |-> FALSE]
  /\ bound = {}
  /\ queue = <<>> /\ refused = {}
  /\ spc = "idle" /\ user_cb = FALSE
  /\ events = 0
  /\ crashed = FALSE

\* post_call, which may refuse.
Post(fo) ==
  \/ queue' = Append(queue, fo) /\ UNCHANGED refused
  \/ /\ Cardinality(refused) < MaxRefused
     /\ refused' = refused \cup {fo} /\ UNCHANGED queue

\* How many function objects of that kind wait or run.
Pending(fn, k) == Cardinality({i \in DOMAIN queue : queue[i] = Fo(fn, k)})

Runs(fn) == spc = "idle" /\ queue # <<>> /\ Head(queue).fn = fn
Cur      == Head(queue).port

\* i_on_recv and i_on_send post "recv", i_on_error posts "error".  A read and a
\* write may both be done, and the socket and a bad header both be an error.  The
\* socket may be closed by then: a handler copies its callback first and posts
\* after.
\*
\* i_on_send_strand calls send_cb_ without a look at the socket, i_on_recv_strand
\* looks.  One kind stands for both, as a socket that is closed has lost the
\* callbacks of its netport with it (DoClear).
Event(k) ==
  /\ k \in bound
  /\ events < MaxEvents
  /\ events' = events + 1
  /\ \E fn \in {"recv", "error"} : Pending(fn, k) < 2 /\ Post(Fo(fn, k))
  /\ UNCHANGED <<sock, portVars, strandVars, crashed>>

\* i_bind_socket_strand
RunBind ==
  /\ Runs("bind")
  /\ bound' = bound \cup {Cur}
  /\ queue' = Tail(queue)
  /\ UNCHANGED <<sock, port_cb, spc, user_cb, crashed>>

\* i_send_message_strand and i_do_clear use sock_ at once, whether it is there or not.
RunUnbound ==
  /\ Runs("send") \/ Runs("clear")
  /\ Cur \notin bound
  /\ crashed' = TRUE
  /\ UNCHANGED <<sock, portVars, queue, spc, user_cb>>

\* i_send_message_strand: what is written is Netport's.
RunSend ==
  /\ Runs("send") /\ Cur \in bound
  /\ queue' = Tail(queue)
  /\ UNCHANGED <<sock, portVars, spc, user_cb, crashed>>

\* Mutated form: the callbacks of the netport stay set.
KeepPortCallbacks == port_cb

\* recv_cb_, send_cb_ and err_cb_ of the netport are emptied.
NoPortCallbacks == [port_cb EXCEPT ![Cur] = FALSE]

\* Mutated form: the socket stays open.
LeaveOpen == sock

\* sock_->close()
CloseSocket == [sock EXCEPT ![Cur] = "closed"]

\* i_do_clear
DoClear ==
  /\ port_cb' = NoPortCallbacks
  /\ sock' = CloseSocket
  /\ queue' = Tail(queue)
  /\ UNCHANGED <<bound, crashed>>

RunClear ==
  /\ Runs("clear") /\ Cur \in bound
  /\ DoClear
  /\ UNCHANGED <<spc, user_cb>>

\* i_on_recv_strand and i_on_error_strand, as far as the netport's callback.
RunCallback ==
  /\ \/ Runs("recv") /\ sock[Cur] = "open"
     \/ Runs("error")
  /\ port_cb[Cur]
  /\ spc' = "copy"
  /\ UNCHANGED <<sock, portVars, queue, user_cb, crashed>>

\* The same when there is no callback to make.
RunSilent ==
  /\ \/ Runs("recv") /\ (sock[Cur] # "open" \/ ~port_cb[Cur])
        /\ queue' = Tail(queue) /\ UNCHANGED <<sock, portVars, crashed>>
     \/ Runs("error") /\ ~port_cb[Cur] /\ DoClear
  /\ UNCHANGED <<spc, user_cb>>

\* The lambda set by the helper copies the helper's callback, set or not, in the
\* helper's lock.
CallbackCopy(cb) ==
  /\ spc = "copy"
  /\ spc' = "call" /\ user_cb' = cb
  /\ UNCHANGED <<sock, portVars, queue, crashed>>

\* It calls the copy; an error is followed by i_do_clear.
CallbackCall ==
  /\ spc = "call"
  /\ spc' = "idle" /\ user_cb' = FALSE
  /\ \/ /\ Head(queue).fn = "recv"
        /\ queue' = Tail(queue) /\ UNCHANGED <<sock, portVars, crashed>>
     \/ Head(queue).fn = "error" /\ DoClear

\* A function object that needs nothing of its helper.
RunAlone == RunBind \/ RunUnbound \/ RunSend \/ RunClear \/ RunCallback \/ RunSilent
-----------------------------------------------------------------------------
FoFns == {"bind", "send", "clear", "recv", "error"}

PortTypes(ports) ==
  /\ sock \in [ports -> {"none", "open", "closed"}]
  /\ port_cb \in [ports -> BOOLEAN]
  /\ bound \subseteq ports
  /\ queue \in Seq([fn : FoFns, port : ports]) /\ refused \subseteq [fn : FoFns, port : ports]
  /\ spc \in {"idle", "copy", "call"}
  /\ spc # "idle" => queue # <<>> /\ Head(queue).fn \in {"recv", "error"}
  /\ user_cb \in BOOLEAN /\ crashed \in BOOLEAN
  /\ events \in 0 .. MaxEvents
=============================================================================
