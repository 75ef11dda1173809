--------------------------- MODULE ListenerHelper ---------------------------
(***************************************************************************)
(* acceptor_t (src/bas/socket.hpp), which accepts connections, and         *)
(* listener_helper_t (src/bas/listener_helper.hpp), which the accept       *)
(* callback makes for each of them, sharing one strand.                    *)
(*                                                                         *)
(* The k-th that connects is called k, and so are its helper and netport.  *)
(* The i-th call of async_accept is called i, and so is the chain of       *)
(* accepts it begins: the handler of one starts the next.  Handlers run on *)
(* the io threads; stop, uninit and send_message come from any thread,     *)
(* uninit and send_message from the moment the helper exists.              *)
(***************************************************************************)
EXTENDS PortStrand

CONSTANTS
  MaxPeers,    \* bound: connections that are made to the port
  MaxListens,  \* bound: calls of async_accept
  MaxCalls,    \* bound: calls of uninit and send_message
  IoThreads    \* the io threads of the pool

Peers   == 1 .. MaxPeers
Listens == 1 .. MaxListens

ASSUME ListenAssumption == {MaxPeers, MaxListens, MaxCalls, IoThreads} \subseteq Nat

VARIABLES
  quit,       \* quit_, not initialized by the constructor
  acpt_cb,    \* whether acpt_cb_ is set
  listening,  \* whether acceptor_ is open
  spot,       \* where stop() stands
  chain,      \* where the chain of a call of async_accept stands
  conn,       \* the connection its handler has, 0 for none
  io,         \* the io threads that are left
  away,       \* who has not connected
  waiting,    \* who waits to be accepted
  hpc,        \* how far the helper of a connection is
  stopped,    \* its stopped_
  cbs,        \* whether its recv_cb_ and disconn_cb_ are set
  calls,      \* called so far
  missed      \* history: the helpers whose uninit found no netport_

acceptVars == <<quit, acpt_cb, listening, spot>>
chainVars  == <<chain, conn, io, away, waiting>>
helperVars == <<hpc, stopped, cbs, missed>>
netVars    == <<sock, portVars, postVars, strandVars, events, crashed>>
vars == <<acceptVars, chainVars, helperVars, calls, netVars>>

Init ==
  /\ PortInit(Peers)
  /\ quit \in BOOLEAN /\ acpt_cb = FALSE /\ listening = FALSE /\ spot = "no"
  /\ chain = [i \in Listens |-> "none"]
  /\ conn = [i \in Listens |-> 0]
  /\ io = IoThreads
  /\ away = Peers /\ waiting = {}
  /\ hpc = [k \in Peers |-> "no"]
  /\ stopped = [k \in Peers |-> FALSE]
  /\ cbs = [k \in Peers |-> FALSE]
  /\ calls = 0
  /\ missed = {}
-----------------------------------------------------------------------------
(* bind_accept_callback, async_accept and stop.                            *)

BindAccept ==
  /\ ~acpt_cb /\ spot = "no"
  /\ acpt_cb' = TRUE
  /\ UNCHANGED <<quit, listening, spot, chainVars, helperVars, calls, netVars>>

\* async_accept, when nothing listens: the port is taken, or a chain begins.
AsyncAccept(i) ==
  /\ acpt_cb /\ ~listening /\ spot = "no"
  /\ chain[i] = "none" /\ \A j \in 1 .. i - 1 : chain[j] # "none"
  /\ quit' = FALSE
  /\ \/ UNCHANGED <<listening, chain>>
     \/ listening' = TRUE /\ chain' = [chain EXCEPT ![i] = "pending"]
  /\ UNCHANGED <<acpt_cb, spot, conn, io, away, waiting, helperVars, calls, netVars>>

\* A handler is inside the function that acpt_cb_ holds.
InCallback == \E i \in Listens : chain[i] \in {"user", "port"}

\* quit_ = true, acpt_cb_ = {}: each handler reads the one and then the other, so
\* nobody can tell that they are two.  A function destroyed while a handler is
\* inside it may go on or not.
Stop ==
  /\ listening /\ spot = "no"
  /\ quit' = TRUE /\ acpt_cb' = FALSE
  /\ \/ spot' = "close"
     \/ InCallback /\ spot' = "crash"
  /\ UNCHANGED <<listening, chainVars, helperVars, calls, netVars>>

\* acceptor_->close(): the accepts in flight fail, and who waits is turned away.
StopClose ==
  /\ spot = "close"
  /\ listening' = FALSE /\ spot' = "no"
  /\ chain' = [i \in Listens |-> IF chain[i] = "pending" THEN "aborted" ELSE chain[i]]
  /\ waiting' = {}
  /\ UNCHANGED <<quit, acpt_cb, conn, io, away, helperVars, calls, netVars>>

\* Somebody connects to the port.
Arrive(k) ==
  /\ listening /\ k \in away /\ \A j \in away : k <= j
  /\ away' = away \ {k} /\ waiting' = waiting \cup {k}
  /\ UNCHANGED <<acceptVars, chain, conn, io, helperVars, calls, netVars>>
-----------------------------------------------------------------------------
(* The handler of an accept, on an io thread.                              *)

Busy(i)  == chain[i] \in {"call", "user", "port", "after", "again"}
IoFree   == Cardinality({i \in Listens : Busy(i)}) < io

acceptFrame == <<acceptVars, calls, portVars, strandVars, crashed>>

\* The first who waits is accepted.
Accepted(i, k) ==
  /\ chain[i] = "pending" /\ listening /\ IoFree
  /\ k \in waiting /\ \A j \in waiting : k <= j
  /\ chain' = [chain EXCEPT ![i] = "call"]
  /\ conn' = [conn EXCEPT ![i] = k]
  /\ waiting' = waiting \ {k}
  /\ sock' = [sock EXCEPT ![k] = "open"]
  /\ UNCHANGED <<acceptFrame, io, away, helperVars, postVars, events>>

\* Mutated form: an accept that fails is the last.
LastError == "ended"

\* Mutated form: err is not looked at.
HandedOn == "call"

\* if (!err)
AfterError == "after"

\* An accept that was aborted, or fails by itself.
AcceptError(i) ==
  /\ IoFree
  /\ \/ chain[i] = "aborted" /\ UNCHANGED events
     \/ chain[i] = "pending" /\ events < MaxEvents /\ events' = events + 1
  /\ chain' = [chain EXCEPT ![i] = AfterError]
  /\ UNCHANGED <<acceptFrame, conn, io, away, waiting, helperVars, sock, postVars>>

\* acpt_cb_(sock, 0) makes a helper with its callbacks.
HandOver(i) ==
  /\ acpt_cb
  /\ chain' = [chain EXCEPT ![i] = "user"]
  /\ hpc' = [hpc EXCEPT ![conn[i]] = "new"]
  /\ cbs' = [cbs EXCEPT ![conn[i]] = TRUE]
  /\ UNCHANGED <<conn, io, sock, events>>

\* set_option, on a connection that has been reset, and an empty acpt_cb_ throw out
\* of io_.run(), which ends the thread; the socket goes with the handler.
Throw(i) ==
  /\ \/ ~acpt_cb /\ UNCHANGED events
     \/ events < MaxEvents /\ events' = events + 1
  /\ chain' = [chain EXCEPT ![i] = "thrown"]
  /\ conn' = [conn EXCEPT ![i] = 0]
  /\ io' = io - 1
  /\ sock' = [sock EXCEPT ![conn[i]] = "closed"]
  /\ UNCHANGED <<hpc, cbs>>

CallBack(i) ==
  /\ chain[i] = "call"
  /\ HandOver(i) \/ Throw(i)
  /\ UNCHANGED <<acceptFrame, away, waiting, stopped, missed, postVars>>

\* init, without a lock: netport_ and its callbacks.
InitPort(i) ==
  /\ chain[i] = "user"
  /\ chain' = [chain EXCEPT ![i] = "port"]
  /\ hpc' = [hpc EXCEPT ![conn[i]] = "port"]
  /\ port_cb' = [port_cb EXCEPT ![conn[i]] = TRUE]
  /\ UNCHANGED <<acceptVars, conn, io, away, waiting, stopped, cbs, missed, calls,
                 sock, bound, postVars, strandVars, events, crashed>>

\* netport_->bind_socket, whether stopped_ is set or not, and the end of the callback.
InitBind(i) ==
  /\ chain[i] = "port"
  /\ chain' = [chain EXCEPT ![i] = "after"]
  /\ conn' = [conn EXCEPT ![i] = 0]
  /\ hpc' = [hpc EXCEPT ![conn[i]] = "done"]
  /\ Post(Fo("bind", conn[i]))
  /\ UNCHANGED <<acceptFrame, io, away, waiting, stopped, cbs, missed, sock, events>>

\* if (!quit_)
CheckQuit(i) ==
  /\ chain[i] = "after"
  /\ chain' = [chain EXCEPT ![i] = IF quit THEN "ended" ELSE "again"]
  /\ UNCHANGED <<acceptVars, conn, io, away, waiting, helperVars, calls, netVars>>

\* i_start_accept, on acceptor_ as it is now: closed, it fails at once.
AcceptAgain(i) ==
  /\ chain[i] = "again"
  /\ chain' = [chain EXCEPT ![i] = IF listening THEN "pending" ELSE "aborted"]
  /\ UNCHANGED <<acceptVars, conn, io, away, waiting, helperVars, calls, netVars>>

ChainStep(i) ==
  \/ \E k \in Peers : Accepted(i, k)
  \/ AcceptError(i) \/ CallBack(i) \/ InitPort(i) \/ InitBind(i)
  \/ CheckQuit(i) \/ AcceptAgain(i)
-----------------------------------------------------------------------------
(* uninit and send_message.                                                *)

\* Mutated form: netport_ is used unseen.
AnyPort(k) == TRUE

\* if (netport_)
HasPort(k) == hpc[k] \in {"port", "done"}

\* Mutated form: only recv_cb_ is emptied.
KeepCallbacks(k) == cbs

\* recv_cb_ and disconn_cb_ are emptied.
NoCallbacks(k) == [cbs EXCEPT ![k] = FALSE]

\* uninit, called once for each helper.
Uninit(k) ==
  /\ hpc[k] # "no" /\ ~stopped[k]
  /\ calls < MaxCalls /\ calls' = calls + 1
  /\ stopped' = [stopped EXCEPT ![k] = TRUE]
  /\ cbs' = NoCallbacks(k)
  /\ \/ HasPort(k) /\ Post(Fo("clear", k)) /\ UNCHANGED missed
     \/ ~HasPort(k) /\ missed' = missed \cup {k} /\ UNCHANGED postVars
  /\ UNCHANGED <<acceptVars, chainVars, hpc, sock, portVars, strandVars, events, crashed>>

SendMessage(k) ==
  /\ HasPort(k) /\ ~stopped[k]
  /\ calls < MaxCalls /\ calls' = calls + 1
  /\ Post(Fo("send", k))
  /\ UNCHANGED <<acceptVars, chainVars, hpc, stopped, cbs, missed, sock, portVars, strandVars,
                 events, crashed>>
-----------------------------------------------------------------------------
\* i_on_recv, i_on_send and i_on_error are completions: they need an io thread.
Report(k) == IoFree /\ Event(k) /\ UNCHANGED <<acceptVars, chainVars, helperVars, calls>>

StrandStep ==
  /\ RunAlone \/ CallbackCopy(cbs[Cur]) \/ CallbackCall
  /\ UNCHANGED <<acceptVars, chainVars, helperVars, calls, refused, events>>

\* After an access violation nothing runs any more.
Dead == crashed \/ spot = "crash"

Next ==
  /\ ~Dead
  /\ \/ BindAccept \/ Stop \/ StopClose
     \/ \E i \in Listens : AsyncAccept(i) \/ ChainStep(i)
     \/ \E k \in Peers : Arrive(k) \/ Uninit(k) \/ SendMessage(k) \/ Report(k)
     \/ StrandStep

Spec == Init /\ [][Next]_vars

\* The io threads run what is ready, the strand runs, and stop() returns.
Fairness ==
  /\ \A i \in Listens : WF_vars(~Dead /\ ChainStep(i))
  /\ WF_vars(~Dead /\ StrandStep)
  /\ WF_vars(~Dead /\ StopClose)

FairSpec == Spec /\ Fairness
-----------------------------------------------------------------------------
(* Properties.                                                             *)

Stages == {"none", "pending", "aborted", "call", "user", "port", "after", "again", "ended",
           "thrown"}

TypeOK ==
  /\ PortTypes(Peers)
  /\ {quit, acpt_cb, listening} \subseteq BOOLEAN
  /\ spot \in {"no", "close", "crash"}
  /\ chain \in [Listens -> Stages]
  /\ conn \in [Listens -> 0 .. MaxPeers]
  /\ \A i \in Listens : chain[i] \in {"call", "user", "port"} <=> conn[i] # 0
  /\ io \in 0 .. IoThreads
  /\ away \subseteq Peers /\ waiting \subseteq Peers
  /\ hpc \in [Peers -> {"no", "new", "port", "done"}]
  /\ stopped \in [Peers -> BOOLEAN] /\ cbs \in [Peers -> BOOLEAN]
  /\ calls \in 0 .. MaxCalls
  /\ missed \subseteq Peers

\* The strand meets a netport without its socket only if a call came between
\* netport_ and bind_socket, which init makes without the lock: the bind is still
\* to come.  Or it was refused (listener_helper.hpp:28, 51, 62, 79).
BindsFirst ==
  crashed =>
    \/ hpc[Cur] = "port"
    \/ \E i \in DOMAIN queue : queue[i] = Fo("bind", Cur)
    \/ Fo("bind", Cur) \in refused

\* A copy of the callback of k is about to be called.
Copied(k) == spc = "call" /\ user_cb /\ Cur = k

\* Once uninit() has returned and the copy that was made before is called, there
\* is never another callback (listener_helper.hpp:56-64).
QuietAfterUninit ==
  [][\A k \in Peers : stopped[k] /\ ~Copied(k) => ~Copied(k)']_vars

\* uninit() closes the connection, unless post_call refuses the clear or uninit()
\* comes before netport_ is there: init then goes on and nobody will close it
\* (listener_helper.hpp:26-51, 59-62).
UninitCloses ==
  \A k \in Peers :
    stopped[k] ~>
      sock[k] = "closed" \/ k \in missed \/ Fo("clear", k) \in refused \/ Dead

\* A handler has thrown, and no other chain is left.
Lost ==
  /\ \E i \in Listens : chain[i] = "thrown"
  /\ \A i \in Listens : chain[i] \in {"none", "thrown", "ended"}

\* Whoever connects is handed to the user, or has the handler that throws, unless
\* the acceptor is stopped or what was thrown has ended the last chain or the last io
\* thread: no error of an accept, and no restart, does (socket.hpp:543-558).
AcceptsAll ==
  \A k \in Peers :
    k \in waiting ~> hpc[k] # "no" \/ sock[k] = "closed" \/ quit \/ Lost \/ io = 0 \/ Dead
=============================================================================
