-------------------------- MODULE ConnectorHelper --------------------------
(***************************************************************************)
(* src/bas/connector_helper.hpp: a connection made by connector_t          *)
(* (src/bas/socket.hpp), the netport put on it, and stop(), which may be   *)
(* called at any moment by any thread.                                     *)
(*                                                                         *)
(* The k-th call of start is called k, and so are its connection and its   *)
(* netport.  The netports and their strand are those of PortStrand.        *)
(*                                                                         *)
(* send_message reads netport_ without the lock, so the handler of the     *)
(* connection is cut between the assignment of netport_ and the post of    *)
(* bind_socket.                                                            *)
(***************************************************************************)
EXTENDS PortStrand

CONSTANTS
  MaxStarts,   \* bound: calls of start
  MaxSends     \* bound: calls of send_message that find a netport

Starts == 1 .. MaxStarts

ASSUME BoundAssumption == {MaxStarts, MaxSends} \subseteq Nat

VARIABLES
  stopped,    \* stopped_
  cbs,        \* whether conn_cb_, disconn_cb_ and recv_cb_ are set
  mutex,      \* the start whose handler is inside mutex_, 0 for none
  netport,    \* netport_, 0 for none
  hpc,        \* where the connection and its handler stand
  conn_cb,    \* the handler's copy of conn_cb_
  sends,      \* sent so far
  log         \* history: the callbacks made for each start

helperVars == <<stopped, cbs, mutex, netport>>
handlerVars == <<hpc, conn_cb>>
countVars  == <<sends, events>>
vars == <<helperVars, handlerVars, sock, portVars, postVars, strandVars, countVars, log,
  crashed>>

Init ==
  /\ PortInit(Starts)
  /\ stopped = FALSE /\ cbs = TRUE /\ mutex = 0 /\ netport = 0
  /\ hpc = [k \in Starts |-> "no"]
  /\ conn_cb = [k \in Starts |-> FALSE]
  /\ sends = 0
  /\ log = [k \in Starts |-> <<>>]

Has(k, what) == \E i \in DOMAIN log[k] : log[k][i] = what
-----------------------------------------------------------------------------
(* Connecting, and the handler on an io thread.                            *)

connectFrame == <<portVars, postVars, strandVars, countVars, log, crashed>>

\* start; again only when the last start has come to nothing.  async_connect
\* returns false for port 0, at once and calling nobody, and start ignores what
\* it returns.
Start(k) ==
  /\ hpc[k] = "no"
  /\ \A j \in 1 .. k - 1 : Has(j, "failed") \/ Has(j, "disconnected") \/ hpc[j] = "ignored"
  /\ \E pc \in {"resolve", "ignored"} : hpc' = [hpc EXCEPT ![k] = pc]
  /\ UNCHANGED <<helperVars, conn_cb, sock, connectFrame>>

\* Mutated form: i_resolve returns and calls nobody.
Unreported == "done"

\* cb(..., RESOLVE_ERR)
NoAddress == "failed"

\* i_resolve: no address, or i_connect with the first.
Resolved(k) ==
  /\ hpc[k] = "resolve"
  /\ \E pc \in {NoAddress, "connect"} : hpc' = [hpc EXCEPT ![k] = pc]
  /\ UNCHANGED <<helperVars, conn_cb, sock, connectFrame>>

\* i_connect: a connection, or an error.  set_option throws if the connection has
\* been reset by then: that ends the io thread, and the socket goes with the handler.
Connected(k) ==
  /\ hpc[k] = "connect"
  /\ \/ hpc' = [hpc EXCEPT ![k] = "failed"] /\ UNCHANGED sock
     \/ hpc' = [hpc EXCEPT ![k] = "thrown"] /\ sock' = [sock EXCEPT ![k] = "closed"]
     \/ hpc' = [hpc EXCEPT ![k] = "made"] /\ sock' = [sock EXCEPT ![k] = "open"]
  /\ UNCHANGED <<helperVars, conn_cb, portVars, postVars, strandVars, countVars, log, crashed>>

\* Mutated form: stopped_ is not looked at.
NeverStopped == FALSE

\* if (stopped_)
IsStopped == stopped

\* The handler in the lock, up to netport_ and its callbacks.
HandlerLock(k) ==
  /\ hpc[k] \in {"failed", "made"}
  /\ mutex = 0
  /\ conn_cb' = [conn_cb EXCEPT ![k] = cbs]
  /\ \/ /\ IsStopped
        /\ hpc' = [hpc EXCEPT ![k] = "done"]
        /\ sock' = [sock EXCEPT ![k] = IF hpc[k] = "made" THEN "closed" ELSE @]
        /\ UNCHANGED <<mutex, netport, port_cb>>
     \/ /\ ~IsStopped /\ hpc[k] = "failed"
        /\ hpc' = [hpc EXCEPT ![k] = "call"]
        /\ UNCHANGED <<mutex, netport, port_cb, sock>>
     \/ /\ ~IsStopped /\ hpc[k] = "made"
        /\ hpc' = [hpc EXCEPT ![k] = "bind"]
        /\ mutex' = k /\ netport' = k
        /\ port_cb' = [port_cb EXCEPT ![k] = TRUE]
        /\ UNCHANGED sock
  /\ UNCHANGED <<stopped, cbs, bound, postVars, strandVars, countVars, log, crashed>>

\* netport_->bind_socket, and the end of the lock.
HandlerBind(k) ==
  /\ hpc[k] = "bind"
  /\ hpc' = [hpc EXCEPT ![k] = "call"]
  /\ mutex' = 0
  /\ Post(Fo("bind", k))
  /\ UNCHANGED <<stopped, cbs, netport, conn_cb, sock, portVars, strandVars, countVars, log,
                 crashed>>

\* conn_cb(tmp_err)
HandlerCall(k) ==
  /\ hpc[k] = "call"
  /\ hpc' = [hpc EXCEPT ![k] = "done"]
  /\ log' = IF conn_cb[k]
       THEN [log EXCEPT ![k] = Append(@, IF sock[k] = "none" THEN "failed" ELSE "connected")]
       ELSE log
  /\ conn_cb' = [conn_cb EXCEPT ![k] = FALSE]
  /\ UNCHANGED <<helperVars, sock, portVars, postVars, strandVars, countVars, crashed>>

ConnectStep(k) ==
  Resolved(k) \/ Connected(k) \/ HandlerLock(k) \/ HandlerBind(k) \/ HandlerCall(k)
-----------------------------------------------------------------------------
(* stop and send_message, from any thread.                                 *)

\* Mutated form: netport_ is used unseen.
AnyPort == TRUE

\* if (netport_)
HasPort == netport # 0

\* Mutated form: the callbacks stay set.
KeepAll == cbs

\* conn_cb_, disconn_cb_, recv_cb_ and send_cb_ are emptied.
NoneLeft == FALSE

\* Mutated form: stop does not take the lock.
Unlocked == TRUE

\* std::lock_guard in stop
StopLocks == mutex = 0

\* The bound is one clear in the queue at a time.
Stop ==
  /\ StopLocks
  /\ Pending("clear", netport) = 0
  /\ stopped' = TRUE
  /\ cbs' = NoneLeft
  /\ \/ ~HasPort /\ UNCHANGED postVars
     \/ HasPort /\ Post(Fo("clear", netport))
  /\ UNCHANGED <<mutex, netport, handlerVars, sock, portVars, strandVars, countVars, log, crashed>>

\* if (netport_) netport_->send_message(...), without the lock.
SendMessage ==
  /\ HasPort
  /\ sends < MaxSends
  /\ sends' = sends + 1
  /\ Post(Fo("send", netport))
  /\ UNCHANGED <<helperVars, handlerVars, sock, portVars, strandVars, events, log, crashed>>
-----------------------------------------------------------------------------
(* The netports and their strand.                                          *)

Report(k) == Event(k) /\ UNCHANGED <<helperVars, handlerVars, sends, log>>

\* What the user is told by a callback of the netport.
Told(fn) == IF fn = "recv" THEN "received" ELSE "disconnected"

strandFrame == <<helperVars, handlerVars, refused, countVars>>

StrandStep ==
  /\ \/ RunAlone /\ UNCHANGED log
     \/ mutex = 0 /\ CallbackCopy(cbs) /\ UNCHANGED log
     \/ /\ CallbackCall
        /\ log' = IF user_cb THEN [log EXCEPT ![Cur] = Append(@, Told(Head(queue).fn))] ELSE log
  /\ UNCHANGED strandFrame
-----------------------------------------------------------------------------
\* After an access violation nothing runs any more.
Next ==
  /\ ~crashed
  /\ \/ \E k \in Starts : Start(k) \/ ConnectStep(k) \/ Report(k)
     \/ Stop
     \/ SendMessage
     \/ StrandStep

Spec == Init /\ [][Next]_vars

\* The io threads and the strand run.  Nobody is obliged to call start, stop or
\* send_message, and the other end need not say anything.
Fairness ==
  /\ \A k \in Starts : WF_vars(~crashed /\ ConnectStep(k))
  /\ WF_vars(~crashed /\ StrandStep)

FairSpec == Spec /\ Fairness
-----------------------------------------------------------------------------
(* Properties.                                                             *)

TypeOK ==
  /\ PortTypes(Starts)
  /\ {stopped, cbs} \subseteq BOOLEAN
  /\ mutex \in 0 .. MaxStarts /\ netport \in 0 .. MaxStarts
  /\ hpc \in [Starts -> {"no", "ignored", "resolve", "connect", "failed", "made", "bind", "call",
                      "done", "thrown"}]
  /\ conn_cb \in [Starts -> BOOLEAN]
  /\ sends \in 0 .. MaxSends
  /\ log \in [Starts -> Seq({"connected", "failed", "received", "disconnected"})]

\* The strand meets a netport without its socket (netport.cpp:141, 313) only by
\* a send_message made before bind_socket is posted (connector_helper.hpp:63-93,
\* 132-140), or if bind_socket was refused: never because stop() came in between.
ClearsBound ==
  crashed => Head(queue).fn = "send" \/ Fo("bind", Cur) \in refused

\* One connection has one end: the user hears of its failure or of its loss
\* once, and of its loss only if it was made (connector_helper.hpp:45-98).
OneEnd ==
  \A k \in Starts :
    \A i, j \in DOMAIN log[k] :
      {log[k][i], log[k][j]} \subseteq {"failed", "disconnected"} => i = j

\* Nobody is about to call a copy of a callback.
NoneCopied == ~user_cb /\ \A k \in Starts : ~conn_cb[k]

\* Once stop() has returned and the callbacks that were copied before are made,
\* there is never another (connector_helper.hpp:101-110).
QuietAfterStop ==
  [][stopped /\ NoneCopied => NoneCopied' /\ UNCHANGED log]_vars

\* stop() closes the connection, whether it was made before or is made later,
\* unless post_call refuses the clear (connector_helper.hpp:55-59, 101-110).
StopCloses ==
  \A k \in Starts :
    stopped /\ sock[k] = "open" ~>
      sock[k] = "closed" \/ crashed \/ Fo("clear", k) \in refused

\* Every start that async_connect takes is answered: connected, failed, or stopped
\* (connector_helper.hpp:97), unless the handler throws before it calls anybody
\* (socket.hpp:483-487).  The start that async_connect refuses (socket.hpp:449)
\* is never answered, whatever happens later.
StartAnswered ==
  \A k \in Starts :
    hpc[k] = "resolve" ~> log[k] # <<>> \/ stopped \/ crashed \/ hpc[k] = "thrown"
=============================================================================
