----------------------- MODULE ConnectorHelperProofs -----------------------
(***************************************************************************)
(* Theorems about ConnectorHelper, for any numbers of calls and events.    *)
(***************************************************************************)
EXTENDS ConnectorHelper, PortStrandProofs

HandlerStates ==
  {"no", "ignored", "resolve", "connect", "failed", "made", "bind", "call", "done", "thrown"}

Fos == [fn : FoFns, port : Starts]

\* The handler between netport_ and bind_socket holds the lock, and netport_ is its own.
LockInv ==
  /\ \A k \in Starts : hpc[k] = "bind" => mutex = k
  /\ mutex # 0 => netport = mutex

HInv == TypeOK /\ LockInv

LEMMA HelperInit == Init => HInv
<1> SUFFICES ASSUME Init PROVE HInv
  OBVIOUS
<1>1. <<>> \in Seq(Fos) /\ <<>> \in Seq({"connected", "failed", "received", "disconnected"})
  OBVIOUS
<1>2. 0 \in 0 .. MaxStarts /\ 0 \in 0 .. MaxSends /\ 0 \in 0 .. MaxEvents
  BY BoundAssumption, PortAssumption
<1>3. TypeOK
  BY <1>1, <1>2 DEF Init, PortInit, TypeOK, PortTypes, Fos
<1> QED BY <1>3 DEF Init, PortInit, HInv, LockInv

LEMMA StartKeeps ==
  ASSUME HInv, NEW k \in Starts, Start(k) \/ Resolved(k) \/ Connected(k)
  PROVE  HInv'
<1>1. UNCHANGED <<stopped, cbs, mutex, netport, conn_cb, port_cb, bound, queue, refused, spc, user_cb,
                 sends, events, log, crashed>>
  BY DEF Start, Resolved, Connected, helperVars, connectFrame, portVars, postVars, strandVars, countVars
<1>2. \E pc \in HandlerStates \ {"bind"} : hpc' = [hpc EXCEPT ![k] = pc]
  <2>1. CASE Start(k)
    BY <2>1 DEF Start, HandlerStates
  <2>2. CASE Resolved(k)
    BY <2>2 DEF Resolved, NoAddress, HandlerStates
  <2>3. CASE Connected(k)
    BY <2>3 DEF Connected, HandlerStates
  <2> QED BY <2>1, <2>2, <2>3
<1>3. \/ sock' = sock \/ sock' = [sock EXCEPT ![k] = "open"]
      \/ sock' = [sock EXCEPT ![k] = "closed"]
  BY DEF Start, Resolved, Connected
<1>4. PICK pc \in HandlerStates \ {"bind"} : hpc' = [hpc EXCEPT ![k] = pc]
  BY <1>2
<1>5. hpc' \in [Starts -> HandlerStates] /\ sock' \in [Starts -> {"none", "open", "closed"}]
  BY <1>3, <1>4 DEF HInv, TypeOK, PortTypes, HandlerStates
<1>6. TypeOK'
  BY <1>1, <1>5 DEF HInv, TypeOK, PortTypes, HandlerStates
<1>7. LockInv'
  BY <1>1, <1>4 DEF HInv, TypeOK, PortTypes, LockInv, HandlerStates
<1> QED BY <1>6, <1>7 DEF HInv

LEMMA LockKeeps ==
  ASSUME HInv, NEW k \in Starts, HandlerLock(k)
  PROVE  HInv'
<1>1. /\ UNCHANGED <<stopped, cbs, bound, queue, refused, spc, user_cb, sends, events, log, crashed>>
      /\ mutex = 0
      /\ conn_cb' = [conn_cb EXCEPT ![k] = cbs]
      /\ k \in 1 .. MaxStarts /\ k # 0
  BY BoundAssumption DEF HandlerLock, postVars, strandVars, countVars, Starts
<1>2. \/ /\ \E pc \in {"done", "call"} : hpc' = [hpc EXCEPT ![k] = pc]
         /\ UNCHANGED <<mutex, netport, port_cb>>
         /\ sock' \in {sock, [sock EXCEPT ![k] = "closed"]}
      \/ /\ hpc' = [hpc EXCEPT ![k] = "bind"] /\ mutex' = k /\ netport' = k
         /\ port_cb' = [port_cb EXCEPT ![k] = TRUE] /\ UNCHANGED sock
  <2>1. sock \in [Starts -> {"none", "open", "closed"}]
    BY DEF HInv, TypeOK, PortTypes
  <2>2. [sock EXCEPT ![k] = sock[k]] = sock
    BY <2>1
  <2> QED BY <2>2 DEF HandlerLock
<1>3. TypeOK'
  <2>1. k \in 0 .. MaxStarts
    BY <1>1, BoundAssumption
  <2> QED BY <1>1, <1>2, <2>1 DEF HInv, TypeOK, PortTypes
<1>4. LockInv'
  <2>1. \A j \in Starts : hpc[j] # "bind"
    BY <1>1 DEF HInv, LockInv, Starts
  <2>2. \A j \in Starts : hpc'[j] = "bind" => j = k /\ mutex' = k
    BY <1>2, <2>1 DEF HInv, TypeOK, PortTypes
  <2>3. mutex' # 0 => netport' = mutex'
    BY <1>1, <1>2
  <2> QED BY <2>2, <2>3 DEF LockInv
<1> QED BY <1>3, <1>4 DEF HInv

LEMMA BindKeeps ==
  ASSUME HInv, NEW k \in Starts, HandlerBind(k)
  PROVE  HInv'
<1>1. /\ UNCHANGED <<stopped, cbs, netport, conn_cb, sock, port_cb, bound, spc, user_cb, sends, events,
                     log, crashed>>
      /\ hpc' = [hpc EXCEPT ![k] = "call"] /\ mutex' = 0 /\ mutex = k /\ hpc[k] = "bind"
  BY DEF HandlerBind, portVars, strandVars, countVars, HInv, LockInv
<1>2. Fo("bind", k) \in Fos /\ Post(Fo("bind", k))
  BY DEF HandlerBind, Fo, Fos, FoFns
<1>3. /\ queue' \in Seq(Fos) /\ refused' \subseteq Fos
      /\ queue # <<>> => queue' # <<>> /\ Head(queue') = Head(queue)
  BY <1>2, PostType DEF HInv, TypeOK, PortTypes, Fos
<1>4. TypeOK'
  <2>1. 0 \in 0 .. MaxStarts
    BY BoundAssumption
  <2> QED BY <1>1, <1>3, <2>1 DEF HInv, TypeOK, PortTypes, Fos
<1>5. LockInv'
  BY <1>1 DEF HInv, TypeOK, PortTypes, LockInv
<1> QED BY <1>4, <1>5 DEF HInv

LEMMA CallKeeps ==
  ASSUME HInv, NEW k \in Starts, HandlerCall(k)
  PROVE  HInv'
<1>1. /\ UNCHANGED <<stopped, cbs, mutex, netport, sock, port_cb, bound, queue, refused, spc, user_cb,
                     sends, events, crashed>>
      /\ hpc' = [hpc EXCEPT ![k] = "done"] /\ conn_cb' = [conn_cb EXCEPT ![k] = FALSE]
  BY DEF HandlerCall, helperVars, portVars, postVars, strandVars, countVars
<1>2. log' \in [Starts -> Seq({"connected", "failed", "received", "disconnected"})]
  BY DEF HandlerCall, HInv, TypeOK, PortTypes
<1>3. TypeOK'
  BY <1>1, <1>2 DEF HInv, TypeOK, PortTypes
<1>4. LockInv'
  BY <1>1 DEF HInv, TypeOK, PortTypes, LockInv
<1> QED BY <1>3, <1>4 DEF HInv

\* stop, send_message and what a socket reports.
LEMMA PostKeeps ==
  ASSUME HInv, Stop \/ SendMessage \/ \E k \in Starts : Report(k)
  PROVE  HInv'
<1>1. /\ UNCHANGED <<mutex, netport, hpc, conn_cb, sock, port_cb, bound, spc, user_cb, log, crashed>>
  BY DEF Stop, SendMessage, Report, Event, helperVars, handlerVars, portVars, strandVars
<1>2. stopped' \in BOOLEAN /\ cbs' \in BOOLEAN
  BY DEF Stop, NoneLeft, SendMessage, Report, Event, helperVars, HInv, TypeOK, PortTypes
<1>3. sends' \in 0 .. MaxSends /\ events' \in 0 .. MaxEvents
  <2>1. /\ sends' = sends \/ (sends < MaxSends /\ sends' = sends + 1)
        /\ events' = events \/ (events < MaxEvents /\ events' = events + 1)
    BY DEF Stop, SendMessage, Report, Event, countVars
  <2> QED BY <2>1, BoundAssumption, PortAssumption, SMTT(30) DEF HInv, TypeOK, PortTypes
<1>4. UNCHANGED postVars \/ \E fo \in Fos : Post(fo)
  <2>1. CASE Stop
    <3>1. netport # 0 => netport \in Starts
      BY BoundAssumption DEF HInv, TypeOK, PortTypes, Starts
    <3>2. netport # 0 => Fo("clear", netport) \in Fos
      BY <3>1 DEF Fo, Fos, FoFns
    <3> QED BY <2>1, <3>2 DEF Stop, HasPort
  <2>2. CASE SendMessage
    <3>1. netport \in Starts
      BY <2>2, BoundAssumption DEF SendMessage, HasPort, HInv, TypeOK, PortTypes, Starts
    <3>2. Fo("send", netport) \in Fos
      BY <3>1 DEF Fo, Fos, FoFns
    <3> QED BY <2>2, <3>2 DEF SendMessage
  <2>3. CASE \E k \in Starts : Report(k)
    <3>1. \A k \in Starts : Fo("recv", k) \in Fos /\ Fo("error", k) \in Fos
      BY DEF Fo, Fos, FoFns
    <3> QED BY <2>3, <3>1 DEF Report, Event
  <2> QED BY <2>1, <2>2, <2>3
<1>5. /\ queue' \in Seq(Fos) /\ refused' \subseteq Fos
      /\ queue # <<>> => queue' # <<>> /\ Head(queue') = Head(queue)
  BY <1>4, PostType DEF HInv, TypeOK, PortTypes, Fos, postVars
<1>6. TypeOK'
  BY <1>1, <1>2, <1>3, <1>5 DEF HInv, TypeOK, PortTypes, Fos
<1> QED BY <1>1, <1>6 DEF HInv, LockInv

\* The strand's steps are those of PortStrand.
LEMMA StrandRuns ==
  ASSUME HInv, StrandStep
  PROVE  /\ UNCHANGED <<stopped, cbs, mutex, netport, hpc, conn_cb, refused, sends, events>>
         /\ PortTypes(Starts)' /\ queue # <<>> /\ Cur \in Starts
<1>1. UNCHANGED <<stopped, cbs, mutex, netport, hpc, conn_cb, refused, sends, events>>
  BY DEF StrandStep, strandFrame, helperVars, handlerVars, countVars
<1>2. PortRuns /\ user_cb' \in BOOLEAN
  <2>1. cbs \in BOOLEAN /\ user_cb \in BOOLEAN
    BY DEF HInv, TypeOK, PortTypes
  <2>2. CASE RunAlone
    <3>1. user_cb' = user_cb
      BY <2>2 DEF RunAlone, RunBind, RunUnbound, RunSend, RunClear, RunCallback, RunSilent
    <3> QED BY <2>1, <2>2, <3>1 DEF PortRuns
  <2>3. CASE CallbackCopy(cbs)
    <3>1. user_cb' = cbs
      BY <2>3 DEF CallbackCopy
    <3> QED BY <2>1, <2>3, <3>1 DEF PortRuns
  <2>4. CASE CallbackCall
    <3>1. user_cb' = FALSE
      BY <2>4 DEF CallbackCall
    <3> QED BY <2>4, <3>1 DEF PortRuns
  <2> QED BY <2>2, <2>3, <2>4 DEF StrandStep
<1> QED BY <1>1, <1>2, PortRun DEF HInv, TypeOK

LEMMA StrandKeeps ==
  ASSUME HInv, StrandStep
  PROVE  HInv'
<1>1. /\ UNCHANGED <<stopped, cbs, mutex, netport, hpc, conn_cb, refused, sends, events>>
      /\ PortTypes(Starts)' /\ Cur \in Starts
  BY StrandRuns
<1>2. log' \in [Starts -> Seq({"connected", "failed", "received", "disconnected"})]
  <2>1. log' \in {log, [log EXCEPT ![Cur] = Append(@, Told(Head(queue).fn))]}
    BY DEF StrandStep
  <2>2. Told(Head(queue).fn) \in {"received", "disconnected"}
    BY DEF Told
  <2>3. log \in [Starts -> Seq({"connected", "failed", "received", "disconnected"})]
    BY DEF HInv, TypeOK
  <2>4. Append(log[Cur], Told(Head(queue).fn)) \in Seq({"connected", "failed", "received", "disconnected"})
    BY <1>1, <2>2, <2>3
  <2> QED BY <1>1, <2>1, <2>3, <2>4
<1>3. TypeOK'
  BY <1>1, <1>2 DEF HInv, TypeOK
<1> QED BY <1>1, <1>3 DEF HInv, LockInv

LEMMA HelperNext == HInv /\ [Next]_vars => HInv'
<1> SUFFICES ASSUME HInv, [Next]_vars PROVE HInv'
  OBVIOUS
<1>1. CASE UNCHANGED vars
  BY <1>1 DEF HInv, TypeOK, PortTypes, LockInv, vars, helperVars, handlerVars, portVars, postVars, strandVars,
              countVars
<1>2. CASE \E k \in Starts : Start(k) \/ ConnectStep(k)
  BY <1>2, StartKeeps, LockKeeps, BindKeeps, CallKeeps DEF ConnectStep
<1>3. CASE Stop \/ SendMessage \/ \E k \in Starts : Report(k)
  BY <1>3, PostKeeps
<1>4. CASE StrandStep
  BY <1>4, StrandKeeps
<1> QED BY <1>1, <1>2, <1>3, <1>4 DEF Next

LEMMA HelperInvariant == Spec => []HInv
BY HelperInit, HelperNext, PTL DEF Spec

\* The variables of the helper, its connections and its strand keep their types.
THEOREM HelperTypes == Spec => []TypeOK
<1>1. HInv => TypeOK
  BY DEF HInv
<1> QED BY <1>1, HelperInvariant, PTL
-----------------------------------------------------------------------------
(* stop() and the callbacks.                                               *)

\* stop() takes the callbacks away for good.
StopInv == stopped => ~cbs

\* Once stop() has returned no callback is copied: connector_helper.hpp:101-110.
THEOREM StopSilences == Spec => QuietAfterStop
<1>1. Init => StopInv
  BY DEF Init, PortInit, StopInv
<1>2. StopInv /\ [Next]_vars => StopInv'
  <2> SUFFICES ASSUME StopInv, [Next]_vars PROVE StopInv'
    OBVIOUS
  <2>1. CASE Stop
    BY <2>1 DEF Stop, NoneLeft, StopInv
  <2>2. CASE ~Stop
    <3>1. UNCHANGED <<stopped, cbs>>
      BY <2>2 DEF Next, Start, ConnectStep, Resolved, Connected, HandlerLock, HandlerBind, HandlerCall,
                  Report, Event, SendMessage, StrandStep, strandFrame, helperVars, vars
    <3> QED BY <3>1 DEF StopInv
  <2> QED BY <2>1, <2>2
<1>3. ASSUME HInv, StopInv, [Next]_vars, stopped, NoneCopied
      PROVE  NoneCopied' /\ UNCHANGED log
  <2>1. /\ ~cbs /\ ~user_cb /\ \A k \in Starts : ~conn_cb[k]
        /\ conn_cb \in [Starts -> BOOLEAN]
    BY <1>3 DEF StopInv, NoneCopied, HInv, TypeOK, PortTypes
  <2>2. ASSUME NEW k \in Starts, HandlerLock(k) PROVE NoneCopied' /\ UNCHANGED log
    BY <2>1, <2>2 DEF HandlerLock, NoneCopied, strandVars
  <2>3. ASSUME NEW k \in Starts, HandlerCall(k) PROVE NoneCopied' /\ UNCHANGED log
    BY <2>1, <2>3 DEF HandlerCall, NoneCopied, strandVars
  <2>4. ASSUME NEW k \in Starts, Start(k) \/ Resolved(k) \/ Connected(k) \/ HandlerBind(k) \/ Report(k)
        PROVE  NoneCopied' /\ UNCHANGED log
    BY <2>1, <2>4 DEF Start, Resolved, Connected, HandlerBind, Report, Event, NoneCopied, strandVars,
                      connectFrame, handlerVars
  <2>5. CASE Stop \/ SendMessage \/ UNCHANGED vars
    BY <2>1, <2>5 DEF Stop, SendMessage, vars, NoneCopied, strandVars, handlerVars
  <2>6. CASE StrandStep
    <3>1. conn_cb' = conn_cb
      BY <2>6 DEF StrandStep, strandFrame, handlerVars
    <3>2. ~user_cb' /\ log' = log
      BY <2>1, <2>6 DEF StrandStep, RunAlone, RunBind, RunUnbound, RunSend, RunClear, RunCallback, RunSilent,
                        CallbackCopy, CallbackCall
    <3> QED BY <2>1, <3>1, <3>2 DEF NoneCopied
  <2> QED BY <1>3, <2>2, <2>3, <2>4, <2>5, <2>6 DEF Next, ConnectStep
<1>4. HInv /\ StopInv /\ [Next]_vars =>
        [stopped /\ NoneCopied => NoneCopied' /\ UNCHANGED log]_vars
  BY <1>3
<1> QED BY <1>1, <1>2, <1>4, HelperInvariant, PTL DEF Spec, QuietAfterStop
-----------------------------------------------------------------------------
(* bind_socket and the function objects that need it.                      *)

\* Whoever waits behind the first n function objects finds the socket of netport p.
Ready(p, n) ==
  \/ p \in bound \/ Fo("bind", p) \in refused
  \/ \E j \in 1 .. n : queue[j] = Fo("bind", p)

\* A clear waits behind its bind, and stop may post one as soon as it has the lock.
BindInv ==
  /\ \A i \in 1 .. Len(queue) : queue[i].fn = "clear" => Ready(queue[i].port, i - 1)
  /\ netport # 0 => mutex = netport \/ Ready(netport, Len(queue))

\* A function object that is posted takes the socket from nobody.
LEMMA PostReady ==
  ASSUME queue \in Seq(Fos), NEW fo \in Fos, Post(fo), bound' = bound
  PROVE  /\ \A p : \A n \in 0 .. Len(queue) : Ready(p, n) => Ready(p, n)'
         /\ \A p : Ready(p, Len(queue)) => Ready(p, Len(queue))'
         /\ queue' = queue \/ (/\ Len(queue') = Len(queue) + 1 /\ queue'[Len(queue')] = fo
                               /\ \A i \in 1 .. Len(queue) : queue'[i] = queue[i])
         /\ queue' = queue => fo \in refused'
<1>1. CASE queue' = Append(queue, fo) /\ refused' = refused
  <2>1. /\ Len(queue) \in Nat /\ Len(queue') = Len(queue) + 1 /\ queue'[Len(queue) + 1] = fo
        /\ \A i \in 1 .. Len(queue) : queue'[i] = queue[i]
    BY <1>1, AppendProperties, LenProperties
  <2>2. queue' # queue
    BY <2>1
  <2> QED BY <1>1, <2>1, <2>2 DEF Ready
<1>2. CASE queue' = queue /\ refused' = refused \cup {fo}
  BY <1>2, LenProperties DEF Ready
<1> QED BY <1>1, <1>2 DEF Post

LEMMA PostBindInv ==
  ASSUME HInv, BindInv, NEW fo \in Fos, Post(fo), bound' = bound, netport' = netport,
         mutex' = mutex \/ fo = Fo("bind", netport),
         fo.fn = "clear" => Ready(fo.port, Len(queue))
  PROVE  BindInv'
<1>1. queue \in Seq(Fos)
  BY DEF HInv, TypeOK, PortTypes, Fos
<1>2. Len(queue) \in Nat
  BY <1>1, LenProperties
<1>3. /\ \A p : \A n \in 0 .. Len(queue) : Ready(p, n) => Ready(p, n)'
      /\ \A p : Ready(p, Len(queue)) => Ready(p, Len(queue))'
      /\ queue' = queue \/ (/\ Len(queue') = Len(queue) + 1 /\ queue'[Len(queue')] = fo
                            /\ \A i \in 1 .. Len(queue) : queue'[i] = queue[i])
  BY <1>1, PostReady
<1>4. ASSUME NEW i \in 1 .. Len(queue'), queue'[i].fn = "clear"
      PROVE  Ready(queue[i].port, i - 1)'
  <2>1. CASE i \in 1 .. Len(queue)
    <3>1. queue'[i] = queue[i] /\ i - 1 \in 0 .. Len(queue)
      BY <1>2, <1>3, <2>1
    <3>2. Ready(queue[i].port, i - 1)
      BY <1>4, <2>1, <3>1 DEF BindInv
    <3>3. PICK p : p = queue[i].port
      OBVIOUS
    <3>4. Ready(p, i - 1)'
      BY <1>3, <3>1, <3>2, <3>3
    <3> QED BY <3>1, <3>3, <3>4 DEF Ready
  <2>2. CASE i \notin 1 .. Len(queue)
    <3>1. Len(queue') = Len(queue) + 1 /\ i = Len(queue) + 1 /\ queue'[i] = fo
      BY <1>2, <1>3, <1>4, <2>2
    <3>2. Ready(fo.port, Len(queue))
      BY <1>4, <3>1
    <3>3. PICK n \in 0 .. Len(queue) : n = Len(queue)
      BY <1>2
    <3>4. Ready(fo.port, n)'
      BY <1>3, <3>2, <3>3
    <3>5. i - 1 = n
      BY <1>2, <3>1, <3>3
    <3> QED BY <3>1, <3>4, <3>5 DEF Ready
  <2> QED BY <2>1, <2>2
<1>5. ASSUME netport # 0, mutex' # netport PROVE Ready(netport, Len(queue))'
  <2>1. CASE mutex' = mutex
    <3>1. Ready(netport, Len(queue))
      BY <1>5, <2>1 DEF BindInv
    <3>2. PICK p : p = netport
      OBVIOUS
    <3>3. Ready(p, Len(queue))'
      BY <1>3, <3>1, <3>2
    <3> QED BY <3>2, <3>3 DEF Ready
  <2>2. CASE fo = Fo("bind", netport)
    <3>1. CASE queue' = queue
      BY <1>1, <2>2, <3>1, PostReady DEF Ready
    <3>2. CASE queue' # queue
      BY <1>2, <1>3, <2>2, <3>2 DEF Ready
    <3> QED BY <3>1, <3>2
  <2> QED BY <2>1, <2>2
<1> QED BY <1>4, <1>5 DEF BindInv

LEMMA RunBindInv ==
  ASSUME HInv, BindInv, StrandStep, ~crashed
  PROVE  BindInv' /\ ClearsBound'
<1>1. /\ UNCHANGED <<mutex, netport, refused>>
      /\ queue \in Seq(Fos)
  BY DEF StrandStep, strandFrame, helperVars, HInv, TypeOK, PortTypes, Fos
<1>2. queue # <<>>
  BY StrandRuns
<1>3. /\ Len(queue) \in Nat \ {0} /\ Head(queue) = queue[1]
      /\ Len(Tail(queue)) = Len(queue) - 1
      /\ \A i \in 1 .. Len(Tail(queue)) : Tail(queue)[i] = queue[i + 1]
  BY <1>1, <1>2, EmptySeq, LenProperties, HeadTailProperties
<1>4. \/ queue' = queue /\ bound' = bound
      \/ queue' = Tail(queue) /\ bound' = bound /\ queue[1].fn # "bind"
      \/ queue' = Tail(queue) /\ bound' = bound \cup {queue[1].port} /\ queue[1].fn = "bind"
  <2>1. CASE RunBind
    BY <1>3, <2>1 DEF RunBind, Runs, Cur
  <2>2. CASE RunUnbound \/ RunSend \/ RunClear
    BY <1>3, <2>2 DEF RunUnbound, RunSend, RunClear, Runs, DoClear, portVars
  <2>3. CASE RunCallback \/ RunSilent
    BY <1>3, <2>3 DEF RunCallback, RunSilent, Runs, DoClear, portVars
  <2>4. CASE CallbackCopy(cbs) \/ CallbackCall
    BY <1>3, <2>4 DEF CallbackCopy, CallbackCall, DoClear, portVars
  <2> QED BY <2>1, <2>2, <2>3, <2>4 DEF StrandStep, RunAlone
<1>5. ASSUME queue' = queue, bound' = bound PROVE BindInv'
  <2>1. netport' = netport /\ mutex' = mutex /\ refused' = refused
    BY <1>1
  <2> QED BY <1>5, <2>1 DEF BindInv, Ready
<1>6. ASSUME queue' = Tail(queue) PROVE BindInv'
  <2>0. queue' # queue
    <3>1. Len(queue) \in Nat /\ Len(queue') = Len(queue) - 1
      BY <1>3, <1>6
    <3>2. Len(queue) # Len(queue) - 1
      BY <3>1
    <3> QED BY <3>1, <3>2
  <2>1. ASSUME NEW p, NEW n \in 1 .. Len(queue), Ready(p, n) PROVE Ready(p, n - 1)'
    <3>1. CASE p \in bound \/ Fo("bind", p) \in refused
      BY <1>1, <1>4, <3>1 DEF Ready
    <3>2. CASE \E j \in 1 .. n : queue[j] = Fo("bind", p)
      <4>1. PICK j \in 1 .. n : queue[j] = Fo("bind", p)
        BY <3>2
      <4>2. CASE j = 1
        <5>1. queue[1].fn = "bind" /\ queue[1].port = p
          BY <4>1, <4>2 DEF Fo
        <5>2. p \in bound'
          BY <1>4, <2>0, <5>1
        <5> QED BY <5>2 DEF Ready
      <4>3. CASE j # 1
        <5>1. j - 1 \in 1 .. (n - 1) /\ j - 1 \in 1 .. Len(Tail(queue))
          BY <1>3, <4>1, <4>3
        <5>2. queue'[j - 1] = Fo("bind", p)
          BY <1>3, <1>6, <4>1, <5>1
        <5> QED BY <5>1, <5>2 DEF Ready
      <4> QED BY <4>2, <4>3
    <3> QED BY <2>1, <3>1, <3>2 DEF Ready
  <2>2. ASSUME NEW i \in 1 .. Len(queue'), queue'[i].fn = "clear"
        PROVE  Ready(queue[i].port, i - 1)'
    <3>1. i \in 1 .. Len(queue) /\ i + 1 \in 1 .. Len(queue) /\ queue'[i] = queue[i + 1]
      BY <1>3, <1>6
    <3>2. PICK p : p = queue[i + 1].port
      OBVIOUS
    <3>3. Ready(p, i)
      BY <2>2, <3>1, <3>2, <1>3 DEF BindInv
    <3>4. Ready(p, i - 1)'
      BY <2>1, <3>1, <3>3
    <3> QED BY <3>1, <3>2, <3>4 DEF Ready
  <2>3. ASSUME netport # 0, mutex # netport PROVE Ready(netport, Len(queue))'
    <3>1. PICK p : p = netport
      OBVIOUS
    <3>2. PICK n \in 1 .. Len(queue) : n = Len(queue)
      <4>1. Len(queue) \in 1 .. Len(queue)
        BY <1>3
      <4> QED BY <4>1
    <3>3. Ready(p, n)
      BY <2>3, <3>1, <3>2 DEF BindInv
    <3>4. Ready(p, n - 1)'
      BY <2>1, <3>3
    <3>5. Len(queue') = n - 1 /\ netport' = p
      BY <1>1, <1>3, <1>6, <3>1, <3>2
    <3> QED BY <3>4, <3>5 DEF Ready
  <2> QED BY <1>1, <2>2, <2>3 DEF BindInv, Ready
<1>7. BindInv'
  BY <1>4, <1>5, <1>6
<1>8. ClearsBound'
  <2>1. CASE RunUnbound
    <3>1. queue' = queue /\ (queue[1].fn = "send" \/ (queue[1].fn = "clear" /\ queue[1].port \notin bound))
      BY <1>3, <2>1 DEF RunUnbound, Runs, Cur
    <3>2. ASSUME queue[1].fn = "clear" PROVE Fo("bind", queue[1].port) \in refused
      <4>1. Ready(queue[1].port, 1 - 1)
        BY <1>3, <3>2 DEF BindInv
      <4> QED BY <3>1, <3>2, <4>1 DEF Ready
    <3> QED BY <1>1, <1>3, <3>1, <3>2 DEF ClearsBound, Cur
  <2>2. CASE ~RunUnbound
    <3>1. ~crashed'
      BY <2>2 DEF StrandStep, RunAlone, RunBind, RunSend, RunClear, RunCallback, RunSilent, CallbackCopy,
                  CallbackCall, DoClear
    <3> QED BY <3>1 DEF ClearsBound
  <2> QED BY <2>1, <2>2
<1> QED BY <1>7, <1>8

\* Only a message sent before bind_socket is posted, or a bind_socket that was
\* refused, lets the strand meet a netport without its socket:
\* connector_helper.hpp:63-93, 101-110, 132-140.
THEOREM StopFindsSocket == Spec => []ClearsBound
<1>1. Init => BindInv /\ ClearsBound
  BY DEF Init, PortInit, BindInv, ClearsBound
<1>2. ASSUME HInv, BindInv, ClearsBound, [Next]_vars PROVE BindInv' /\ ClearsBound'
  <2>1. CASE UNCHANGED vars
    BY <1>2, <2>1 DEF BindInv, Ready, ClearsBound, Cur, vars, helperVars, portVars, postVars
  <2>2. ASSUME UNCHANGED <<mutex, netport, bound, queue, refused, crashed>> PROVE BindInv' /\ ClearsBound'
    BY <1>2, <2>2 DEF BindInv, Ready, ClearsBound, Cur
  <2>3. ASSUME NEW k \in Starts, Start(k) \/ Resolved(k) \/ Connected(k) \/ HandlerCall(k)
        PROVE  BindInv' /\ ClearsBound'
    BY <2>2, <2>3 DEF Start, Resolved, Connected, HandlerCall, helperVars, connectFrame, portVars,
                      postVars
  <2>4. ASSUME NEW k \in Starts, HandlerLock(k), ~crashed PROVE BindInv' /\ ClearsBound'
    <3>1. /\ UNCHANGED <<bound, queue, refused, crashed>>
          /\ UNCHANGED <<mutex, netport>> \/ mutex' = netport'
      BY <2>4 DEF HandlerLock, postVars
    <3> QED BY <1>2, <2>4, <3>1 DEF BindInv, Ready, ClearsBound
  <2>5. ASSUME NEW fo \in Fos, Post(fo), bound' = bound, netport' = netport, crashed' = crashed, ~crashed,
               mutex' = mutex \/ fo = Fo("bind", netport), fo.fn = "clear" => Ready(fo.port, Len(queue))
        PROVE  BindInv' /\ ClearsBound'
    BY <1>2, <2>5, PostBindInv DEF ClearsBound
  <2>6. ASSUME NEW k \in Starts, HandlerBind(k), ~crashed PROVE BindInv' /\ ClearsBound'
    <3>1. /\ bound' = bound /\ netport' = netport /\ crashed' = crashed /\ mutex' = 0
          /\ Post(Fo("bind", k)) /\ netport = k /\ Fo("bind", k) \in Fos /\ "bind" # "clear"
          /\ Fo("bind", k).fn = "bind"
      BY <1>2, <2>6 DEF HandlerBind, portVars, HInv, LockInv, Fo, Fos, FoFns, Starts
    <3> QED BY <2>5, <2>6, <3>1
  <2>7. CASE ~crashed /\ Stop
    <3>1. /\ bound' = bound /\ netport' = netport /\ crashed' = crashed /\ mutex' = mutex /\ mutex = 0
          /\ UNCHANGED postVars \/ (netport # 0 /\ Post(Fo("clear", netport)))
      BY <2>7 DEF Stop, StopLocks, HasPort, portVars
    <3>2. CASE UNCHANGED postVars
      BY <2>2, <3>1, <3>2 DEF postVars
    <3>3. CASE netport # 0 /\ Post(Fo("clear", netport))
      <4>1. Fo("clear", netport) \in Fos /\ Fo("clear", netport).port = netport
        BY <1>2, <3>3, BoundAssumption DEF Fo, Fos, FoFns, HInv, TypeOK, PortTypes, Starts
      <4>2. Ready(netport, Len(queue))
        BY <1>2, <3>1, <3>3 DEF BindInv
      <4> QED BY <2>5, <2>7, <3>1, <3>3, <4>1, <4>2
    <3> QED BY <3>1, <3>2, <3>3
  <2>8. CASE ~crashed /\ SendMessage
    <3>1. /\ bound' = bound /\ netport' = netport /\ crashed' = crashed /\ mutex' = mutex
          /\ netport # 0 /\ Post(Fo("send", netport))
      BY <2>8 DEF SendMessage, HasPort, portVars, helperVars
    <3>2. Fo("send", netport) \in Fos /\ Fo("send", netport).fn # "clear"
      BY <1>2, <3>1, BoundAssumption DEF Fo, Fos, FoFns, HInv, TypeOK, PortTypes, Starts
    <3> QED BY <2>5, <2>8, <3>1, <3>2
  <2>9. ASSUME NEW k \in Starts, Report(k), ~crashed PROVE BindInv' /\ ClearsBound'
    <3>1. /\ bound' = bound /\ netport' = netport /\ crashed' = crashed /\ mutex' = mutex
          /\ \E fn \in {"recv", "error"} : Post(Fo(fn, k))
      BY <2>9 DEF Report, Event, portVars, helperVars
    <3>2. PICK fn \in {"recv", "error"} : Post(Fo(fn, k))
      BY <3>1
    <3>3. Fo(fn, k) \in Fos /\ Fo(fn, k).fn # "clear"
      BY DEF Fo, Fos, FoFns
    <3> QED BY <2>5, <2>9, <3>1, <3>2, <3>3
  <2>10. CASE ~crashed /\ StrandStep
    BY <1>2, <2>10, RunBindInv
  <2> QED BY <1>2, <2>1, <2>3, <2>4, <2>6, <2>7, <2>8, <2>9, <2>10 DEF Next, ConnectStep
<1> QED BY <1>1, <1>2, HelperInvariant, PTL DEF Spec
-----------------------------------------------------------------------------
(* The end of a connection.                                                *)

Words   == {"connected", "failed", "received", "disconnected"}
EndSays == {"failed", "disconnected"}

Says(s, w) == \E i \in DOMAIN s : s[i] = w
OneIn(s)   == \A i, j \in DOMAIN s : {s[i], s[j]} \subseteq EndSays => i = j

\* Before the netport is made there is nothing to tell; a start that failed never
\* has a socket, and a netport that told of its end has no callback left.
ConnEnd(k) ==
  /\ hpc[k] \in {"no", "ignored", "resolve", "connect", "failed", "made", "thrown"} =>
       ~port_cb[k] /\ log[k] = <<>>
  /\ hpc[k] \in {"made", "bind"} => sock[k] # "none"
  /\ sock[k] = "none" => ~port_cb[k]
  /\ Says(log[k], "failed") => sock[k] = "none" /\ hpc[k] = "done"
  /\ Says(log[k], "disconnected") => sock[k] # "none" /\ ~port_cb[k]
  /\ OneIn(log[k])

\* What is called, or posted for, has a socket.
SockInv ==
  /\ netport # 0 => sock[netport] # "none"
  /\ \A k \in bound : sock[k] # "none"
  /\ \A n \in 1 .. Len(queue) : sock[queue[n].port] # "none"
  /\ spc # "idle" => port_cb[Cur]

EndInv == (\A k \in Starts : ConnEnd(k)) /\ SockInv

LEMMA SaysMore ==
  ASSUME NEW s \in Seq(Words), NEW x \in Words
  PROVE  /\ \A w : Says(Append(s, x), w) => Says(s, w) \/ x = w
         /\ OneIn(s) /\ (x \in EndSays => ~Says(s, "failed") /\ ~Says(s, "disconnected"))
              => OneIn(Append(s, x))
<1>1. /\ DOMAIN s = 1 .. Len(s) /\ DOMAIN Append(s, x) = 1 .. Len(s) + 1 /\ Len(s) \in Nat
      /\ \A i \in 1 .. Len(s) : Append(s, x)[i] = s[i]
      /\ Append(s, x)[Len(s) + 1] = x
  BY AppendProperties, LenProperties
<1>2. \A i \in DOMAIN Append(s, x) : i \in DOMAIN s \/ i = Len(s) + 1
  BY <1>1
<1>3. \A w : Says(Append(s, x), w) => Says(s, w) \/ x = w
  BY <1>1, <1>2 DEF Says
<1>4. ASSUME OneIn(s), x \in EndSays => ~Says(s, "failed") /\ ~Says(s, "disconnected"),
             NEW i \in DOMAIN Append(s, x), NEW j \in DOMAIN Append(s, x),
             {Append(s, x)[i], Append(s, x)[j]} \subseteq EndSays
      PROVE  i = j
  <2>1. ASSUME x \in EndSays, NEW n \in DOMAIN s PROVE s[n] \notin EndSays
    BY <1>4, <2>1 DEF Says, EndSays
  <2>2. CASE i \in DOMAIN s /\ j \in DOMAIN s
    BY <1>1, <1>4, <2>2 DEF OneIn
  <2>3. CASE i = Len(s) + 1 /\ j \in DOMAIN s
    BY <1>1, <1>4, <2>1, <2>3
  <2>4. CASE j = Len(s) + 1 /\ i \in DOMAIN s
    BY <1>1, <1>4, <2>1, <2>4
  <2> QED BY <1>2, <2>2, <2>3, <2>4
<1> QED BY <1>3, <1>4 DEF OneIn

\* The steps of a handler.
LEMMA HandlerEnd ==
  ASSUME HInv, EndInv, NEW k \in Starts, Start(k) \/ ConnectStep(k)
  PROVE  \A j \in Starts : ConnEnd(j)'
<1>1. /\ hpc \in [Starts -> HandlerStates] /\ sock \in [Starts -> {"none", "open", "closed"}]
      /\ port_cb \in [Starts -> BOOLEAN] /\ log \in [Starts -> Seq(Words)]
  BY DEF HInv, TypeOK, PortTypes, HandlerStates, Words
<1>2. ASSUME NEW j \in Starts, j # k PROVE ConnEnd(j)'
  <2>1. hpc'[j] = hpc[j] /\ sock'[j] = sock[j] /\ port_cb'[j] = port_cb[j] /\ log'[j] = log[j]
    BY <1>1, <1>2 DEF Start, ConnectStep, Resolved, Connected, HandlerLock, HandlerBind, HandlerCall,
                      connectFrame, portVars
  <2> QED BY <2>1 DEF EndInv, ConnEnd
<1>3. ConnEnd(k)
  BY DEF EndInv
<1>4. ASSUME Start(k) \/ Resolved(k) PROVE ConnEnd(k)'
  <2>1. /\ hpc[k] \in {"no", "resolve"} /\ hpc'[k] \in {"resolve", "ignored", "failed", "connect"}
        /\ UNCHANGED <<sock, port_cb, log>>
    BY <1>1, <1>4 DEF Start, Resolved, NoAddress, connectFrame, portVars
  <2> QED BY <1>3, <2>1 DEF ConnEnd
<1>5. ASSUME Connected(k) PROVE ConnEnd(k)'
  <2>1. /\ hpc[k] = "connect" /\ UNCHANGED <<port_cb, log>>
        /\ \/ hpc'[k] = "failed" /\ sock'[k] = sock[k]
           \/ hpc'[k] = "thrown" /\ sock'[k] = "closed"
           \/ hpc'[k] = "made" /\ sock'[k] = "open"
    BY <1>1, <1>5 DEF Connected, portVars
  <2>2. log[k] = <<>> /\ ~port_cb[k]
    BY <1>3, <2>1 DEF ConnEnd
  <2> QED BY <1>3, <2>1, <2>2 DEF ConnEnd, Says, OneIn
<1>6. ASSUME HandlerLock(k) PROVE ConnEnd(k)'
  <2>1. /\ log' = log /\ hpc[k] \in {"failed", "made"}
        /\ \/ hpc'[k] = "done" /\ port_cb' = port_cb
              /\ sock'[k] = (IF hpc[k] = "made" THEN "closed" ELSE sock[k])
           \/ hpc'[k] = "call" /\ port_cb' = port_cb /\ sock' = sock
           \/ hpc'[k] = "bind" /\ hpc[k] = "made" /\ sock' = sock
    BY <1>1, <1>6 DEF HandlerLock
  <2>2. log[k] = <<>> /\ ~port_cb[k] /\ (hpc[k] = "made" => sock[k] # "none")
    BY <1>3, <2>1 DEF ConnEnd
  <2> QED BY <2>1, <2>2 DEF ConnEnd, Says, OneIn
<1>7. ASSUME HandlerBind(k) PROVE ConnEnd(k)'
  <2>1. hpc[k] = "bind" /\ hpc'[k] = "call" /\ UNCHANGED <<sock, port_cb, log>>
    BY <1>1, <1>7 DEF HandlerBind, portVars
  <2> QED BY <1>3, <2>1 DEF ConnEnd
<1>8. ASSUME HandlerCall(k) PROVE ConnEnd(k)'
  <2>1. /\ hpc[k] = "call" /\ hpc'[k] = "done" /\ UNCHANGED <<sock, port_cb>>
    BY <1>1, <1>8 DEF HandlerCall, portVars
  <2>2. CASE log'[k] = log[k]
    BY <1>3, <2>1, <2>2 DEF ConnEnd
  <2>3. CASE log'[k] = Append(log[k], "failed") /\ sock[k] = "none"
    <3>1. ~Says(log[k], "failed") /\ ~Says(log[k], "disconnected") /\ OneIn(log[k])
      BY <1>3, <2>1, <2>3 DEF ConnEnd
    <3>2. log[k] \in Seq(Words) /\ "failed" \in Words
      BY <1>1 DEF Words
    <3>3. OneIn(Append(log[k], "failed")) /\ ~Says(Append(log[k], "failed"), "disconnected")
      BY <3>1, <3>2, SaysMore
    <3> QED BY <1>3, <2>1, <2>3, <3>3 DEF ConnEnd
  <2>4. CASE log'[k] = Append(log[k], "connected") /\ sock[k] # "none"
    <3>1. log[k] \in Seq(Words) /\ "connected" \in Words /\ "connected" \notin EndSays
      BY <1>1 DEF Words, EndSays
    <3>2. /\ OneIn(log[k]) => OneIn(Append(log[k], "connected"))
          /\ \A w \in EndSays : Says(Append(log[k], "connected"), w) => Says(log[k], w)
      BY <3>1, SaysMore
    <3>3. /\ Says(Append(log[k], "connected"), "failed") => Says(log[k], "failed")
          /\ Says(Append(log[k], "connected"), "disconnected") => Says(log[k], "disconnected")
      BY <3>2 DEF EndSays
    <3> QED BY <1>3, <2>1, <2>4, <3>2, <3>3 DEF ConnEnd
  <2>5. \/ log'[k] = log[k]
        \/ log'[k] = Append(log[k], "failed") /\ sock[k] = "none"
        \/ log'[k] = Append(log[k], "connected") /\ sock[k] # "none"
    BY <1>1, <1>8 DEF HandlerCall
  <2> QED BY <2>2, <2>3, <2>4, <2>5
<1> QED BY <1>2, <1>4, <1>5, <1>6, <1>7, <1>8 DEF ConnectStep

\* A function object is posted for a netport that has a socket.
LEMMA PostSock ==
  ASSUME HInv, SockInv, NEW fo \in Fos, Post(fo), sock[fo.port] # "none",
         UNCHANGED <<sock, port_cb, bound, netport, spc>>
  PROVE  SockInv'
<1>1. /\ queue \in Seq(Fos) /\ refused \subseteq Fos /\ Len(queue) \in Nat
      /\ (spc # "idle" => queue # <<>>)
  BY LenProperties DEF HInv, TypeOK, PortTypes, Fos
<1>2. \/ queue' = queue
      \/ /\ Len(queue') = Len(queue) + 1 /\ queue'[Len(queue) + 1] = fo
         /\ \A n \in 1 .. Len(queue) : queue'[n] = queue[n]
  BY <1>1, AppendProperties DEF Post
<1>3. queue # <<>> => Head(queue') = Head(queue)
  BY <1>1, PostType
<1>4. \A n \in 1 .. Len(queue') : sock'[queue'[n].port] # "none"
  BY <1>1, <1>2 DEF SockInv
<1>5. spc' # "idle" => port_cb'[Head(queue').port]
  BY <1>1, <1>3 DEF SockInv, Cur
<1> QED BY <1>4, <1>5 DEF SockInv, Cur

LEMMA HandlerSock ==
  ASSUME HInv, EndInv, NEW k \in Starts, Start(k) \/ ConnectStep(k)
  PROVE  SockInv'
<1>1. /\ hpc \in [Starts -> HandlerStates] /\ sock \in [Starts -> {"none", "open", "closed"}]
      /\ port_cb \in [Starts -> BOOLEAN] /\ queue \in Seq(Fos)
      /\ (spc # "idle" => queue # <<>> /\ Cur \in Starts)
      /\ (netport # 0 => netport \in Starts) /\ k # 0
  <2>1. /\ hpc \in [Starts -> HandlerStates] /\ sock \in [Starts -> {"none", "open", "closed"}]
        /\ port_cb \in [Starts -> BOOLEAN] /\ queue \in Seq(Fos) /\ netport \in 0 .. MaxStarts
        /\ (spc # "idle" => queue # <<>>)
    BY DEF HInv, TypeOK, PortTypes, HandlerStates, Fos
  <2>2. queue # <<>> => Cur \in Starts
    BY <2>1, TailType DEF Cur, Fos, FosOf
  <2> QED BY <2>1, <2>2, BoundAssumption DEF Starts
<1>2. \A n \in 1 .. Len(queue) : queue[n].port \in Starts
  <2>1. \A n \in 1 .. Len(queue) : queue[n] \in Fos
    BY <1>1, ElementOfSeq
  <2> QED BY <2>1 DEF Fos
<1>3. SockInv /\ ConnEnd(k)
  BY DEF EndInv
<1>4. CASE HandlerBind(k)
  <2>1. Post(Fo("bind", k)) /\ UNCHANGED <<sock, port_cb, bound, netport, spc>> /\ hpc[k] = "bind"
    BY <1>4 DEF HandlerBind, portVars, strandVars
  <2>2. Fo("bind", k) \in Fos /\ Fo("bind", k).port = k
    BY DEF Fo, Fos, FoFns
  <2>3. sock[k] # "none"
    BY <1>3, <2>1 DEF ConnEnd
  <2> QED BY <1>3, <2>1, <2>2, <2>3, PostSock
<1>5. CASE ~HandlerBind(k)
  <2>1. UNCHANGED <<queue, spc>>
    BY <1>5 DEF Start, ConnectStep, Resolved, Connected, HandlerLock, HandlerCall, connectFrame, postVars,
                strandVars
  <2>2. \A j \in Starts : sock[j] # "none" => sock'[j] # "none"
    BY <1>1, <1>5 DEF Start, ConnectStep, Resolved, Connected, HandlerLock, HandlerCall, connectFrame
  <2>3. \A j \in Starts : port_cb[j] => port_cb'[j]
    BY <1>1, <1>5 DEF Start, ConnectStep, Resolved, Connected, HandlerLock, HandlerCall, connectFrame,
                      portVars
  <2>4. netport' = netport \/ (netport' = k /\ sock[k] # "none")
    <3>1. netport' = netport \/ (netport' = k /\ hpc[k] = "made")
      BY <1>5 DEF Start, ConnectStep, Resolved, Connected, HandlerLock, HandlerCall, helperVars
    <3> QED BY <1>3, <3>1 DEF ConnEnd
  <2>5. netport' # 0 => sock'[netport'] # "none"
    BY <1>1, <1>3, <2>2, <2>4 DEF SockInv
  <2>6. \A n \in 1 .. Len(queue') : sock'[queue'[n].port] # "none"
    BY <1>2, <1>3, <2>1, <2>2 DEF SockInv
  <2>7. spc' # "idle" => port_cb'[Head(queue').port]
    BY <1>1, <1>3, <2>1, <2>3 DEF SockInv, Cur
  <2>8. bound' = bound /\ bound \subseteq Starts
    BY <1>5 DEF Start, ConnectStep, Resolved, Connected, HandlerLock, HandlerCall, connectFrame, portVars,
                HInv, TypeOK, PortTypes
  <2>9. \A j \in bound' : sock'[j] # "none"
    BY <1>3, <2>2, <2>8 DEF SockInv
  <2> QED BY <2>5, <2>6, <2>7, <2>9 DEF SockInv, Cur
<1> QED BY <1>4, <1>5

\* stop, send_message, and what a socket reports.
LEMMA PostEnd ==
  ASSUME HInv, EndInv, Stop \/ SendMessage \/ \E k \in Starts : Report(k)
  PROVE  EndInv'
<1>1. UNCHANGED <<hpc, sock, port_cb, bound, log, netport, spc>>
  BY DEF Stop, SendMessage, Report, Event, helperVars, handlerVars, portVars, strandVars
<1>2. \A k \in Starts : ConnEnd(k)'
  BY <1>1 DEF EndInv, ConnEnd
<1>3. UNCHANGED queue \/ \E fo \in Fos : Post(fo) /\ sock[fo.port] # "none"
  <2>1. netport # 0 => netport \in Starts /\ sock[netport] # "none"
    BY BoundAssumption DEF HInv, TypeOK, PortTypes, Starts, EndInv, SockInv
  <2>2. \A fn \in FoFns, k \in Starts : Fo(fn, k) \in Fos /\ Fo(fn, k).port = k
    BY DEF Fo, Fos
  <2>3. CASE Stop
    <3>1. UNCHANGED queue \/ (netport # 0 /\ Post(Fo("clear", netport)))
      BY <2>3 DEF Stop, HasPort, postVars
    <3>2. "clear" \in FoFns
      BY DEF FoFns
    <3> QED BY <2>1, <2>2, <3>1, <3>2
  <2>4. CASE SendMessage
    <3>1. netport # 0 /\ Post(Fo("send", netport))
      BY <2>4 DEF SendMessage, HasPort
    <3>2. "send" \in FoFns
      BY DEF FoFns
    <3> QED BY <2>1, <2>2, <3>1, <3>2
  <2>5. CASE \E k \in Starts : Report(k)
    <3>1. PICK k \in Starts : Report(k)
      BY <2>5
    <3>2. PICK fn \in {"recv", "error"} : Post(Fo(fn, k))
      BY <3>1 DEF Report, Event
    <3>3. fn \in FoFns /\ sock[k] # "none"
      BY <3>1 DEF FoFns, Report, Event, EndInv, SockInv
    <3> QED BY <2>2, <3>2, <3>3
  <2> QED BY <2>3, <2>4, <2>5
<1>4. SockInv'
  <2>1. CASE UNCHANGED queue
    BY <1>1, <2>1 DEF EndInv, SockInv, Cur
  <2>2. CASE \E fo \in Fos : Post(fo) /\ sock[fo.port] # "none"
    BY <1>1, <2>2, PostSock DEF EndInv
  <2> QED BY <1>3, <2>1, <2>2
<1> QED BY <1>2, <1>4 DEF EndInv

\* The strand.
LEMMA StrandEnd ==
  ASSUME HInv, EndInv, StrandStep
  PROVE  EndInv'
<1>1. /\ UNCHANGED <<hpc, netport>> /\ queue # <<>> /\ Cur \in Starts
  BY StrandRuns
<1>2. /\ sock \in [Starts -> {"none", "open", "closed"}]
      /\ port_cb \in [Starts -> BOOLEAN] /\ log \in [Starts -> Seq(Words)] /\ queue \in Seq(Fos)
      /\ netport \in 0 .. MaxStarts
      /\ (spc # "idle" => Head(queue).fn \in {"recv", "error"})
  BY DEF HInv, TypeOK, PortTypes, Words, Fos
<1>3. /\ Len(queue) \in Nat \ {0} /\ Head(queue) = queue[1]
      /\ Len(Tail(queue)) = Len(queue) - 1
      /\ \A i \in 1 .. Len(Tail(queue)) : Tail(queue)[i] = queue[i + 1]
      /\ \A i \in 1 .. Len(queue) : queue[i].port \in Starts
  <2>1. \A i \in 1 .. Len(queue) : queue[i] \in Fos
    BY <1>2, ElementOfSeq
  <2> QED BY <1>1, <1>2, <2>1, EmptySeq, LenProperties, HeadTailProperties DEF Fos
<1>4. \A j \in Starts : sock[j] # "none" => sock'[j] # "none"
  BY <1>1, <1>2 DEF StrandStep, RunAlone, RunBind, RunUnbound, RunSend, RunClear, RunCallback, RunSilent,
     CallbackCopy, CallbackCall, DoClear, CloseSocket
<1>5. sock[Cur] # "none"
  <2>1. 1 \in 1 .. Len(queue)
    BY <1>3
  <2> QED BY <1>3, <2>1 DEF EndInv, SockInv, Cur
<1>6. \/ UNCHANGED <<sock, port_cb>>
      \/ port_cb' = [port_cb EXCEPT ![Cur] = FALSE] /\ sock' = [sock EXCEPT ![Cur] = "closed"]
  BY DEF StrandStep, RunAlone, RunBind, RunUnbound, RunSend, RunClear, RunCallback, RunSilent,
     CallbackCopy, CallbackCall, DoClear, CloseSocket, NoPortCallbacks, portVars
<1>7. \A j \in Starts \ {Cur} :
        log'[j] = log[j] /\ sock'[j] = sock[j] /\ port_cb'[j] = port_cb[j]
  <2>1. \A j \in Starts \ {Cur} : log'[j] = log[j]
    BY <1>1, <1>2 DEF StrandStep
  <2> QED BY <1>1, <1>2, <1>6, <2>1
<1>8. ASSUME log'[Cur] = log[Cur] PROVE \A j \in Starts : ConnEnd(j)'
  <2>1. ASSUME NEW j \in Starts PROVE ConnEnd(j)'
    <3>1. CASE j = Cur
      <4>1. PICK k \in Starts : k = Cur
        BY <1>1
      <4>2. /\ hpc'[k] = hpc[k] /\ log'[k] = log[k] /\ sock'[k] # "none"
            /\ port_cb'[k] => port_cb[k]
        BY <1>1, <1>2, <1>4, <1>5, <1>6, <1>8, <4>1
      <4>3. ConnEnd(k)' 
        BY <1>5, <4>1, <4>2 DEF EndInv, ConnEnd
      <4> QED BY <3>1, <4>1, <4>3
    <3>2. CASE j # Cur
      BY <1>1, <1>7, <3>2 DEF EndInv, ConnEnd
    <3> QED BY <3>1, <3>2
  <2> QED BY <2>1
<1>9. ASSUME log'[Cur] # log[Cur] PROVE \A j \in Starts : ConnEnd(j)'
  <2>1. PICK k \in Starts : k = Cur
    BY <1>1
  <2>2. CallbackCall /\ user_cb /\ log'[k] = Append(log[k], Told(Head(queue).fn))
    BY <1>1, <1>2, <1>9, <2>1 DEF StrandStep
  <2>3. /\ port_cb[k] /\ hpc'[k] = hpc[k] /\ ConnEnd(k) /\ sock[k] # "none" /\ sock'[k] # "none"
    BY <1>1, <1>4, <1>5, <2>1, <2>2 DEF CallbackCall, EndInv, SockInv
  <2>4. ~Says(log[k], "failed") /\ ~Says(log[k], "disconnected") /\ OneIn(log[k])
        /\ log[k] \in Seq(Words)
        /\ hpc[k] \notin {"no", "ignored", "resolve", "connect", "failed", "made", "thrown"}
    BY <1>2, <2>3 DEF ConnEnd
  <2>5. CASE Head(queue).fn = "recv"
    <3>1. "received" \in Words /\ "received" \notin EndSays /\ log'[k] = Append(log[k], "received")
      BY <2>2, <2>5 DEF Words, EndSays, Told
    <3>2. OneIn(log'[k]) /\ ~Says(log'[k], "failed") /\ ~Says(log'[k], "disconnected")
      BY <2>4, <3>1, SaysMore
    <3>3. ConnEnd(k)'
      BY <2>3, <2>4, <3>2 DEF ConnEnd
    <3>4. ASSUME NEW j \in Starts PROVE ConnEnd(j)'
      <4>1. CASE j = k
        BY <3>3, <4>1
      <4>2. CASE j # k
        BY <1>1, <1>7, <2>1, <4>2 DEF EndInv, ConnEnd
      <4> QED BY <4>1, <4>2
    <3> QED BY <3>4
  <2>6. CASE Head(queue).fn = "error"
    <3>1. "disconnected" \in Words /\ log'[k] = Append(log[k], "disconnected")
      BY <2>2, <2>6 DEF Words, Told
    <3>2. ~port_cb'[k]
      BY <1>1, <1>2, <2>1, <2>2, <2>6 DEF CallbackCall, DoClear, NoPortCallbacks
    <3>3. OneIn(log'[k]) /\ ~Says(log'[k], "failed")
      BY <2>4, <3>1, SaysMore
    <3>4. ConnEnd(k)'
      BY <2>3, <2>4, <3>2, <3>3 DEF ConnEnd
    <3>5. ASSUME NEW j \in Starts PROVE ConnEnd(j)'
      <4>1. CASE j = k
        BY <3>4, <4>1
      <4>2. CASE j # k
        BY <1>1, <1>7, <2>1, <4>2 DEF EndInv, ConnEnd
      <4> QED BY <4>1, <4>2
    <3> QED BY <3>5
  <2> QED BY <1>2, <2>2, <2>5, <2>6 DEF CallbackCall
<1>10. SockInv'
  <2>1. netport' # 0 => sock'[netport'] # "none"
    BY <1>1, <1>2, <1>4, BoundAssumption DEF EndInv, SockInv, Starts
  <2>2. queue' = queue \/ queue' = Tail(queue)
    BY DEF StrandStep, RunAlone, RunBind, RunUnbound, RunSend, RunClear, RunCallback, RunSilent,
       CallbackCopy, CallbackCall, DoClear
  <2>3. \A n \in 1 .. Len(queue') : \E m \in 1 .. Len(queue) : queue'[n] = queue[m]
    <3>1. CASE queue' = queue
      BY <3>1
    <3>2. CASE queue' = Tail(queue)
      <4>1. \A n \in 1 .. Len(queue') : n + 1 \in 1 .. Len(queue) /\ queue'[n] = queue[n + 1]
        BY <1>3, <3>2
      <4> QED BY <4>1
    <3> QED BY <2>2, <3>1, <3>2
  <2>4. \A n \in 1 .. Len(queue') : sock'[queue'[n].port] # "none"
    BY <1>3, <1>4, <2>3 DEF EndInv, SockInv
  <2>5. spc' # "idle" => port_cb'[Head(queue').port]
    <3>1. spc' # "idle" => queue' = queue /\ port_cb' = port_cb /\ (spc # "idle" \/ port_cb[Cur])
      BY DEF StrandStep, RunAlone, RunBind, RunUnbound, RunSend, RunClear, RunCallback, RunSilent,
         CallbackCopy, CallbackCall, Runs, portVars
    <3> QED BY <3>1 DEF EndInv, SockInv, Cur
  <2>6. bound \subseteq Starts /\ bound' \subseteq bound \cup {Cur}
    BY DEF StrandStep, RunAlone, RunBind, RunUnbound, RunSend, RunClear, RunCallback, RunSilent,
       CallbackCopy, CallbackCall, DoClear, portVars, HInv, TypeOK, PortTypes
  <2>7. \A j \in bound' : sock'[j] # "none"
    BY <1>1, <1>4, <1>5, <2>6 DEF EndInv, SockInv
  <2> QED BY <2>1, <2>4, <2>5, <2>7 DEF SockInv, Cur
<1> QED BY <1>8, <1>9, <1>10 DEF EndInv

\* The user is told of the failure or of the loss of a connection once, and of the
\* loss only of one that was made: connector_helper.hpp:45-98, netport.cpp:274-317.
THEOREM EndsOnce == Spec => []OneEnd
<1>1. Init => EndInv
  <2> SUFFICES ASSUME Init PROVE EndInv
    OBVIOUS
  <2>1. /\ queue = <<>> /\ spc = "idle" /\ netport = 0 /\ bound = {}
        /\ \A k \in Starts : hpc[k] = "no" /\ sock[k] = "none" /\ ~port_cb[k] /\ log[k] = <<>>
    BY DEF Init, PortInit
  <2>2. 1 .. Len(queue) = {}
    BY <2>1
  <2> QED BY <2>1, <2>2 DEF EndInv, ConnEnd, SockInv, Says, OneIn
<1>2. ASSUME HInv, EndInv, [Next]_vars PROVE EndInv'
  <2>1. CASE UNCHANGED vars
    BY <1>2, <2>1 DEF EndInv, ConnEnd, SockInv, Cur, vars, helperVars, handlerVars, portVars, postVars,
                      strandVars
  <2>2. ASSUME NEW k \in Starts, Start(k) \/ ConnectStep(k) PROVE EndInv'
    BY <1>2, <2>2, HandlerEnd, HandlerSock DEF EndInv
  <2> QED BY <1>2, <2>1, <2>2, PostEnd, StrandEnd DEF Next
<1>3. EndInv => OneEnd
  BY DEF EndInv, ConnEnd, OneIn, OneEnd, EndSays
<1> QED BY <1>1, <1>2, <1>3, HelperInvariant, PTL DEF Spec
=============================================================================
