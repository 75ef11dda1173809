------------------------ MODULE ListenerHelperProofs ------------------------
(***************************************************************************)
(* Theorems about ListenerHelper, for any numbers of connections, calls of *)
(* async_accept and io threads.                                            *)
(***************************************************************************)
EXTENDS ListenerHelper, PortStrandProofs, FiniteSetTheorems

Handlers == {"call", "user", "port"}

\* The io threads that run a handler are among those that are left.
BusySet == {i \in Listens : Busy(i)}
IoInv   == Cardinality(BusySet) <= io

TInv == TypeOK /\ IoInv

LEMMA Bounds ==
  /\ MaxPeers \in Nat /\ MaxListens \in Nat /\ MaxCalls \in Nat /\ IoThreads \in Nat
  /\ MaxEvents \in Nat /\ MaxRefused \in Nat
BY ListenAssumption, PortAssumption

LEMMA BusyFinite ==
  IsFiniteSet(BusySet) /\ Cardinality(BusySet) \in Nat
<1>1. IsFiniteSet(Listens)
  BY Bounds, FS_Interval DEF Listens
<1> QED BY <1>1, FS_Subset, FS_CardinalityType DEF BusySet

\* One chain moves on.
LEMMA ChainType ==
  ASSUME TypeOK, NEW i \in Listens, NEW s \in Stages, NEW c \in 0 .. MaxPeers,
         chain' = [chain EXCEPT ![i] = s], conn' = [conn EXCEPT ![i] = c],
         s \in Handlers <=> c # 0
  PROVE  /\ chain' \in [Listens -> Stages] /\ conn' \in [Listens -> 0 .. MaxPeers]
         /\ \A j \in Listens : chain'[j] \in Handlers <=> conn'[j] # 0
BY DEF TypeOK, Handlers

LEMMA ConnSame ==
  ASSUME TypeOK, NEW i \in Listens, conn' = conn
  PROVE  conn' = [conn EXCEPT ![i] = conn[i]] /\ conn[i] \in 0 .. MaxPeers
BY DEF TypeOK

\* The handlers that run, when one chain moves on.
LEMMA BusyMoves ==
  ASSUME TypeOK, NEW i \in Listens, NEW s, chain' = [chain EXCEPT ![i] = s]
  PROVE  LET busy == s \in {"call", "user", "port", "after", "again"}
             card == Cardinality(BusySet)
         IN /\ (Busy(i) <=> busy) => Cardinality(BusySet') = card
            /\ ~Busy(i) /\ busy => Cardinality(BusySet') = card + 1
            /\ Busy(i) /\ ~busy => Cardinality(BusySet') = card - 1
<1> DEFINE busy == s \in {"call", "user", "port", "after", "again"}
<1>1. chain \in [Listens -> Stages]
  BY DEF TypeOK
<1>2. \A j \in Listens : Busy(j)' <=> (IF j = i THEN busy ELSE Busy(j))
  BY <1>1 DEF Busy
<1>3. IsFiniteSet(BusySet) /\ Cardinality(BusySet) \in Nat
  BY BusyFinite
<1>4. BusySet' = IF busy THEN BusySet \cup {i} ELSE BusySet \ {i}
  BY <1>2 DEF BusySet
<1>5. i \in BusySet <=> Busy(i)
  BY DEF BusySet
<1> HIDE DEF busy
<1>6. CASE busy
  <2>1. BusySet' = BusySet \cup {i}
    BY <1>4, <1>6
  <2> QED BY <1>3, <1>5, <1>6, <2>1, FS_AddElement DEF busy
<1>7. CASE ~busy
  <2>1. BusySet' = BusySet \ {i}
    BY <1>4, <1>7
  <2> QED BY <1>3, <1>5, <1>7, <2>1, FS_RemoveElement DEF busy
<1> QED BY <1>6, <1>7

LEMMA InitTInv ==
  Init => TInv
<1> SUFFICES ASSUME Init PROVE TInv
  OBVIOUS
<1>1. <<>> \in Seq([fn : FoFns, port : Peers])
  OBVIOUS
<1>2. /\ 0 \in 0 .. MaxEvents /\ 0 \in 0 .. MaxPeers /\ IoThreads \in 0 .. IoThreads
      /\ 0 \in 0 .. MaxCalls
  BY Bounds
<1>3. PortTypes(Peers)
  BY <1>1, <1>2 DEF Init, PortInit, PortTypes
<1>6. TypeOK
  BY <1>2, <1>3 DEF Init, TypeOK, Stages
<1>4. BusySet = {}
  BY DEF Init, BusySet, Busy
<1>5. IoInv
  BY <1>4, Bounds, FS_EmptySet DEF Init, IoInv
<1> QED BY <1>5, <1>6 DEF TInv
-----------------------------------------------------------------------------
(* The steps keep the types.                                                *)

AcceptTypes ==
  /\ {quit, acpt_cb, listening} \subseteq BOOLEAN
  /\ spot \in {"no", "close", "crash"}

ChainTypes ==
  /\ chain \in [Listens -> Stages]
  /\ conn \in [Listens -> 0 .. MaxPeers]
  /\ \A i \in Listens : chain[i] \in Handlers <=> conn[i] # 0
  /\ io \in 0 .. IoThreads
  /\ away \subseteq Peers /\ waiting \subseteq Peers

HelperTypes ==
  /\ hpc \in [Peers -> {"no", "new", "port", "done"}]
  /\ stopped \in [Peers -> BOOLEAN] /\ cbs \in [Peers -> BOOLEAN]
  /\ calls \in 0 .. MaxCalls
  /\ missed \subseteq Peers

LEMMA TypeParts ==
  /\ TypeOK <=> PortTypes(Peers) /\ AcceptTypes /\ ChainTypes /\ HelperTypes
  /\ TypeOK' <=> PortTypes(Peers)' /\ AcceptTypes' /\ ChainTypes' /\ HelperTypes'
BY DEF TypeOK, AcceptTypes, ChainTypes, HelperTypes, Handlers

LEMMA PortSame ==
  ASSUME TypeOK, UNCHANGED <<sock, portVars, postVars, strandVars, events, crashed>>
  PROVE  PortTypes(Peers)'
BY DEF TypeOK, PortTypes, portVars, postVars, strandVars

LEMMA ChainSame ==
  ASSUME TInv, UNCHANGED chainVars
  PROVE  ChainTypes' /\ IoInv'
<1>1. UNCHANGED <<chain, conn, io, away, waiting>>
  BY DEF chainVars
<1>2. ChainTypes
  BY TypeParts DEF TInv
<1> QED BY <1>1, <1>2 DEF TInv, ChainTypes, IoInv, BusySet, Busy

LEMMA HelperSame ==
  ASSUME TypeOK, UNCHANGED <<helperVars, calls>>
  PROVE  HelperTypes'
<1>1. HelperTypes
  BY TypeParts
<1> QED BY <1>1 DEF HelperTypes, helperVars

LEMMA AcceptSame ==
  ASSUME TypeOK, UNCHANGED acceptVars
  PROVE  AcceptTypes'
<1>1. AcceptTypes
  BY TypeParts
<1> QED BY <1>1 DEF AcceptTypes, acceptVars

\* bind_accept_callback and stop.
LEMMA AcceptorTInv ==
  ASSUME TInv, BindAccept \/ Stop
  PROVE  TInv'
<1>1. UNCHANGED <<chainVars, helperVars, calls, netVars>>
  BY DEF BindAccept, Stop
<1>2. AcceptTypes'
  BY TypeParts DEF TInv, BindAccept, Stop, AcceptTypes
<1> QED BY <1>1, <1>2, TypeParts, PortSame, ChainSame, HelperSame DEF TInv, netVars

\* A chain begins, or the acceptor is closed, or somebody connects.
LEMMA ListenTInv ==
  ASSUME TInv, StopClose \/ (\E i \in Listens : AsyncAccept(i)) \/ (\E k \in Peers : Arrive(k))
  PROVE  TInv'
<1>0. ChainTypes /\ AcceptTypes /\ TypeOK
  BY TypeParts DEF TInv
<1>1. UNCHANGED <<helperVars, calls, netVars, conn, io>>
  BY DEF StopClose, AsyncAccept, Arrive, chainVars
<1>2. AcceptTypes'
  BY <1>0 DEF StopClose, AsyncAccept, Arrive, AcceptTypes, acceptVars
<1>3. /\ chain' \in [Listens -> Stages]
      /\ \A i \in Listens : chain'[i] \in Handlers <=> chain[i] \in Handlers
      /\ \A i \in Listens : Busy(i)' <=> Busy(i)
      /\ away' \subseteq Peers /\ waiting' \subseteq Peers
  <2>1. CASE StopClose
    <3>1. /\ chain' = [i \in Listens |-> IF chain[i] = "pending" THEN "aborted" ELSE chain[i]]
          /\ waiting' = {} /\ away' = away
      BY <2>1 DEF StopClose
    <3> QED BY <1>0, <3>1 DEF ChainTypes, Handlers, Busy, Stages
  <2>2. ASSUME NEW i \in Listens, AsyncAccept(i)
        PROVE  /\ chain' \in [Listens -> Stages]
               /\ \A j \in Listens : chain'[j] \in Handlers <=> chain[j] \in Handlers
               /\ \A j \in Listens : Busy(j)' <=> Busy(j)
               /\ away' \subseteq Peers /\ waiting' \subseteq Peers
    <3>1. /\ chain[i] = "none" /\ away' = away /\ waiting' = waiting
          /\ chain' = chain \/ chain' = [chain EXCEPT ![i] = "pending"]
      BY <2>2 DEF AsyncAccept
    <3> QED BY <1>0, <3>1 DEF ChainTypes, Handlers, Busy, Stages
  <2>3. ASSUME NEW k \in Peers, Arrive(k)
        PROVE  /\ chain' \in [Listens -> Stages]
               /\ \A j \in Listens : chain'[j] \in Handlers <=> chain[j] \in Handlers
               /\ \A j \in Listens : Busy(j)' <=> Busy(j)
               /\ away' \subseteq Peers /\ waiting' \subseteq Peers
    <3>1. chain' = chain /\ away' = away \ {k} /\ waiting' = waiting \cup {k}
      BY <2>3 DEF Arrive
    <3> QED BY <1>0, <3>1 DEF ChainTypes, Handlers, Busy, Stages
  <2> QED BY <2>1, <2>2, <2>3
<1>4. ChainTypes'
  BY <1>0, <1>1, <1>3 DEF ChainTypes
<1>5. IoInv'
  <2>1. BusySet' = BusySet
    BY <1>3 DEF BusySet
  <2> QED BY <1>1, <2>1 DEF TInv, IoInv
<1> QED BY <1>0, <1>1, <1>2, <1>4, <1>5, TypeParts, PortSame, HelperSame DEF TInv, netVars

\* uninit, send_message and what a socket reports.
LEMMA CallTInv ==
  ASSUME TInv, NEW k \in Peers, Uninit(k) \/ SendMessage(k) \/ Report(k)
  PROVE  TInv'
<1>1. UNCHANGED <<acceptVars, chainVars, hpc, sock, portVars, strandVars, crashed>>
  BY DEF Uninit, SendMessage, Report, Event, helperVars
<1>2. events' \in 0 .. MaxEvents
  <2>1. events \in 0 .. MaxEvents
    BY DEF TInv, TypeOK, PortTypes
  <2>2. events' = events \/ (events < MaxEvents /\ events' = events + 1)
    BY DEF Uninit, SendMessage, Report, Event
  <2> QED BY <2>1, <2>2, Bounds
<1>3. PICK fn \in FoFns : Post(Fo(fn, k)) \/ UNCHANGED postVars
  <2>1. CASE Uninit(k)
    BY <2>1 DEF Uninit, FoFns
  <2>2. CASE SendMessage(k)
    BY <2>2 DEF SendMessage, FoFns
  <2>3. CASE Report(k)
    BY <2>3 DEF Report, Event, FoFns
  <2> QED BY <2>1, <2>2, <2>3
<1>4. PortTypes(Peers)'
  <2>1. Fo(fn, k) \in FosOf(Peers)
    BY FoType
  <2>2. PortTypes(Peers)
    BY DEF TInv, TypeOK
  <2> QED BY <1>1, <1>2, <1>3, <2>1, <2>2, PortPost
<1>5. HelperTypes'
  <2>1. HelperTypes
    BY TypeParts DEF TInv
  <2>2. calls' = calls \/ (calls < MaxCalls /\ calls' = calls + 1)
    BY DEF Uninit, SendMessage, Report
  <2>3. calls' \in 0 .. MaxCalls
    BY <2>1, <2>2, Bounds DEF HelperTypes
  <2>4. /\ stopped' \in [Peers -> BOOLEAN] /\ cbs' \in [Peers -> BOOLEAN]
        /\ missed' \subseteq Peers
    BY <2>1 DEF Uninit, SendMessage, Report, NoCallbacks, HelperTypes, helperVars
  <2> QED BY <1>1, <2>1, <2>3, <2>4 DEF HelperTypes
<1>6. AcceptTypes' /\ ChainTypes' /\ IoInv'
  BY <1>1, AcceptSame, ChainSame DEF TInv
<1> QED BY <1>4, <1>5, <1>6, TypeParts DEF TInv

LEMMA StrandTInv ==
  ASSUME TInv, StrandStep
  PROVE  /\ TInv' /\ UNCHANGED <<acceptVars, chainVars, helperVars, calls, refused, events>>
         /\ queue # <<>> /\ Cur \in Peers /\ PortRuns
<1>1. UNCHANGED <<acceptVars, chainVars, helperVars, calls, refused, events>>
  BY DEF StrandStep
<1>2. PortTypes(Peers) /\ cbs \in [Peers -> BOOLEAN]
  BY DEF TInv, TypeOK
<1>3. PortRuns /\ user_cb' \in BOOLEAN
  <2>1. user_cb \in BOOLEAN
    BY <1>2 DEF PortTypes
  <2>2. CASE RunAlone
    <3>1. user_cb' = user_cb
      BY <2>2 DEF RunAlone, RunBind, RunUnbound, RunSend, RunClear, RunCallback, RunSilent
    <3> QED BY <2>1, <2>2, <3>1 DEF PortRuns
  <2>3. CASE CallbackCopy(cbs[Cur])
    <3>1. user_cb' = cbs[Cur] /\ spc = "copy"
      BY <2>3 DEF CallbackCopy
    <3>2. Cur \in Peers
      <4>1. queue # <<>> /\ queue \in Seq(FosOf(Peers))
        BY <1>2, <3>1 DEF PortTypes, FosOf
      <4> QED BY <4>1, TailType DEF Cur
    <3> QED BY <1>2, <2>3, <3>1, <3>2 DEF PortRuns
  <2>4. CASE CallbackCall
    <3>1. user_cb' = FALSE
      BY <2>4 DEF CallbackCall
    <3> QED BY <2>4, <3>1 DEF PortRuns
  <2> QED BY <2>2, <2>3, <2>4 DEF StrandStep
<1>4. PortTypes(Peers)' /\ queue # <<>> /\ Cur \in Peers
  BY <1>1, <1>2, <1>3, PortRun
<1>5. AcceptTypes' /\ ChainTypes' /\ IoInv' /\ HelperTypes'
  BY <1>1, AcceptSame, ChainSame, HelperSame DEF TInv
<1> QED BY <1>1, <1>3, <1>4, <1>5, TypeParts DEF TInv

\* What a handler step that moves one chain has to show of the chains.
LEMMA ChainMoves ==
  ASSUME TInv, NEW i \in Listens, NEW s \in Stages, chain' = [chain EXCEPT ![i] = s],
         NEW c \in 0 .. MaxPeers, conn' = [conn EXCEPT ![i] = c], s \in Handlers <=> c # 0,
         away' \subseteq Peers, waiting' \subseteq Peers, io' = io,
         Busy(i) \/ IoFree \/ s \notin {"call", "user", "port", "after", "again"}
  PROVE  ChainTypes' /\ IoInv'
<1>1. ChainTypes /\ TypeOK /\ io \in Nat
  BY TypeParts, Bounds DEF TInv, ChainTypes
<1>2. ChainTypes'
  <2>1. /\ chain' \in [Listens -> Stages] /\ conn' \in [Listens -> 0 .. MaxPeers]
        /\ \A j \in Listens : chain'[j] \in Handlers <=> conn'[j] # 0
    BY <1>1, ChainType
  <2> QED BY <1>1, <2>1 DEF ChainTypes
<1>3. IoInv'
  <2> DEFINE busy == s \in {"call", "user", "port", "after", "again"}
             card == Cardinality(BusySet)
  <2>1. /\ (Busy(i) <=> busy) => Cardinality(BusySet') = card
        /\ ~Busy(i) /\ busy => Cardinality(BusySet') = card + 1
        /\ Busy(i) /\ ~busy => Cardinality(BusySet') = card - 1
    BY <1>1, BusyMoves
  <2>2. card <= io /\ card \in Nat /\ (IoFree => card < io)
    BY BusyFinite DEF TInv, IoInv, IoFree, BusySet
  <2>3. Cardinality(BusySet') <= io
    <3> HIDE DEF card
    <3>1. Busy(i) \/ IoFree \/ ~busy
      OBVIOUS
    <3> HIDE DEF busy
    <3>2. CASE Busy(i) <=> busy
      BY <2>1, <2>2, <3>2
    <3>3. CASE ~Busy(i) /\ busy
      BY <1>1, <2>1, <2>2, <3>1, <3>3
    <3>4. CASE Busy(i) /\ ~busy
      BY <1>1, <2>1, <2>2, <3>4
    <3> QED BY <3>2, <3>3, <3>4
  <2> QED BY <2>3 DEF IoInv
<1> QED BY <1>2, <1>3

LEMMA AcceptedTInv ==
  ASSUME TInv, NEW i \in Listens, NEW k \in Peers, Accepted(i, k)
  PROVE  TInv'
<1>1. /\ chain' = [chain EXCEPT ![i] = "call"] /\ conn' = [conn EXCEPT ![i] = k]
      /\ waiting' = waiting \ {k} /\ sock' = [sock EXCEPT ![k] = "open"] /\ IoFree
      /\ UNCHANGED <<acceptVars, calls, port_cb, bound, queue, refused, spc, user_cb, crashed,
                     io, away, helperVars, events>>
  BY DEF Accepted, acceptFrame, portVars, strandVars, postVars
<1>2. TypeOK /\ ChainTypes
  BY TypeParts DEF TInv
<1>3. ChainTypes' /\ IoInv'
  <2>1. k \in 0 .. MaxPeers /\ k # 0 /\ "call" \in Handlers /\ "call" \in Stages
    BY Bounds DEF Peers, Handlers, Stages
  <2>2. away' \subseteq Peers /\ waiting' \subseteq Peers
    BY <1>1, <1>2 DEF ChainTypes
  <2> QED BY <1>1, <2>1, <2>2, ChainMoves
<1>4. PortTypes(Peers)'
  BY <1>1, <1>2 DEF TypeOK, PortTypes
<1> QED BY <1>1, <1>2, <1>3, <1>4, TypeParts, AcceptSame, HelperSame DEF TInv

\* Steps of a handler that have to do with the accept only.
LEMMA TurnTInv ==
  ASSUME TInv, NEW i \in Listens, AcceptError(i) \/ CheckQuit(i) \/ AcceptAgain(i)
  PROVE  TInv'
<1>1. /\ UNCHANGED <<acceptVars, conn, io, away, waiting, helperVars, calls, sock, portVars,
                     postVars, strandVars, crashed>>
      /\ events' = events \/ (events < MaxEvents /\ events' = events + 1)
  BY DEF AcceptError, CheckQuit, AcceptAgain, acceptFrame, netVars
<1>2. TypeOK /\ ChainTypes
  BY TypeParts DEF TInv
<1>3. chain[i] \notin Handlers
  BY DEF AcceptError, CheckQuit, AcceptAgain, Handlers
<1>4. PICK s \in Stages \ Handlers :
        /\ chain' = [chain EXCEPT ![i] = s]
        /\ Busy(i) \/ IoFree \/ s \notin {"call", "user", "port", "after", "again"}
  <2>1. CASE AcceptError(i)
    BY <2>1 DEF AcceptError, AfterError, Stages, Handlers
  <2>2. CASE CheckQuit(i)
    BY <2>2 DEF CheckQuit, Busy, Stages, Handlers
  <2>3. CASE AcceptAgain(i)
    BY <2>3 DEF AcceptAgain, Busy, Stages, Handlers
  <2> QED BY <2>1, <2>2, <2>3
<1>5. ChainTypes' /\ IoInv'
  <2>1. /\ conn' = [conn EXCEPT ![i] = conn[i]] /\ conn[i] \in 0 .. MaxPeers
        /\ s \in Handlers <=> conn[i] # 0
    BY <1>1, <1>2, <1>3, <1>4, ConnSame DEF ChainTypes
  <2>2. away' \subseteq Peers /\ waiting' \subseteq Peers /\ s \in Stages
    BY <1>1, <1>2, <1>4 DEF ChainTypes
  <2> QED BY <1>1, <1>4, <2>1, <2>2, ChainMoves
<1>6. PortTypes(Peers)'
  <2>1. events' \in 0 .. MaxEvents
    BY <1>1, <1>2, Bounds DEF TypeOK, PortTypes
  <2> QED BY <1>1, <1>2, <2>1 DEF TypeOK, PortTypes, portVars, postVars, strandVars
<1> QED BY <1>1, <1>2, <1>5, <1>6, TypeParts, AcceptSame, HelperSame DEF TInv

LEMMA CallBackTInv ==
  ASSUME TInv, NEW i \in Listens, CallBack(i)
  PROVE  TInv'
<1>1. /\ chain[i] = "call"
      /\ UNCHANGED <<acceptVars, calls, port_cb, bound, queue, refused, spc, user_cb, crashed,
                     away, waiting, stopped, missed>>
  BY DEF CallBack, acceptFrame, portVars, strandVars, postVars
<1>2. TypeOK /\ ChainTypes /\ HelperTypes
  BY TypeParts DEF TInv
<1>3. conn[i] \in Peers /\ conn[i] # 0 /\ conn[i] \in 0 .. MaxPeers /\ Busy(i)
  <2>1. conn[i] # 0 /\ conn[i] \in 0 .. MaxPeers
    BY <1>1, <1>2 DEF ChainTypes, Handlers
  <2> QED BY <1>1, <2>1, Bounds DEF Peers, Busy
<1>4. away' \subseteq Peers /\ waiting' \subseteq Peers
  BY <1>1, <1>2 DEF ChainTypes
<1>5. CASE HandOver(i)
  <2>1. /\ chain' = [chain EXCEPT ![i] = "user"] /\ hpc' = [hpc EXCEPT ![conn[i]] = "new"]
        /\ cbs' = [cbs EXCEPT ![conn[i]] = TRUE]
        /\ UNCHANGED <<conn, io, sock, events>>
    BY <1>5 DEF HandOver
  <2>2. ChainTypes' /\ IoInv'
    <3>1. conn' = [conn EXCEPT ![i] = conn[i]] /\ "user" \in Handlers /\ "user" \in Stages
      BY <1>2, <2>1, ConnSame DEF Handlers, Stages
    <3> QED BY <1>3, <1>4, <2>1, <3>1, ChainMoves
  <2>3. PortTypes(Peers)'
    BY <1>1, <1>2, <2>1 DEF TypeOK, PortTypes
  <2>4. HelperTypes'
    BY <1>1, <1>2, <1>3, <2>1 DEF HelperTypes
  <2> QED BY <1>1, <1>2, <2>2, <2>3, <2>4, TypeParts, AcceptSame DEF TInv
<1>6. CASE Throw(i)
  <2>1. /\ chain' = [chain EXCEPT ![i] = "thrown"] /\ conn' = [conn EXCEPT ![i] = 0]
        /\ io' = io - 1 /\ sock' = [sock EXCEPT ![conn[i]] = "closed"]
        /\ UNCHANGED <<hpc, cbs>>
    BY <1>6 DEF Throw
  <2>2. Cardinality(BusySet') = Cardinality(BusySet) - 1
    <3>1. /\ Busy(i) /\ "thrown" \notin {"call", "user", "port", "after", "again"}
          /\ TypeOK /\ chain' = [chain EXCEPT ![i] = "thrown"]
      BY <1>2, <1>3, <2>1
    <3> QED BY <3>1, BusyMoves, ZenonT(30)
  <2>3. /\ Cardinality(BusySet) <= io /\ Cardinality(BusySet) \in Nat
        /\ Cardinality(BusySet') \in Nat
    <3>1. IsFiniteSet(BusySet')
      <4>1. IsFiniteSet(Listens) /\ BusySet' \subseteq Listens
        BY Bounds, FS_Interval DEF Listens, BusySet
      <4> QED BY <4>1, FS_Subset
    <3> QED BY <3>1, BusyFinite, FS_CardinalityType DEF TInv, IoInv
  <2>4. IoInv' /\ io' \in 0 .. IoThreads
    BY <1>2, <2>1, <2>2, <2>3, Bounds DEF IoInv, ChainTypes
  <2>5. ChainTypes'
    <3>1. "thrown" \in Stages /\ "thrown" \notin Handlers /\ 0 \in 0 .. MaxPeers
      BY Bounds DEF Stages, Handlers
    <3>2. /\ chain' \in [Listens -> Stages] /\ conn' \in [Listens -> 0 .. MaxPeers]
          /\ \A j \in Listens : chain'[j] \in Handlers <=> conn'[j] # 0
      BY <1>2, <2>1, <3>1, ChainType
    <3> QED BY <1>4, <2>4, <3>2 DEF ChainTypes
  <2>6. PortTypes(Peers)'
    <3>1. events' \in 0 .. MaxEvents
      <4>1. events \in 0 .. MaxEvents
        BY <1>2 DEF TypeOK, PortTypes
      <4> QED BY <1>6, <4>1, Bounds DEF Throw
    <3> QED BY <1>1, <1>2, <1>3, <2>1, <3>1 DEF TypeOK, PortTypes
  <2>7. HelperTypes'
    BY <1>1, <1>2, <2>1 DEF HelperTypes
  <2> QED BY <1>1, <1>2, <2>4, <2>5, <2>6, <2>7, TypeParts, AcceptSame DEF TInv
<1> QED BY <1>5, <1>6 DEF CallBack

\* init.
LEMMA InitPortTInv ==
  ASSUME TInv, NEW i \in Listens, InitPort(i)
  PROVE  TInv' /\ conn[i] \in Peers
<1>1. /\ chain[i] = "user" /\ chain' = [chain EXCEPT ![i] = "port"]
      /\ hpc' = [hpc EXCEPT ![conn[i]] = "port"] /\ port_cb' = [port_cb EXCEPT ![conn[i]] = TRUE]
      /\ UNCHANGED <<acceptVars, conn, io, away, waiting, stopped, cbs, missed, calls, sock, bound,
                     queue, refused, spc, user_cb, events, crashed>>
  BY DEF InitPort, postVars, strandVars
<1>2. TypeOK /\ ChainTypes /\ HelperTypes
  BY TypeParts DEF TInv
<1>3. conn[i] \in Peers /\ conn[i] # 0 /\ conn[i] \in 0 .. MaxPeers /\ Busy(i)
  <2>1. conn[i] # 0 /\ conn[i] \in 0 .. MaxPeers
    BY <1>1, <1>2 DEF ChainTypes, Handlers
  <2> QED BY <1>1, <2>1, Bounds DEF Peers, Busy
<1>4. ChainTypes' /\ IoInv'
  <2>1. away' \subseteq Peers /\ waiting' \subseteq Peers
    BY <1>1, <1>2 DEF ChainTypes
  <2>2. conn' = [conn EXCEPT ![i] = conn[i]] /\ "port" \in Handlers /\ "port" \in Stages
    BY <1>1, <1>2, ConnSame DEF Handlers, Stages
  <2> QED BY <1>1, <1>3, <2>1, <2>2, ChainMoves
<1>5. PortTypes(Peers)'
  BY <1>1, <1>2, <1>3 DEF TypeOK, PortTypes
<1>6. HelperTypes'
  BY <1>1, <1>2, <1>3 DEF HelperTypes
<1> QED BY <1>1, <1>2, <1>3, <1>4, <1>5, <1>6, TypeParts, AcceptSame DEF TInv

LEMMA InitBindTInv ==
  ASSUME TInv, NEW i \in Listens, InitBind(i)
  PROVE  TInv' /\ conn[i] \in Peers
<1>1. /\ chain[i] = "port" /\ chain' = [chain EXCEPT ![i] = "after"]
      /\ conn' = [conn EXCEPT ![i] = 0] /\ hpc' = [hpc EXCEPT ![conn[i]] = "done"]
      /\ Post(Fo("bind", conn[i]))
      /\ UNCHANGED <<acceptVars, calls, portVars, strandVars, crashed, io, away, waiting, stopped,
                     cbs, missed, sock, events>>
  BY DEF InitBind, acceptFrame
<1>2. TypeOK /\ ChainTypes /\ HelperTypes
  BY TypeParts DEF TInv
<1>3. conn[i] \in Peers /\ Busy(i)
  <2>1. conn[i] # 0 /\ conn[i] \in 0 .. MaxPeers
    BY <1>1, <1>2 DEF ChainTypes, Handlers
  <2> QED BY <1>1, <2>1, Bounds DEF Peers, Busy
<1>4. ChainTypes' /\ IoInv'
  <2>1. away' \subseteq Peers /\ waiting' \subseteq Peers
    BY <1>1, <1>2 DEF ChainTypes
  <2>2. "after" \in Stages /\ "after" \notin Handlers /\ 0 \in 0 .. MaxPeers
    BY Bounds DEF Handlers, Stages
  <2> QED BY <1>1, <1>3, <2>1, <2>2, ChainMoves
<1>5. PortTypes(Peers)'
  <2>1. Fo("bind", conn[i]) \in FosOf(Peers)
    BY <1>3, FoType DEF FoFns
  <2>2. events' \in 0 .. MaxEvents /\ PortTypes(Peers)
    BY <1>1, <1>2 DEF TypeOK, PortTypes
  <2> QED BY <1>1, <2>1, <2>2, PortPost
<1>6. HelperTypes'
  BY <1>1, <1>2, <1>3 DEF HelperTypes
<1> QED BY <1>1, <1>2, <1>3, <1>4, <1>5, <1>6, TypeParts, AcceptSame DEF TInv

LEMMA NextTInv ==
  TInv /\ [Next]_vars => TInv'
<1> SUFFICES ASSUME TInv, [Next]_vars PROVE TInv'
  OBVIOUS
<1>1. CASE UNCHANGED vars
  BY <1>1, TypeParts, PortSame, ChainSame, HelperSame, AcceptSame DEF TInv, vars, netVars
<1>2. ASSUME NEW i \in Listens, ChainStep(i) PROVE TInv'
  BY <1>2, AcceptedTInv, TurnTInv, CallBackTInv, InitPortTInv, InitBindTInv DEF ChainStep
<1> QED BY <1>1, <1>2, AcceptorTInv, ListenTInv, CallTInv, StrandTInv DEF Next

LEMMA TypesHold ==
  Spec => []TInv
BY InitTInv, NextTInv, PTL DEF Spec

\* The acceptor, the helpers and their netports keep their types, and the handlers
\* that run are no more than the io threads that are left (socket.hpp:514-558,
\* listener_helper.hpp:26-80, thread_pool.hpp:179-186).
THEOREM ListenerTypes == Spec => []TypeOK
<1>1. TInv => TypeOK
  BY DEF TInv
<1> QED BY <1>1, TypesHold, PTL
-----------------------------------------------------------------------------
(* Connections, and the function objects of their netports.                 *)

\* The helper of the connection that a handler has, at the handler's stages.
HelperAt(stage) ==
  IF stage = "call" THEN "no" ELSE IF stage = "user" THEN "new" ELSE "port"

\* A connection is accepted once and has one handler; who has not been accepted
\* has no helper, and uninit comes to helpers only.
ConnInv ==
  /\ \A i, j \in Listens : conn[i] = conn[j] /\ conn[i] # 0 => i = j
  /\ \A i \in Listens : conn[i] # 0 =>
       conn[i] \notin away \cup waiting /\ hpc[conn[i]] = HelperAt(chain[i])
  /\ \A k \in away \cup waiting : hpc[k] = "no"
  /\ away \cap waiting = {}
  /\ \A k \in Peers : stopped[k] => hpc[k] # "no" /\ ~cbs[k]

LInv == TInv /\ ConnInv

LEMMA InitConnInv ==
  Init => ConnInv
BY DEF Init, ConnInv

\* Steps that leave the connections to their handlers.
LEMMA ConnFrame ==
  ASSUME LInv, \A i \in Listens : conn[i] # 0 => chain'[i] = chain[i],
         UNCHANGED <<conn, away, waiting, hpc, stopped, cbs>>
  PROVE  ConnInv'
BY DEF LInv, ConnInv

LEMMA AcceptedConnInv ==
  ASSUME LInv, NEW i \in Listens, NEW k \in Peers, Accepted(i, k)
  PROVE  ConnInv'
<1>1. /\ chain[i] = "pending" /\ chain' = [chain EXCEPT ![i] = "call"]
      /\ conn' = [conn EXCEPT ![i] = k] /\ k \in waiting /\ waiting' = waiting \ {k}
      /\ UNCHANGED <<away, hpc, stopped, cbs>>
  BY DEF Accepted, helperVars
<1>2. /\ chain \in [Listens -> Stages] /\ conn \in [Listens -> 0 .. MaxPeers]
  BY DEF LInv, TInv, TypeOK
<1>3. /\ chain'[i] = "call" /\ conn'[i] = k
      /\ \A j \in Listens \ {i} : chain'[j] = chain[j] /\ conn'[j] = conn[j] /\ conn[j] # k
  BY <1>1, <1>2, Bounds DEF LInv, ConnInv, Peers
<1>4. hpc[k] = "no" /\ k \notin away
  BY <1>1 DEF LInv, ConnInv
<1> QED BY <1>1, <1>3, <1>4 DEF LInv, ConnInv, HelperAt

LEMMA CallBackConnInv ==
  ASSUME LInv, NEW i \in Listens, CallBack(i)
  PROVE  ConnInv' /\ conn[i] \in Peers /\ hpc[conn[i]] = "no"
<1>1. chain[i] = "call" /\ UNCHANGED <<away, waiting, stopped>>
  BY DEF CallBack
<1>2. /\ chain \in [Listens -> Stages] /\ conn \in [Listens -> 0 .. MaxPeers]
      /\ hpc \in [Peers -> {"no", "new", "port", "done"}] /\ cbs \in [Peers -> BOOLEAN]
      /\ conn[i] # 0
  BY <1>1 DEF LInv, TInv, TypeOK
<1>3. conn[i] \in Peers
  BY <1>2, Bounds DEF Peers
<1>4. hpc[conn[i]] = "no" /\ ~stopped[conn[i]] /\ conn[i] \notin away \cup waiting
  BY <1>1, <1>2, <1>3 DEF LInv, ConnInv, HelperAt
<1>5. \A j \in Listens \ {i} : conn[j] # conn[i]
  BY <1>2 DEF LInv, ConnInv
<1>6. CASE HandOver(i)
  <2>1. /\ chain' = [chain EXCEPT ![i] = "user"] /\ hpc' = [hpc EXCEPT ![conn[i]] = "new"]
        /\ cbs' = [cbs EXCEPT ![conn[i]] = TRUE] /\ conn' = conn
    BY <1>6 DEF HandOver
  <2>2. /\ chain'[i] = "user" /\ \A j \in Listens \ {i} : chain'[j] = chain[j]
        /\ hpc'[conn[i]] = "new"
        /\ \A k \in Peers \ {conn[i]} : hpc'[k] = hpc[k] /\ cbs'[k] = cbs[k]
    BY <1>2, <1>3, <2>1
  <2>3. away \subseteq Peers /\ waiting \subseteq Peers
    BY DEF LInv, TInv, TypeOK
  <2>4. \A j \in Listens \ {i} : conn[j] # 0 => conn[j] \in Peers \ {conn[i]}
    BY <1>2, <1>5, Bounds DEF Peers
  <2> QED BY <1>1, <1>3, <1>4, <1>5, <2>1, <2>2, <2>3, <2>4 DEF LInv, ConnInv, HelperAt
<1>7. CASE Throw(i)
  <2>1. /\ chain' = [chain EXCEPT ![i] = "thrown"] /\ conn' = [conn EXCEPT ![i] = 0]
        /\ hpc' = hpc /\ cbs' = cbs
    BY <1>7 DEF Throw
  <2>2. /\ conn'[i] = 0
        /\ \A j \in Listens \ {i} : chain'[j] = chain[j] /\ conn'[j] = conn[j]
    BY <1>2, <2>1
  <2> QED BY <1>1, <1>3, <1>4, <2>1, <2>2 DEF LInv, ConnInv
<1> QED BY <1>3, <1>4, <1>6, <1>7 DEF CallBack

LEMMA InitConn ==
  ASSUME LInv, NEW i \in Listens, InitPort(i) \/ InitBind(i)
  PROVE  ConnInv' /\ conn[i] \in Peers /\ hpc[conn[i]] # "no"
<1>1. chain[i] \in {"user", "port"} /\ UNCHANGED <<away, waiting, stopped, cbs>>
  BY DEF InitPort, InitBind
<1>2. /\ chain \in [Listens -> Stages] /\ conn \in [Listens -> 0 .. MaxPeers]
      /\ hpc \in [Peers -> {"no", "new", "port", "done"}]
      /\ conn[i] # 0
  BY <1>1 DEF LInv, TInv, TypeOK
<1>3. conn[i] \in Peers
  BY <1>2, Bounds DEF Peers
<1>4. hpc[conn[i]] # "no" /\ conn[i] \notin away \cup waiting
  BY <1>1, <1>2, <1>3 DEF LInv, ConnInv, HelperAt
<1>5. \A j \in Listens \ {i} : conn[j] # 0 => conn[j] \in Peers \ {conn[i]}
  BY <1>2, Bounds DEF LInv, ConnInv, Peers
<1>6. away \subseteq Peers /\ waiting \subseteq Peers
  BY DEF LInv, TInv, TypeOK
<1>7. CASE InitPort(i)
  <2>1. /\ chain' = [chain EXCEPT ![i] = "port"] /\ hpc' = [hpc EXCEPT ![conn[i]] = "port"]
        /\ conn' = conn
    BY <1>7 DEF InitPort
  <2>2. /\ chain'[i] = "port" /\ \A j \in Listens \ {i} : chain'[j] = chain[j]
        /\ hpc'[conn[i]] = "port" /\ \A k \in Peers \ {conn[i]} : hpc'[k] = hpc[k]
    BY <1>2, <1>3, <2>1
  <2> QED BY <1>1, <1>3, <1>4, <1>5, <1>6, <2>1, <2>2 DEF LInv, ConnInv, HelperAt
<1>8. CASE InitBind(i)
  <2>1. /\ chain' = [chain EXCEPT ![i] = "after"] /\ hpc' = [hpc EXCEPT ![conn[i]] = "done"]
        /\ conn' = [conn EXCEPT ![i] = 0]
    BY <1>8 DEF InitBind
  <2>2. /\ conn'[i] = 0
        /\ \A j \in Listens \ {i} : chain'[j] = chain[j] /\ conn'[j] = conn[j]
        /\ hpc'[conn[i]] = "done" /\ \A k \in Peers \ {conn[i]} : hpc'[k] = hpc[k]
    BY <1>2, <1>3, <2>1
  <2> QED BY <1>1, <1>3, <1>4, <1>5, <1>6, <2>1, <2>2 DEF LInv, ConnInv
<1> QED BY <1>3, <1>4, <1>7, <1>8

LEMMA NextConnInv ==
  ASSUME LInv, [Next]_vars
  PROVE  ConnInv'
<1>0. /\ chain \in [Listens -> Stages] /\ conn \in [Listens -> 0 .. MaxPeers]
      /\ \A i \in Listens : chain[i] \in Handlers <=> conn[i] # 0
      /\ away \subseteq Peers /\ waiting \subseteq Peers
  BY DEF LInv, TInv, TypeOK, Handlers
<1>1. ASSUME NEW i \in Listens, ChainStep(i) PROVE ConnInv'
  <2>1. CASE AcceptError(i) \/ CheckQuit(i) \/ AcceptAgain(i)
    <3>1. /\ chain[i] \notin Handlers /\ \E s : chain' = [chain EXCEPT ![i] = s]
          /\ UNCHANGED <<conn, away, waiting, hpc, stopped, cbs>>
      BY <2>1 DEF AcceptError, CheckQuit, AcceptAgain, helperVars, Handlers
    <3>2. \A j \in Listens : conn[j] # 0 => chain'[j] = chain[j]
      BY <1>0, <3>1
    <3> QED BY <3>1, <3>2, ConnFrame
  <2> QED BY <1>1, <2>1, AcceptedConnInv, CallBackConnInv, InitConn DEF ChainStep
<1>2. ASSUME NEW k \in Peers, Arrive(k) PROVE ConnInv'
  <2>1. /\ away' = away \ {k} /\ waiting' = waiting \cup {k} /\ k \in away
        /\ UNCHANGED <<chain, conn, hpc, stopped, cbs>>
    BY <1>2 DEF Arrive, helperVars
  <2> QED BY <2>1 DEF LInv, ConnInv
<1>3. CASE StopClose
  <2>1. /\ chain' = [i \in Listens |-> IF chain[i] = "pending" THEN "aborted" ELSE chain[i]]
        /\ waiting' = {} /\ UNCHANGED <<conn, away, hpc, stopped, cbs>>
    BY <1>3 DEF StopClose, helperVars
  <2>2. \A j \in Listens : conn[j] # 0 => chain'[j] = chain[j]
    BY <1>0, <2>1 DEF Handlers
  <2> QED BY <2>1, <2>2 DEF LInv, ConnInv
<1>4. ASSUME NEW i \in Listens, AsyncAccept(i) PROVE ConnInv'
  <2>1. /\ chain[i] = "none" /\ (chain' = chain \/ chain' = [chain EXCEPT ![i] = "pending"])
        /\ UNCHANGED <<conn, away, waiting, hpc, stopped, cbs>>
    BY <1>4 DEF AsyncAccept, helperVars
  <2>2. \A j \in Listens : conn[j] # 0 => chain'[j] = chain[j]
    BY <1>0, <2>1 DEF Handlers
  <2> QED BY <2>1, <2>2, ConnFrame
<1>5. CASE BindAccept \/ Stop
  <2>1. UNCHANGED <<chain, conn, away, waiting, hpc, stopped, cbs>>
    BY <1>5 DEF BindAccept, Stop, chainVars, helperVars
  <2> QED BY <2>1, ConnFrame
<1>6. ASSUME NEW k \in Peers, SendMessage(k) \/ Report(k) PROVE ConnInv'
  <2>1. UNCHANGED <<chain, conn, away, waiting, hpc, stopped, cbs>>
    BY <1>6 DEF SendMessage, Report, chainVars, helperVars
  <2> QED BY <2>1, ConnFrame
<1>7. ASSUME NEW k \in Peers, Uninit(k) PROVE ConnInv'
  <2>1. /\ hpc[k] # "no" /\ stopped' = [stopped EXCEPT ![k] = TRUE]
        /\ cbs' = [cbs EXCEPT ![k] = FALSE]
        /\ UNCHANGED <<chain, conn, away, waiting, hpc>>
    BY <1>7 DEF Uninit, NoCallbacks, chainVars
  <2>2. stopped \in [Peers -> BOOLEAN] /\ cbs \in [Peers -> BOOLEAN]
    BY DEF LInv, TInv, TypeOK
  <2> QED BY <2>1, <2>2 DEF LInv, ConnInv
<1>8. CASE StrandStep \/ UNCHANGED vars
  <2>1. UNCHANGED <<chain, conn, away, waiting, hpc, stopped, cbs>>
    BY <1>8 DEF StrandStep, vars, chainVars, helperVars
  <2> QED BY <2>1, ConnFrame
<1> QED BY <1>1, <1>2, <1>3, <1>4, <1>5, <1>6, <1>7, <1>8 DEF Next

LEMMA ListenerInvariant ==
  Spec => []LInv
<1>1. Init => LInv
  BY InitTInv, InitConnInv DEF LInv
<1>2. LInv /\ [Next]_vars => LInv'
  BY NextTInv, NextConnInv DEF LInv
<1> QED BY <1>1, <1>2, PTL DEF Spec
-----------------------------------------------------------------------------
(* uninit and the callbacks.                                                *)

\* After uninit() the callback of that netport is called by no one any more, but
\* for the copy that was made before (listener_helper.hpp:32-48, 56-64).
THEOREM UninitSilences == Spec => QuietAfterUninit
<1>1. ASSUME LInv, LInv', [Next]_vars, NEW k \in Peers, stopped[k], ~Copied(k)
      PROVE  ~Copied(k)'
  <2>1. CASE StrandStep
    <3>1. Cur \in Peers
      BY <1>1, <2>1, StrandTInv DEF LInv
    <3>2. CASE CallbackCopy(cbs[Cur])
      <4>1. user_cb' = cbs[Cur] /\ queue' = queue
        BY <3>2 DEF CallbackCopy
      <4>2. ~cbs[k]
        BY <1>1 DEF LInv, ConnInv
      <4> QED BY <4>1, <4>2 DEF Copied, Cur
    <3>3. CASE CallbackCall
      BY <3>3 DEF CallbackCall, Copied
    <3>4. CASE RunAlone
      BY <3>4 DEF RunAlone, RunBind, RunUnbound, RunSend, RunClear, RunCallback, RunSilent, Runs, Copied
    <3> QED BY <2>1, <3>2, <3>3, <3>4 DEF StrandStep
  <2>2. ASSUME UNCHANGED <<queue, spc, user_cb>> PROVE ~Copied(k)'
    BY <1>1, <2>2 DEF Copied, Cur
  <2>3. ASSUME UNCHANGED <<spc, user_cb>>, NEW fo \in FosOf(Peers), Post(fo) PROVE ~Copied(k)'
    <3>1. queue \in Seq(FosOf(Peers)) /\ refused \subseteq FosOf(Peers)
          /\ (spc # "idle" => queue # <<>>)
      BY <1>1 DEF LInv, TInv, TypeOK, PortTypes, FosOf
    <3>2. queue # <<>> => Head(queue') = Head(queue)
      BY <2>3, <3>1, PostType
    <3> QED BY <1>1, <2>3, <3>1, <3>2 DEF Copied, Cur
  <2>4. CASE BindAccept \/ Stop \/ StopClose \/ UNCHANGED vars
    BY <2>2, <2>4 DEF BindAccept, Stop, StopClose, vars, netVars, postVars, strandVars
  <2>5. ASSUME NEW i \in Listens, AsyncAccept(i) PROVE ~Copied(k)'
    BY <2>2, <2>5 DEF AsyncAccept, netVars, postVars, strandVars
  <2>6. ASSUME NEW i \in Listens, ChainStep(i) PROVE ~Copied(k)'
    <3>1. CASE InitBind(i)
      <4>1. conn[i] \in Peers /\ Post(Fo("bind", conn[i])) /\ UNCHANGED <<spc, user_cb>>
        BY <1>1, <3>1, InitBindTInv DEF LInv, InitBind, acceptFrame, strandVars
      <4> QED BY <2>3, <4>1, FoType DEF FoFns
    <3>2. CASE ~InitBind(i)
      BY <2>2, <2>6, <3>2 DEF ChainStep, Accepted, AcceptError, CallBack, InitPort, CheckQuit, AcceptAgain,
                         acceptFrame, netVars, postVars, strandVars
    <3> QED BY <3>1, <3>2
  <2>7. ASSUME NEW p \in Peers, Arrive(p) PROVE ~Copied(k)'
    BY <2>2, <2>7 DEF Arrive, netVars, postVars, strandVars
  <2>8. ASSUME NEW p \in Peers, Uninit(p) \/ SendMessage(p) \/ Report(p) PROVE ~Copied(k)'
    <3>1. UNCHANGED <<spc, user_cb>>
      BY <2>8 DEF Uninit, SendMessage, Report, Event, strandVars
    <3>2. PICK fn \in FoFns : Post(Fo(fn, p)) \/ UNCHANGED postVars
      <4>1. CASE Uninit(p)
        BY <4>1 DEF Uninit, FoFns
      <4>2. CASE SendMessage(p)
        BY <4>2 DEF SendMessage, FoFns
      <4>3. CASE Report(p)
        BY <4>3 DEF Report, Event, FoFns
      <4> QED BY <2>8, <4>1, <4>2, <4>3
    <3>3. Fo(fn, p) \in FosOf(Peers)
      BY FoType
    <3> QED BY <2>2, <2>3, <3>1, <3>2, <3>3 DEF postVars
  <2> QED BY <1>1, <2>1, <2>4, <2>5, <2>6, <2>7, <2>8 DEF Next
<1>2. LInv /\ LInv' /\ [Next]_vars =>
        [\A k \in Peers : stopped[k] /\ ~Copied(k) => ~Copied(k)']_vars
  BY <1>1
<1> QED BY <1>2, ListenerInvariant, PTL DEF Spec, QuietAfterUninit
-----------------------------------------------------------------------------
(* bind_socket and the function objects that need it.                      *)

\* The netport has its sock_, or its bind waits, or was refused.
Binding(k) ==
  \/ k \in bound \/ Fo("bind", k) \in refused
  \/ \E n \in 1 .. Len(queue) : queue[n] = Fo("bind", k)

Born(k) == hpc[k] \in {"port", "done"}

QInv ==
  /\ \A n \in 1 .. Len(queue) : Born(queue[n].port)
  /\ \A k \in bound : Born(k)
  /\ \A k \in Peers : hpc[k] = "done" => Binding(k)
  /\ crashed => queue # <<>> /\ Cur \notin bound

\* A function object is posted for a netport that is there.
LEMMA PostQ ==
  ASSUME LInv, QInv, ~crashed, NEW fo \in FosOf(Peers), Post(fo), Born(fo.port)',
         \A k \in Peers : Born(k) => Born(k)',
         \A k \in Peers : hpc'[k] = "done" => hpc[k] = "done" \/ fo = Fo("bind", k),
         UNCHANGED <<bound, crashed>>
  PROVE  QInv'
<1>1. queue \in Seq(FosOf(Peers)) /\ Len(queue) \in Nat /\ bound \subseteq Peers
  <2>1. queue \in Seq(FosOf(Peers)) /\ bound \subseteq Peers
    BY DEF LInv, TInv, TypeOK, PortTypes, FosOf
  <2> QED BY <2>1, LenProperties
<1>2. \/ queue' = queue /\ refused' = refused \cup {fo}
      \/ /\ Len(queue') = Len(queue) + 1 /\ queue'[Len(queue) + 1] = fo /\ refused' = refused
         /\ \A n \in 1 .. Len(queue) : queue'[n] = queue[n]
  BY <1>1, AppendProperties DEF Post
<1>3. \A n \in 1 .. Len(queue) : queue[n].port \in Peers
  <2>1. \A n \in 1 .. Len(queue) : queue[n] \in FosOf(Peers)
    BY <1>1, ElementOfSeq
  <2> QED BY <2>1 DEF FosOf
<1>4. ASSUME NEW n \in 1 .. Len(queue') PROVE Born(queue[n].port)'
  <2>1. CASE n \in 1 .. Len(queue)
    <3>1. queue'[n] = queue[n] /\ Born(queue[n].port)
      BY <1>2, <2>1 DEF QInv
    <3>2. PICK k \in Peers : k = queue[n].port
      BY <1>3, <2>1
    <3>3. Born(k)'
      BY <3>1, <3>2
    <3> QED BY <3>1, <3>2, <3>3 DEF Born
  <2>2. CASE n \notin 1 .. Len(queue)
    <3>1. queue'[n] = fo
      BY <1>1, <1>2, <2>2
    <3> QED BY <3>1 DEF Born
  <2> QED BY <2>1, <2>2
<1>5. \A k \in bound' : Born(k)'
  BY <1>1 DEF QInv
<1>6. ASSUME NEW k \in Peers, hpc'[k] = "done" PROVE Binding(k)'
  <2>1. CASE hpc[k] = "done"
    <3>1. Binding(k)
      BY <2>1 DEF QInv
    <3>2. Len(queue) <= Len(queue') /\ \A n \in 1 .. Len(queue) : n \in 1 .. Len(queue') /\ queue'[n] = queue[n]
      BY <1>1, <1>2
    <3> QED BY <1>2, <3>1, <3>2 DEF Binding
  <2>2. CASE fo = Fo("bind", k)
    <3>1. CASE queue' = queue /\ refused' = refused \cup {fo}
      BY <2>2, <3>1 DEF Binding
    <3>2. CASE Len(queue') = Len(queue) + 1 /\ queue'[Len(queue) + 1] = fo
      <4>1. Len(queue) + 1 \in 1 .. Len(queue')
        BY <1>1, <3>2
      <4> QED BY <2>2, <3>2, <4>1 DEF Binding
    <3> QED BY <1>2, <3>1, <3>2
  <2> QED BY <1>6, <2>1, <2>2
<1> QED BY <1>4, <1>5, <1>6 DEF QInv

\* What leaves the queue and the netports that are bound.
LEMMA FrameQ ==
  ASSUME LInv, QInv, UNCHANGED <<queue, refused, bound, crashed>>,
         \A k \in Peers : Born(k) => Born(k)',
         \A k \in Peers : hpc'[k] = "done" => hpc[k] = "done"
  PROVE  QInv'
<1>1. queue \in Seq(FosOf(Peers)) /\ bound \subseteq Peers
  BY DEF LInv, TInv, TypeOK, PortTypes, FosOf
<1>2. \A n \in 1 .. Len(queue) : queue[n].port \in Peers
  <2>1. \A n \in 1 .. Len(queue) : queue[n] \in FosOf(Peers)
    BY <1>1, ElementOfSeq
  <2> QED BY <2>1 DEF FosOf
<1>3. ASSUME NEW n \in 1 .. Len(queue) PROVE Born(queue[n].port)'
  <2>1. PICK k \in Peers : k = queue[n].port
    BY <1>2
  <2>2. Born(k)'
    BY <2>1 DEF QInv
  <2> QED BY <2>1, <2>2 DEF Born
<1>4. \A k \in bound : Born(k)'
  BY <1>1 DEF QInv
<1>5. \A k \in Peers : hpc'[k] = "done" => Binding(k)'
  BY DEF QInv, Binding
<1> QED BY <1>3, <1>4, <1>5 DEF QInv, Cur

LEMMA Shorter == \A n \in Nat : n - 1 # n
  OBVIOUS

LEMMA StrandQ ==
  ASSUME LInv, QInv, StrandStep, ~crashed
  PROVE  QInv'
<1>1. /\ UNCHANGED <<hpc, refused>> /\ queue # <<>> /\ Cur \in Peers
      /\ queue \in Seq(FosOf(Peers)) /\ bound \subseteq Peers
  BY StrandTInv DEF LInv, TInv, TypeOK, PortTypes, FosOf, helperVars
<1>2. /\ Len(queue) \in Nat \ {0} /\ Head(queue) = queue[1]
      /\ Len(Tail(queue)) = Len(queue) - 1
      /\ \A i \in 1 .. Len(Tail(queue)) : Tail(queue)[i] = queue[i + 1]
  BY <1>1, EmptySeq, LenProperties, HeadTailProperties
<1>3. \/ queue' = queue /\ bound' = bound
      \/ queue' = Tail(queue) /\ bound' = bound /\ queue[1].fn # "bind"
      \/ queue' = Tail(queue) /\ bound' = bound \cup {queue[1].port} /\ queue[1].fn = "bind"
  <2>0. spc # "idle" => Head(queue).fn \in {"recv", "error"}
    BY DEF LInv, TInv, TypeOK, PortTypes
  <2>1. CASE RunBind
    BY <1>2, <2>1 DEF RunBind, Runs, Cur
  <2>2. CASE RunUnbound \/ RunSend \/ RunClear
    BY <1>2, <2>2 DEF RunUnbound, RunSend, RunClear, Runs, DoClear, portVars
  <2>3. CASE RunCallback \/ RunSilent
    BY <1>2, <2>3 DEF RunCallback, RunSilent, Runs, DoClear, portVars
  <2>4. CASE CallbackCopy(cbs[Cur]) \/ CallbackCall
    BY <1>2, <2>0, <2>4 DEF CallbackCopy, CallbackCall, DoClear, portVars
  <2> QED BY <2>1, <2>2, <2>3, <2>4 DEF StrandStep, RunAlone
<1>4. crashed' => queue' = queue /\ bound' = bound /\ Cur \notin bound
  BY DEF StrandStep, RunAlone, RunBind, RunUnbound, RunSend, RunClear, RunCallback, RunSilent,
         CallbackCopy, CallbackCall, DoClear, portVars
<1>5. CASE queue' = queue /\ bound' = bound
  BY <1>1, <1>4, <1>5 DEF QInv, Born, Binding, Cur
<1>6. CASE queue' = Tail(queue)
  <2>0. ~crashed'
    <3>1. Len(queue') # Len(queue)
      BY <1>2, <1>6, Shorter
    <3>2. queue' # queue
      BY <3>1
    <3> QED BY <1>4, <3>2
  <2>1. \A n \in 1 .. Len(queue') : n + 1 \in 1 .. Len(queue) /\ queue'[n] = queue[n + 1]
    BY <1>2, <1>6
  <2>2. (\A n \in 1 .. Len(queue) : Born(queue[n].port))'
    BY <1>1, <2>1 DEF QInv, Born
  <2>3. \A k \in bound' : Born(k)'
    <3>1. 1 \in 1 .. Len(queue)
      BY <1>2
    <3> QED BY <1>1, <1>3, <3>1 DEF QInv, Born
  <2>4. ASSUME NEW k \in Peers, hpc'[k] = "done" PROVE Binding(k)'
    <3>1. Binding(k)
      BY <1>1, <2>4 DEF QInv
    <3>2. CASE k \in bound \/ Fo("bind", k) \in refused
      BY <1>1, <1>3, <3>2 DEF Binding
    <3>3. CASE \E n \in 1 .. Len(queue) : queue[n] = Fo("bind", k)
      <4>1. PICK n \in 1 .. Len(queue) : queue[n] = Fo("bind", k)
        BY <3>3
      <4>2. CASE n = 1
        <5>1. queue[1].fn = "bind" /\ queue[1].port = k
          BY <4>1, <4>2 DEF Fo
        <5>2. queue' # queue
          <6>1. Len(queue') # Len(queue)
            BY <1>2, <1>6, Shorter
          <6> QED BY <6>1
        <5>3. k \in bound'
          BY <1>3, <5>1, <5>2
        <5> QED BY <5>3 DEF Binding
      <4>3. CASE n # 1
        <5>1. n - 1 \in 1 .. Len(queue') /\ queue'[n - 1] = queue[n]
          BY <1>2, <1>6, <4>1, <4>3
        <5> QED BY <4>1, <5>1 DEF Binding
      <4> QED BY <4>2, <4>3
    <3> QED BY <3>1, <3>2, <3>3 DEF Binding
  <2> QED BY <2>0, <2>2, <2>3, <2>4 DEF QInv
<1> QED BY <1>3, <1>5, <1>6

LEMMA InitQ ==
  Init => QInv
<1> SUFFICES ASSUME Init PROVE QInv
  OBVIOUS
<1>1. queue = <<>> /\ bound = {} /\ ~crashed /\ \A k \in Peers : hpc[k] = "no"
  BY DEF Init, PortInit
<1>2. 1 .. Len(queue) = {}
  BY <1>1
<1> QED BY <1>1, <1>2 DEF QInv

LEMMA ChainQ ==
  ASSUME LInv, QInv, ~crashed, NEW i \in Listens, ChainStep(i)
  PROVE  QInv'
<1>0. hpc \in [Peers -> {"no", "new", "port", "done"}]
  BY DEF LInv, TInv, TypeOK
<1>1. CASE (\E k \in Peers : Accepted(i, k)) \/ AcceptError(i) \/ CheckQuit(i) \/ AcceptAgain(i)
  <2>1. UNCHANGED <<hpc, queue, refused, bound, crashed>>
    BY <1>1 DEF Accepted, AcceptError, CheckQuit, AcceptAgain, acceptFrame, helperVars, netVars,
                portVars, postVars
  <2> QED BY <2>1, FrameQ DEF Born
<1>2. CASE CallBack(i)
  <2>1. UNCHANGED <<queue, refused, bound, crashed>>
        /\ (hpc' = hpc \/ hpc' = [hpc EXCEPT ![conn[i]] = "new"])
    BY <1>2 DEF CallBack, HandOver, Throw, acceptFrame, portVars, postVars
  <2>2. conn[i] \in Peers /\ hpc[conn[i]] = "no"
    BY <1>2, CallBackConnInv
  <2>3. \A k \in Peers : hpc'[k] = hpc[k] \/ (hpc[k] = "no" /\ hpc'[k] = "new")
    BY <1>0, <2>1, <2>2
  <2> QED BY <2>1, <2>3, FrameQ DEF Born
<1>3. CASE InitPort(i)
  <2>1. UNCHANGED <<queue, refused, bound, crashed>> /\ hpc' = [hpc EXCEPT ![conn[i]] = "port"]
        /\ chain[i] = "user"
    BY <1>3 DEF InitPort, postVars
  <2>2. conn[i] \in Peers
    BY <1>3, InitConn
  <2>3. \A k \in Peers : hpc'[k] = hpc[k] \/ hpc'[k] = "port"
    BY <1>0, <2>1, <2>2
  <2> QED BY <2>1, <2>3, FrameQ DEF Born
<1>4. CASE InitBind(i)
  <2>1. UNCHANGED <<bound, crashed>> /\ hpc' = [hpc EXCEPT ![conn[i]] = "done"]
        /\ Post(Fo("bind", conn[i]))
    BY <1>4 DEF InitBind, acceptFrame, portVars
  <2>2. conn[i] \in Peers
    BY <1>4, InitConn
  <2>3. \A k \in Peers : hpc'[k] = hpc[k] \/ (k = conn[i] /\ hpc'[k] = "done")
    BY <1>0, <2>1, <2>2
  <2>4. PICK c \in Peers : c = conn[i]
    BY <2>2
  <2>5. PICK fo \in FosOf(Peers) : fo = Fo("bind", c) /\ fo.port = c
    BY FoType DEF FoFns
  <2>6. hpc'[c] = "done"
    BY <1>0, <2>1, <2>4
  <2>7. Born(fo.port)'
    BY <2>5, <2>6 DEF Born
  <2>8. Post(fo) /\ \A k \in Peers : hpc'[k] = "done" => hpc[k] = "done" \/ fo = Fo("bind", k)
    BY <2>1, <2>3, <2>4, <2>5
  <2>9. \A k \in Peers : Born(k) => Born(k)'
    BY <2>3 DEF Born
  <2> QED BY <2>1, <2>7, <2>8, <2>9, PostQ
<1> QED BY <1>1, <1>2, <1>3, <1>4 DEF ChainStep

LEMMA CallQ ==
  ASSUME LInv, QInv, ~crashed, NEW k \in Peers, Uninit(k) \/ SendMessage(k) \/ Report(k)
  PROVE  QInv'
<1>1. UNCHANGED <<hpc, bound, crashed>>
  BY DEF Uninit, SendMessage, Report, Event, helperVars, portVars
<1>2. CASE UNCHANGED postVars
  <2>1. UNCHANGED <<queue, refused>>
    BY <1>2 DEF postVars
  <2> QED BY <1>1, <2>1, FrameQ DEF Born
<1>3. ASSUME ~UNCHANGED postVars PROVE QInv'
  <2>1. Born(k)
    <3>1. k \in bound => Born(k)
      BY DEF QInv
    <3> QED BY <1>3, <3>1 DEF Uninit, SendMessage, Report, Event, HasPort, Born
  <2>2. PICK fn \in FoFns : Post(Fo(fn, k))
    BY <1>3 DEF Uninit, SendMessage, Report, Event, FoFns
  <2>3. PICK fo \in FosOf(Peers) : Post(fo) /\ fo.port = k
    BY <2>2, FoType
  <2>4. Born(fo.port)'
    BY <1>1, <2>1, <2>3 DEF Born
  <2> QED BY <1>1, <2>3, <2>4, PostQ DEF Born
<1> QED BY <1>2, <1>3

LEMMA NextQ ==
  ASSUME LInv, QInv, [Next]_vars
  PROVE  QInv'
<1>1. CASE UNCHANGED vars
  <2>1. UNCHANGED <<hpc, queue, refused, bound, crashed>>
    BY <1>1 DEF vars, helperVars, netVars, portVars, postVars
  <2> QED BY <2>1, FrameQ DEF Born
<1>2. CASE Next
  <2>1. ~crashed
    BY <1>2 DEF Next, Dead
  <2>2. ASSUME UNCHANGED <<helperVars, netVars>> PROVE QInv'
    <3>1. UNCHANGED <<hpc, queue, refused, bound, crashed>>
      BY <2>2 DEF helperVars, netVars, portVars, postVars
    <3> QED BY <3>1, FrameQ DEF Born
  <2>3. CASE BindAccept \/ Stop \/ StopClose
    BY <2>2, <2>3 DEF BindAccept, Stop, StopClose
  <2>4. ASSUME NEW i \in Listens, AsyncAccept(i) PROVE QInv'
    BY <2>2, <2>4 DEF AsyncAccept
  <2>5. ASSUME NEW k \in Peers, Arrive(k) PROVE QInv'
    BY <2>2, <2>5 DEF Arrive
  <2> QED BY <1>2, <2>1, <2>3, <2>4, <2>5, ChainQ, CallQ, StrandQ DEF Next
<1> QED BY <1>1, <1>2

\* send_message and uninit use a netport only when it is there, so the strand meets
\* it without its socket only while its bind is to come, or was refused
\* (listener_helper.hpp:28, 51, 62, 79; netport.cpp:138-146).
THEOREM BindPrecedes == Spec => []BindsFirst
<1>1. Init => LInv /\ QInv
  BY InitTInv, InitConnInv, InitQ DEF LInv
<1>2. LInv /\ QInv /\ [Next]_vars => (LInv /\ QInv)'
  BY NextTInv, NextConnInv, NextQ DEF LInv
<1>3. LInv /\ QInv => BindsFirst
  <2> SUFFICES ASSUME LInv, QInv, crashed PROVE BindsFirst
    BY DEF BindsFirst
  <2>1. queue \in Seq(FosOf(Peers)) /\ queue # <<>> /\ Cur \notin bound
    BY DEF LInv, TInv, TypeOK, PortTypes, FosOf, QInv
  <2>2. Len(queue) \in Nat \ {0} /\ Head(queue) = queue[1] /\ DOMAIN queue = 1 .. Len(queue)
    BY <2>1, EmptySeq, LenProperties, HeadTailProperties
  <2>3. Cur \in Peers /\ Born(Cur)
    <3>1. 1 \in 1 .. Len(queue) /\ queue[1] \in FosOf(Peers)
      BY <2>1, <2>2, ElementOfSeq
    <3> QED BY <2>2, <3>1 DEF Cur, QInv, FosOf
  <2> QED BY <2>1, <2>2, <2>3 DEF BindsFirst, QInv, Binding, Born
<1> QED BY <1>1, <1>2, <1>3, PTL DEF Spec
=============================================================================
