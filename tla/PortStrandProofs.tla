-------------------------- MODULE PortStrandProofs --------------------------
(***************************************************************************)
(* What the theorems about the helpers share: the steps of PortStrand keep *)
(* the types of the netports and of their strand.                          *)
(***************************************************************************)
EXTENDS PortStrand, TLAPS, SequenceTheorems

\* What is posted to the strand of those netports.
FosOf(ports) == [fn : FoFns, port : ports]

LEMMA FoType ==
  ASSUME NEW ports, NEW k \in ports
  PROVE  \A fn \in FoFns : /\ Fo(fn, k) \in FosOf(ports)
                           /\ Fo(fn, k).fn = fn /\ Fo(fn, k).port = k
BY DEF Fo, FosOf

\* What is posted is a function object, and the queue keeps its head.
LEMMA PostType ==
  ASSUME NEW S, queue \in Seq(S), refused \subseteq S, NEW fo \in S, Post(fo)
  PROVE  /\ queue' \in Seq(S) /\ refused' \subseteq S
         /\ queue # <<>> => queue' # <<>> /\ Head(queue') = Head(queue)
<1>1. CASE queue' = Append(queue, fo)
  <2>1. /\ queue' \in Seq(S) /\ Len(queue') = Len(queue) + 1
        /\ \A i \in 1 .. Len(queue) : queue'[i] = queue[i]
    BY <1>1, AppendProperties
  <2>2. ASSUME queue # <<>> PROVE queue' # <<>> /\ Head(queue') = Head(queue)
    <3>1. Len(queue) \in Nat /\ Len(queue) # 0
      BY <2>2, EmptySeq, LenProperties
    <3>2. queue' # <<>> /\ queue'[1] = queue[1]
      BY <2>1, <3>1
    <3> QED BY <2>1, <2>2, <3>2
  <2> QED BY <1>1, <2>1, <2>2 DEF Post
<1>2. CASE queue' = queue
  BY <1>2 DEF Post
<1> QED BY <1>1, <1>2 DEF Post

\* What the strand takes leaves function objects.
LEMMA TailType ==
  ASSUME NEW ports, queue \in Seq(FosOf(ports)), queue # <<>>
  PROVE  /\ Tail(queue) \in Seq(FosOf(ports)) /\ Head(queue) \in FosOf(ports)
         /\ Head(queue).port \in ports
<1>1. Tail(queue) \in Seq(FosOf(ports)) /\ Head(queue) \in FosOf(ports)
  BY HeadTailProperties
<1> QED BY <1>1 DEF FosOf

\* A call or a report of a socket that posts a function object, or does not.
LEMMA PortPost ==
  ASSUME NEW ports, PortTypes(ports), NEW fo \in FosOf(ports), Post(fo) \/ UNCHANGED postVars,
         UNCHANGED <<sock, portVars, strandVars, crashed>>, events' \in 0 .. MaxEvents
  PROVE  PortTypes(ports)'
<1>1. /\ queue' \in Seq(FosOf(ports)) /\ refused' \subseteq FosOf(ports)
      /\ queue # <<>> => queue' # <<>> /\ Head(queue') = Head(queue)
  <2>1. queue \in Seq(FosOf(ports)) /\ refused \subseteq FosOf(ports)
    BY DEF PortTypes, FosOf
  <2>2. CASE Post(fo)
    BY <2>1, <2>2, PostType
  <2>3. CASE UNCHANGED postVars
    BY <2>1, <2>3 DEF postVars
  <2> QED BY <2>2, <2>3
<1>2. UNCHANGED <<sock, port_cb, bound, spc, user_cb, crashed>>
  BY DEF portVars, strandVars
<1> QED BY <1>1, <1>2 DEF PortTypes, FosOf

\* What the strand runs, with the helper's part of it.
PortRuns == RunAlone \/ CallbackCopy(user_cb') \/ CallbackCall

LEMMA PortRun ==
  ASSUME NEW ports, PortTypes(ports), PortRuns, user_cb' \in BOOLEAN, UNCHANGED <<refused, events>>
  PROVE  /\ PortTypes(ports)'
         /\ queue # <<>> /\ Cur \in ports /\ Head(queue) \in FosOf(ports)
         /\ queue' \in {queue, Tail(queue)}
<1> USE DEF PortRuns, RunAlone, RunBind, RunUnbound, RunSend, RunClear, RunCallback, RunSilent,
            CallbackCopy, CallbackCall, DoClear
<1>1. queue # <<>>
  BY DEF Runs, PortTypes
<1>2. Tail(queue) \in Seq(FosOf(ports)) /\ Cur \in ports /\ Head(queue) \in FosOf(ports)
  BY <1>1, TailType DEF PortTypes, FosOf, Cur
<1>3. queue' \in {queue, Tail(queue)} /\ crashed' \in BOOLEAN /\ bound' \subseteq ports
  BY <1>2 DEF PortTypes, portVars
<1>4. sock' \in [ports -> {"none", "open", "closed"}] /\ port_cb' \in [ports -> BOOLEAN]
  BY <1>2 DEF CloseSocket, NoPortCallbacks, PortTypes, portVars
<1>5. /\ spc' \in {"idle", "copy", "call"}
      /\ spc' # "idle" => queue' = queue /\ Head(queue).fn \in {"recv", "error"}
  BY DEF Runs, PortTypes
<1>6. queue' \in Seq(FosOf(ports))
  BY <1>2, <1>3 DEF PortTypes, FosOf
<1>7. spc' # "idle" => queue' # <<>> /\ Head(queue').fn \in {"recv", "error"}
  BY <1>1, <1>5
<1>8. PortTypes(ports)'
  BY <1>3, <1>4, <1>5, <1>6, <1>7 DEF PortTypes, FosOf
<1> QED BY <1>1, <1>2, <1>3, <1>8
=============================================================================
