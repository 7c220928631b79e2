--------------------------- MODULE TcpServerProofs ---------------------------
(***************************************************************************)
(* The safety of TcpServer for any number of loops, clients, descriptors   *)
(* and failing accepts.                                                    *)
(***************************************************************************)
EXTENDS TcpServer, FiniteSetTheorems, TLAPS

LEMMA Names ==
    /\ Clients \subseteq Objs /\ Failed \subseteq Objs
    /\ \A o \in Objs : o \in Clients <=> o \notin Failed
    /\ None \notin Objs /\ None \notin Clients
    /\ NoLoop \notin Loops
    /\ BadFd \in Keys /\ BadFd \notin Fds /\ Fds \subseteq Keys /\ NoFd \notin Keys
BY NumThreadsAssumption, FdsAssumption, ObjsAssumption, NoneAssumption
DEF Objs, NoLoop, BaseLoop, Loops, BadFd, Keys, NoFd

------------------------------------------------------------------------------
(* The inductive invariant.                                                *)

Created(o) == loopOf[o] # NoLoop

(* An object has a loop, and its descriptor, from when its client is       *)
(* accepted.                                                               *)
CreatedInv ==
    /\ \A c \in Clients : /\ Created(c) <=> phase[c] = "accepted"
                          /\ Created(c) => fd[c] \in Fds
    /\ \A o \in Failed : Created(o) => fd[o] = BadFd

InboxInv == \A c \in Clients : sock[c].inbox <= sock[c].sent

ConnInv ==
    /\ conn # None <=> base \in {"queue", "release"}
    /\ conn # None => Created(conn)

MapInv ==
    \A f \in Keys : ConnectionMap[f] # None =>
        Created(ConnectionMap[f]) /\ fd[ConnectionMap[f]] = f

CurInv ==
    \A l \in Loops :
        /\ cur[l] # None <=> pc[l] \in {"reading", "message", "remove", "destroy"}
        /\ cur[l] # None => Created(cur[l]) /\ loopOf[cur[l]] = l

(* A descriptor belongs to one existing object at a time.                  *)
FdsInv == \A c, d \in Clients \cap Held : fd[c] = fd[d] => c = d

InTasks(o, l) ==
    \/ \E i \in DOMAIN pending[l] : pending[l][i] = o
    \/ \E i \in DOMAIN batch[l] : batch[l][i] = o

(* connectEstablished is queued once, in the loop of its connection.       *)
QueueInv(l) ==
    /\ \A i \in DOMAIN pending[l] : loopOf[pending[l][i]] = l
    /\ \A i \in DOMAIN batch[l] : loopOf[batch[l][i]] = l
    /\ \A i, j \in DOMAIN pending[l] : pending[l][i] = pending[l][j] => i = j
    /\ \A i, j \in DOMAIN batch[l] : batch[l][i] = batch[l][j] => i = j
    /\ \A i \in DOMAIN pending[l], j \in DOMAIN batch[l] : pending[l][i] # batch[l][j]
    /\ base = "queue" => ~InTasks(conn, l)
    /\ pc[l] # "functors" => batch[l] = <<>>

QueuesInv == \A l \in Loops : QueueInv(l)

Queued(o) == (base = "queue" /\ conn = o) \/ \E l \in Loops : InTasks(o, l)

(* Until it is established a connection is in the map and nowhere else.    *)
QueuedInv ==
    \A c \in Clients : Queued(c) =>
        /\ ConnectionMap[fd[c]] = c
        /\ \A l \in Loops : c \notin interest[l] /\ c # cur[l]

WatchedInv ==
    \A l \in Loops : \A c \in interest[l] :
        /\ loopOf[c] = l
        /\ ChannelMap[l][fd[c]] = c
        /\ ConnectionMap[fd[c]] = c \/ (pc[l] = "destroy" /\ cur[l] = c)

(* The events of a pass are those of watched sockets, one of each, and not *)
(* of the one being handled.                                               *)
ActiveInv ==
    \A l \in Loops :
        /\ \A a \in active[l] : a[1] \in interest[l] /\ a[1] # cur[l]
        /\ \A a, b \in active[l] : a[1] = b[1] => a = b

Inv ==
    /\ TypeOK /\ CreatedInv /\ InboxInv /\ ConnInv /\ MapInv /\ CurInv
    /\ FdsInv /\ QueuesInv /\ QueuedInv /\ WatchedInv /\ ActiveInv

LEMMA InvInit == Init => Inv
<1> SUFFICES ASSUME Init PROVE Inv
  OBVIOUS
<1> USE DEF Init
<1>0. ListenTypeOK
  BY DEF ListenTypeOK
<1>1. MainTypeOK
  BY NumThreadsAssumption DEF MainTypeOK
<1>2. ObjTypeOK /\ EpollTypeOK
  BY Names DEF ObjTypeOK, EpollTypeOK
<1>3. TaskTypeOK /\ LoopTypeOK
  BY DEF TaskTypeOK, LoopTypeOK
<1>4. ClientTypeOK
  BY SendsAssumption DEF ClientTypeOK, Sockets
<1>5. CreatedInv /\ InboxInv /\ ConnInv /\ MapInv /\ CurInv
  BY Names DEF CreatedInv, InboxInv, ConnInv, MapInv, CurInv, Created
<1>6. FdsInv
  BY DEF FdsInv, Held, ElementsOf
<1>7. QueuesInv /\ QueuedInv
  BY DEF QueuesInv, QueueInv, QueuedInv, Queued, InTasks
<1>8. WatchedInv /\ ActiveInv
  BY DEF WatchedInv, ActiveInv
<1> QED
  BY <1>0, <1>1, <1>2, <1>3, <1>4, <1>5, <1>6, <1>7, <1>8 DEF Inv, TypeOK

------------------------------------------------------------------------------
(* Which steps change what.                                                *)

LEMMA MainFrame ==
    [Next]_vars => \/ UNCHANGED <<base, listenVars, next_, conn>>
                   \/ MainThread
                   \/ UNCHANGED <<base, address, poolSize, next_, conn>> /\ acceptable' = TRUE
BY DEF Next, Peer, LoopThread, vars, mainVars, connVars, listenVars,
   Connect, Send, Shutdown, Reset, EpollWait, HandleError, HandleEvent, ReadMessage,
   ReadError, ReadEnd, ReadAll, ReadFreed, OnMessage, RemoveConnection, DestroyConnection,
   SwapFunctors, RunFunctor, FunctorsDone

LEMMA MapFrame ==
    [Next]_vars => \/ UNCHANGED <<loopOf, fd, ConnectionMap>>
                   \/ \E c \in Clients : Accept(c)
                   \/ \E o \in Failed : AcceptFails(o)
                   \/ UNCHANGED <<loopOf, fd>> /\ \E l \in Loops : RemoveConnection(l)
BY DEF Next, Peer, MainThread, LoopThread, vars, OthersUnchanged, mainVars, connVars,
   ConstructForPort, ConstructForAddress, Listen, StartLoop, EnterLoop, AcceptorReadable,
   RunInLoop, Release, Connect, Send, Shutdown, Reset, EpollWait, HandleError, HandleEvent,
   ReadMessage, ReadError, ReadEnd, ReadAll, ReadFreed, OnMessage, RemoveConnection,
   DestroyConnection, SwapFunctors, RunFunctor, FunctorsDone

LEMMA TasksFrame ==
    [Next]_vars => \/ UNCHANGED tasks
                   \/ RunInLoop
                   \/ \E l \in Loops : SwapFunctors(l) \/ RunFunctor(l)
BY DEF Next, Peer, MainThread, LoopThread, vars, OthersUnchanged, NewConnection,
   ConstructForPort, ConstructForAddress, Listen, StartLoop, EnterLoop, AcceptorReadable,
   Accept, AcceptFails, Release, Connect, Send, Shutdown, Reset, EpollWait, HandleError,
   HandleEvent, ReadMessage, ReadError, ReadEnd, ReadAll, ReadFreed, OnMessage,
   RemoveConnection, DestroyConnection, FunctorsDone

LEMMA LoopFrame ==
    [Next]_vars => \/ UNCHANGED <<pc, cur>>
                   \/ \E l \in Loops :
                         \/ EpollWait(l) \/ HandleEvent(l) \/ ReadMessage(l)
                         \/ ReadEnd(l) \/ ReadAll(l) \/ OnMessage(l)
                         \/ RemoveConnection(l) \/ DestroyConnection(l)
                         \/ SwapFunctors(l) \/ FunctorsDone(l)
BY DEF Next, Peer, MainThread, LoopThread, vars, OthersUnchanged, NewConnection, loopVars,
   ConstructForPort, ConstructForAddress, Listen, StartLoop, EnterLoop, AcceptorReadable,
   Accept, AcceptFails, RunInLoop, Release, Connect, Send, Shutdown, Reset, HandleError,
   ReadError, ReadFreed, RunFunctor

LEMMA ActiveFrame ==
    [Next]_vars => \/ UNCHANGED active
                   \/ \E l \in Loops : EpollWait(l) \/ HandleError(l) \/ HandleEvent(l)
BY DEF Next, Peer, MainThread, LoopThread, vars, OthersUnchanged, NewConnection, loopVars,
   ConstructForPort, ConstructForAddress, Listen, StartLoop, EnterLoop, AcceptorReadable,
   Accept, AcceptFails, RunInLoop, Release, Connect, Send, Shutdown, Reset, ReadMessage,
   ReadError, ReadEnd, ReadAll, ReadFreed, OnMessage, RemoveConnection, DestroyConnection,
   SwapFunctors, RunFunctor, FunctorsDone

LEMMA EpollFrame ==
    [Next]_vars => \/ UNCHANGED <<ChannelMap, interest>>
                   \/ RunInLoop
                   \/ \E l \in Loops : DestroyConnection(l) \/ RunFunctor(l)
BY DEF Next, Peer, MainThread, LoopThread, vars, OthersUnchanged, NewConnection, epollVars,
   ConstructForPort, ConstructForAddress, Listen, StartLoop, EnterLoop, AcceptorReadable,
   Accept, AcceptFails, Release, Connect, Send, Shutdown, Reset, EpollWait, HandleError,
   HandleEvent, ReadMessage, ReadError, ReadEnd, ReadAll, ReadFreed, OnMessage,
   RemoveConnection, SwapFunctors, FunctorsDone

LEMMA ReadyFrame ==
    [Next]_vars => \/ ready' \subseteq ready
                   \/ \E c \in Clients : ready' \subseteq ready \cup {c}
                   \/ RunInLoop
                   \/ \E l \in Loops : RunFunctor(l)
BY DEF Next, Peer, MainThread, LoopThread, vars, OthersUnchanged, NewConnection, epollVars,
   ConstructForPort, ConstructForAddress, Listen, StartLoop, EnterLoop, AcceptorReadable,
   Accept, AcceptFails, Release, Connect, Send, Shutdown, Reset, Edge, EpollWait, HandleError,
   HandleEvent, ReadMessage, ReadError, ReadEnd, ReadAll, ReadFreed, OnMessage,
   RemoveConnection, SwapFunctors, FunctorsDone, DestroyConnection, ConnectDestroyed, EpollDel

LEMMA PhaseFrame ==
    [Next]_vars => \/ UNCHANGED phase
                   \/ \E c \in Clients : Connect(c) \/ Accept(c)
BY DEF Next, Peer, MainThread, LoopThread, vars, OthersUnchanged, NewConnection, clientVars,
   ConstructForPort, ConstructForAddress, Listen, StartLoop, EnterLoop, AcceptorReadable,
   AcceptFails, RunInLoop, Release, Send, Shutdown, Reset, EpollWait, HandleError,
   HandleEvent, ReadMessage, ReadError, ReadEnd, ReadAll, ReadFreed, OnMessage,
   RemoveConnection, DestroyConnection, SwapFunctors, RunFunctor, FunctorsDone

LEMMA SockFrame ==
    [Next]_vars => \/ UNCHANGED sock
                   \/ \E c \in Clients : Send(c) \/ Shutdown(c) \/ Reset(c)
                   \/ \E l \in Loops : HandleError(l) \/ ReadMessage(l) \/ ReadError(l)
                                         \/ OnMessage(l)
BY DEF Next, Peer, MainThread, LoopThread, vars, OthersUnchanged, NewConnection, clientVars,
   ConstructForPort, ConstructForAddress, Listen, StartLoop, EnterLoop, AcceptorReadable,
   Accept, AcceptFails, RunInLoop, Release, Connect, EpollWait, HandleEvent, ReadEnd,
   ReadAll, ReadFreed, RemoveConnection, DestroyConnection, SwapFunctors, RunFunctor,
   FunctorsDone

LEMMA ProcessFrame ==
    [Next]_vars => process' \in {process, "SIGSEGV", "SIGPIPE"}
BY DEF Next, Peer, MainThread, LoopThread, vars, OthersUnchanged, NewConnection,
   ConstructConnection, ConstructForPort, ConstructForAddress, Listen, StartLoop,
   EnterLoop, AcceptorReadable, Accept, AcceptFails, RunInLoop, Release, Connect, Send,
   Shutdown, Reset, EpollWait, HandleError, HandleEvent, ReadMessage, ReadError, ReadEnd,
   ReadAll, ReadFreed, OnMessage, RemoveConnection, DestroyConnection, SwapFunctors,
   RunFunctor, FunctorsDone

------------------------------------------------------------------------------
(* Who holds what.                                                         *)

LEMMA HeldBy ==
    \A o : o \in Held <=>
        /\ o # None
        /\ \/ o = conn
           \/ \E f \in Keys : ConnectionMap[f] = o
           \/ \E l \in Loops : \/ InTasks(o, l)
                               \/ pc[l] \in {"message", "remove", "destroy"} /\ cur[l] = o
BY DEF Held, ElementsOf, InTasks

LEMMA HeldAreCreated ==
    ASSUME Inv
    PROVE \A o \in Held : o \in Objs /\ Created(o) /\ fd[o] \in Keys
                            /\ (o \in Clients <=> fd[o] # BadFd)
<1> SUFFICES ASSUME NEW o \in Held PROVE o \in Objs /\ Created(o)
  BY Names DEF Inv, CreatedInv
<1>1. o # None
  BY HeldBy
<1>2. CASE o = conn
  BY <1>1, <1>2 DEF Inv, TypeOK, ObjTypeOK, ConnInv
<1>3. CASE \E f \in Keys : ConnectionMap[f] = o
  BY <1>1, <1>3 DEF Inv, TypeOK, ObjTypeOK, MapInv
<1>4. CASE \E l \in Loops : InTasks(o, l)
  <2>1. PICK l \in Loops : InTasks(o, l)
    BY <1>4
  <2>2. pending[l] \in Seq(Objs) /\ batch[l] \in Seq(Objs)
    BY DEF Inv, TypeOK, TaskTypeOK
  <2>3. o \in Objs
    BY <2>1, <2>2 DEF InTasks
  <2>4. loopOf[o] = l
    BY <2>1 DEF InTasks, Inv, QueuesInv, QueueInv
  <2> QED
    BY <2>3, <2>4, Names DEF Created
<1>5. CASE \E l \in Loops : cur[l] = o
  BY <1>1, <1>5, Names DEF Inv, TypeOK, LoopTypeOK, CurInv
<1> QED
  BY <1>1, <1>2, <1>3, <1>4, <1>5, HeldBy

(* A watched connection is held, and so is a queued one.                   *)
LEMMA WatchedAreHeld ==
    ASSUME Inv
    PROVE /\ \A l \in Loops : \A c \in interest[l] : c \in Held \cap Clients
          /\ \A o \in Objs : Queued(o) => o \in Held
          /\ \A c, d \in Clients \cap Held : fd[c] = fd[d] => c = d
<1>1. ASSUME NEW l \in Loops, NEW c \in interest[l] PROVE c \in Held \cap Clients
  <2>1. c \in Clients /\ c # None
    BY <1>1, Names DEF Inv, TypeOK, EpollTypeOK
  <2>2. CASE ConnectionMap[fd[c]] = c
    <3>1. Created(c)
      BY <1>1, <2>1, Names DEF Inv, WatchedInv, Created
    <3>2. fd[c] \in Keys
      BY <2>1, <3>1, Names DEF Inv, CreatedInv
    <3> QED
      BY <2>1, <2>2, <3>2, HeldBy
  <2>3. CASE pc[l] = "destroy" /\ cur[l] = c
    BY <1>1, <2>1, <2>3, HeldBy
  <2> QED
    BY <1>1, <2>2, <2>3 DEF Inv, WatchedInv
<1>2. ASSUME NEW o \in Objs, Queued(o) PROVE o \in Held
  BY <1>2, HeldBy, Names DEF Queued
<1> QED
  BY <1>1, <1>2 DEF Inv, FdsInv

LEMMA ConnHeld ==
    ASSUME Inv, RunInLoop
    PROVE conn \in Held /\ conn \in Objs /\ loopOf[conn] \in Loops
<1>1. conn # None
  BY DEF RunInLoop, MainAt, Inv, ConnInv
<1>2. conn \in Objs
  BY <1>1 DEF Inv, TypeOK, ObjTypeOK
<1> QED
  BY <1>1, <1>2, HeldBy DEF Inv, TypeOK, ObjTypeOK, ConnInv, Created

LEMMA HeadHeld ==
    ASSUME Inv, NEW l \in Loops, RunFunctor(l)
    PROVE /\ Head(batch[l]) \in Held /\ Head(batch[l]) \in Objs
          /\ loopOf[Head(batch[l])] = l
          /\ InTasks(Head(batch[l]), l)
<1>1. batch[l] \in Seq(Objs) /\ batch[l] # <<>>
  BY DEF RunFunctor, Inv, TypeOK, TaskTypeOK
<1>2. 1 \in DOMAIN batch[l] /\ Head(batch[l]) = batch[l][1] /\ Head(batch[l]) \in Objs
  BY <1>1
<1>3. loopOf[Head(batch[l])] = l
  BY <1>2 DEF Inv, QueuesInv, QueueInv
<1>4. InTasks(Head(batch[l]), l)
  BY <1>2 DEF InTasks
<1> QED
  BY <1>2, <1>3, <1>4, HeldBy, Names

(* The step of the main thread that makes an object.                       *)
Makes(o, f) ==
    /\ base = "accept" /\ o \in Objs /\ ~Created(o)
    /\ \/ o \in Clients /\ f \in FreeFds
       \/ o \in Failed /\ f = BadFd
    /\ NewConnection(o, f)

LEMMA AcceptMakes ==
    ASSUME Inv,
           (\E c \in Clients : Accept(c)) \/ (\E o \in Failed : AcceptFails(o))
    PROVE \E o \in Objs, f \in Keys : Makes(o, f)
<1>1. CASE \E c \in Clients : Accept(c)
  <2>1. PICK c \in Clients, f \in Fds : SocketAccept(f) /\ NewConnection(c, f) /\ Accept(c)
    BY <1>1 DEF Accept
  <2>2. f \in FreeFds
    BY <2>1, Names DEF SocketAccept
  <2> QED
    BY <2>1, <2>2, Names DEF Makes, Accept, MainAt, Inv, CreatedInv
<1>2. CASE \E o \in Failed : AcceptFails(o)
  BY <1>2, Names DEF AcceptFails, Makes, MainAt, Created
<1> QED
  BY <1>1, <1>2

LEMMA Fresh ==
    ASSUME Inv, NEW o \in Objs, NEW f \in Keys, Makes(o, f)
    PROVE /\ o \notin Held /\ conn = None
          /\ GetNextLoop \in Loops
          /\ \A c \in Clients \cap Held : fd[c] # f
<1>1. o \notin Held
  BY HeldAreCreated DEF Makes
<1>2. conn = None
  BY DEF Makes, Inv, ConnInv
<1>3. GetNextLoop \in Loops
  BY NumThreadsAssumption DEF Makes, Inv, TypeOK, MainTypeOK, GetNextLoop, Loops, BaseLoop
<1>4. ASSUME NEW c \in Clients \cap Held PROVE fd[c] # f
  BY HeldAreCreated, Names DEF Makes, FreeFds, OpenFds
<1> QED
  BY <1>1, <1>2, <1>3, <1>4

LEMMA ConnOnlyReleased ==
    ASSUME [Next]_vars,
           ~(\E c \in Clients : Accept(c)), ~(\E o \in Failed : AcceptFails(o))
    PROVE conn' \in {conn, None} /\ next_' = next_
<1>1. CASE MainThread
  BY <1>1 DEF MainThread, ConstructForPort, ConstructForAddress, Listen, StartLoop,
     EnterLoop, AcceptorReadable, OthersUnchanged, RunInLoop, Release, connVars
<1> QED
  BY <1>1, MainFrame

LEMMA InTasksStep ==
    ASSUME Inv, [Next]_vars, NEW o, NEW l \in Loops, InTasks(o, l)'
    PROVE InTasks(o, l) \/ (RunInLoop /\ o = conn)
<1>1. pending[l] \in Seq(Objs) /\ batch[l] \in Seq(Objs)
  BY DEF Inv, TypeOK, TaskTypeOK
<1>2. CASE UNCHANGED tasks
  BY <1>2 DEF tasks, InTasks
<1>3. CASE RunInLoop
  <2>1. CASE UNCHANGED tasks
    BY <2>1 DEF tasks, InTasks
  <2>2. CASE /\ pending' = [pending EXCEPT ![loopOf[conn]] = Append(@, conn)]
             /\ batch' = batch
    <3>1. pending'[l] \in {pending[l], Append(pending[l], conn)}
      BY <2>2 DEF Inv, TypeOK, TaskTypeOK
    <3>2. ASSUME NEW i \in DOMAIN pending'[l], pending'[l][i] # conn
          PROVE i \in DOMAIN pending[l] /\ pending[l][i] = pending'[l][i]
      <4>1. conn \in Objs
        BY <1>3, ConnHeld
      <4>2. CASE pending'[l] = pending[l]
        BY <3>2, <4>2
      <4>3. CASE pending'[l] = Append(pending[l], conn)
        BY <1>1, <3>2, <4>1, <4>3
      <4> QED
        BY <3>1, <4>2, <4>3
    <3> QED
      BY <1>3, <2>2, <3>2 DEF InTasks
  <2> QED
    BY <1>3, <2>1, <2>2 DEF RunInLoop
<1>4. ASSUME NEW k \in Loops, SwapFunctors(k) PROVE InTasks(o, l)
  BY <1>4 DEF SwapFunctors, InTasks, Inv, TypeOK, TaskTypeOK
<1>5. ASSUME NEW k \in Loops, RunFunctor(k) PROVE InTasks(o, l)
  BY <1>1, <1>5 DEF RunFunctor, InTasks, Inv, TypeOK, TaskTypeOK
<1> QED
  BY <1>2, <1>3, <1>4, <1>5, TasksFrame

(* No other step adds a reference to an object that has none.              *)
LEMMA HeldShrinks ==
    ASSUME Inv, [Next]_vars,
           ~(\E c \in Clients : Accept(c)), ~(\E o \in Failed : AcceptFails(o))
    PROVE Held' \subseteq Held
<1>1. conn' \in {conn, None}
  BY ConnOnlyReleased
<1>2. \A f \in Keys : ConnectionMap'[f] \in {ConnectionMap[f], None}
  BY MapFrame DEF RemoveConnection, Inv, TypeOK, ObjTypeOK
<1>3. ASSUME NEW l \in Loops, pc'[l] \in {"message", "remove", "destroy"}
      PROVE cur'[l] = cur[l] /\ (cur[l] \in Held \/ pc[l] \in {"message", "remove", "destroy"})
  BY <1>3, LoopFrame DEF EpollWait, HandleEvent, ReadMessage, ReadEnd, ReadAll, OnMessage,
     RemoveConnection, DestroyConnection, SwapFunctors, FunctorsDone, At, Goto, Reading,
     Inv, TypeOK, LoopTypeOK
<1> QED
  <2> SUFFICES ASSUME NEW o \in Held' PROVE o \in Held
    OBVIOUS
  <2>1. /\ o # None
        /\ \/ o = conn'
           \/ \E f \in Keys : ConnectionMap'[f] = o
           \/ \E l \in Loops : \/ InTasks(o, l)'
                               \/ pc'[l] \in {"message", "remove", "destroy"} /\ cur'[l] = o
    BY DEF Held, ElementsOf, InTasks
  <2>2. CASE o = conn'
    BY <1>1, <2>1, <2>2, HeldBy
  <2>3. CASE \E f \in Keys : ConnectionMap'[f] = o
    BY <1>2, <2>1, <2>3, HeldBy
  <2>4. CASE \E l \in Loops : InTasks(o, l)'
    BY <2>1, <2>4, InTasksStep, HeldBy
  <2>5. CASE \E l \in Loops : pc'[l] \in {"message", "remove", "destroy"} /\ cur'[l] = o
    BY <1>3, <2>1, <2>5, HeldBy
  <2> QED
    BY <2>1, <2>2, <2>3, <2>4, <2>5

------------------------------------------------------------------------------
(* Types.                                                                  *)

LEMMA MainTyped ==
    ASSUME Inv, [Next]_vars
    PROVE ListenTypeOK' /\ MainTypeOK'
<1>1. ListenTypeOK /\ MainTypeOK
  BY DEF Inv, TypeOK
<1>2. CASE MainThread
  <2>1. CASE ConstructForPort \/ ConstructForAddress
    <3>1. ListenTypeOK'
      BY <1>1, <2>1 DEF ListenTypeOK, ConstructForPort, ConstructForAddress, BindPort, BindAddress
    <3>2. MainTypeOK'
      BY <1>1, <2>1 DEF MainTypeOK, ConstructForPort, ConstructForAddress, OthersUnchanged, connVars
    <3> QED
      BY <3>1, <3>2
  <2>2. CASE Listen \/ AcceptorReadable
    <3>1. ListenTypeOK'
      BY <1>1, <2>2 DEF ListenTypeOK, Listen, SocketListen, AcceptorReadable
    <3>2. MainTypeOK'
      BY <1>1, <2>2 DEF MainTypeOK, Listen, AcceptorReadable, OthersUnchanged, connVars, MainAt
    <3> QED
      BY <3>1, <3>2
  <2>3. CASE StartLoop \/ EnterLoop
    <3>1. ListenTypeOK'
      BY <1>1, <2>3 DEF ListenTypeOK, StartLoop, EnterLoop
    <3>2. MainTypeOK'
      BY <1>1, <2>3, NumThreadsAssumption
      DEF MainTypeOK, StartLoop, EnterLoop, OthersUnchanged, connVars, MainAt
    <3> QED
      BY <3>1, <3>2
  <2>4. CASE (\E c \in Clients : Accept(c)) \/ (\E o \in Failed : AcceptFails(o))
    <3>1. PICK o \in Objs, f \in Keys : Makes(o, f)
      BY <2>4, AcceptMakes
    <3>2. ListenTypeOK'
      BY <1>1, <3>1 DEF ListenTypeOK, Makes, NewConnection, listenVars
    <3>3. MainTypeOK'
      BY <1>1, <3>1, NumThreadsAssumption DEF MainTypeOK, Makes, NewConnection, listenVars
    <3> QED
      BY <3>2, <3>3
  <2>5. CASE RunInLoop \/ Release
    <3>1. ListenTypeOK'
      BY <1>1, <2>5 DEF ListenTypeOK, RunInLoop, Release, listenVars
    <3>2. MainTypeOK'
      BY <1>1, <2>5 DEF MainTypeOK, RunInLoop, Release, listenVars, connVars, MainAt
    <3> QED
      BY <3>1, <3>2
  <2> QED
    BY <1>2, <2>1, <2>2, <2>3, <2>4, <2>5 DEF MainThread
<1>3. CASE UNCHANGED <<base, address, poolSize, next_, conn>>
           /\ acceptable' \in {acceptable, TRUE}
  <2>1. ListenTypeOK'
    BY <1>1, <1>3 DEF ListenTypeOK
  <2>2. MainTypeOK'
    BY <1>1, <1>3 DEF MainTypeOK
  <2> QED
    BY <2>1, <2>2
<1> QED
  BY <1>2, <1>3, MainFrame DEF listenVars

LEMMA ObjTyped ==
    ASSUME Inv, [Next]_vars
    PROVE ObjTypeOK'
<1>1. ObjTypeOK
  BY DEF Inv, TypeOK
<1>2. CASE (\E c \in Clients : Accept(c)) \/ (\E o \in Failed : AcceptFails(o))
  <2>1. PICK o \in Objs, f \in Keys : Makes(o, f)
    BY <1>2, AcceptMakes
  <2>2. GetNextLoop \in Loops
    BY <2>1, Fresh
  <2> QED
    BY <1>1, <2>1, <2>2 DEF ObjTypeOK, Makes, NewConnection, ConstructConnection
<1>3. CASE ~(\E c \in Clients : Accept(c)) /\ ~(\E o \in Failed : AcceptFails(o))
  <2>1. conn' \in Objs \cup {None}
    BY <1>1, <1>3, ConnOnlyReleased DEF ObjTypeOK
  <2>2. ConnectionMap' \in [Keys -> Objs \cup {None}] /\ UNCHANGED <<loopOf, fd>>
    BY <1>1, <1>3, MapFrame DEF RemoveConnection, ObjTypeOK
  <2> QED
    BY <1>1, <2>1, <2>2 DEF ObjTypeOK
<1> QED
  BY <1>2, <1>3

LEMMA TasksTyped ==
    ASSUME Inv, [Next]_vars
    PROVE TaskTypeOK'
<1> USE DEF TaskTypeOK
<1>1. TaskTypeOK
  BY DEF Inv, TypeOK
<1>2. CASE UNCHANGED tasks
  BY <1>1, <1>2 DEF tasks
<1>3. CASE RunInLoop
  <2>1. conn \in Objs /\ loopOf[conn] \in Loops
    BY <1>3, ConnHeld
  <2>2. Append(pending[loopOf[conn]], conn) \in Seq(Objs)
    BY <1>1, <2>1
  <2>3. CASE /\ pending' = [pending EXCEPT ![loopOf[conn]] = Append(@, conn)]
             /\ batch' = batch
    BY <1>1, <2>2, <2>3
  <2> QED
    BY <1>2, <1>3, <2>3 DEF RunInLoop
<1>4. ASSUME NEW l \in Loops, SwapFunctors(l) PROVE TaskTypeOK'
  BY <1>1, <1>4 DEF SwapFunctors
<1>5. ASSUME NEW l \in Loops, RunFunctor(l) PROVE TaskTypeOK'
  <2>1. batch[l] \in Seq(Objs) /\ batch[l] # <<>>
    BY <1>1, <1>5 DEF RunFunctor
  <2>2. Tail(batch[l]) \in Seq(Objs)
    BY <2>1
  <2> QED
    BY <1>1, <1>5, <2>2 DEF RunFunctor
<1> QED
  BY <1>2, <1>3, <1>4, <1>5, TasksFrame

LEMMA LoopTyped ==
    ASSUME Inv, [Next]_vars
    PROVE LoopTypeOK'
<1>1. LoopTypeOK
  BY DEF Inv, TypeOK
<1> DEFINE Places == {"wait", "dispatch", "reading", "message", "remove", "destroy",
                      "functors"}
           Events == Objs \X {"in", "err"}
<1>2. pc' \in [Loops -> Places]
  BY <1>1, LoopFrame DEF LoopTypeOK, EpollWait, HandleEvent, ReadMessage, ReadEnd, ReadAll,
     OnMessage, RemoveConnection, DestroyConnection, SwapFunctors, FunctorsDone, Goto
<1>3. cur' \in [Loops -> Clients \cup {None}]
  BY <1>1, LoopFrame DEF LoopTypeOK, EpollWait, HandleEvent, ReadMessage, ReadEnd, ReadAll,
     OnMessage, RemoveConnection, DestroyConnection, SwapFunctors, FunctorsDone
<1>4. active' \in [Loops -> SUBSET Events]
  <2>1. active \in [Loops -> SUBSET Events]
    BY <1>1 DEF LoopTypeOK
  <2>2. ASSUME NEW l \in Loops, EpollWait(l) PROVE active' \in [Loops -> SUBSET Events]
    <3>1. \A c \in Reported(l) : ChannelMap[l][fd[c]] = c /\ c \in Objs
      BY Names, WatchedAreHeld DEF Reported, Inv, WatchedInv
    <3>2. {<<ChannelMap[l][fd[c]], IF sock[c].err THEN "err" ELSE "in">> :
             c \in Reported(l)} \subseteq Events
      BY <3>1
    <3> HIDE DEF Events
    <3> QED
      BY <2>1, <2>2, <3>2 DEF EpollWait
  <2>3. ASSUME NEW l \in Loops, HandleError(l) \/ HandleEvent(l)
        PROVE active' \in [Loops -> SUBSET Events]
    <3> HIDE DEF Events
    <3>1. PICK e : active' = [active EXCEPT ![l] = @ \ {e}]
      BY <2>3 DEF HandleError, HandleEvent
    <3> QED
      BY <2>1, <3>1
  <2> QED
    BY <2>1, <2>2, <2>3, ActiveFrame
<1> QED
  BY <1>2, <1>3, <1>4 DEF LoopTypeOK

LEMMA EpollTyped ==
    ASSUME Inv, [Next]_vars
    PROVE EpollTypeOK'
<1> USE DEF EpollTypeOK
<1>1. EpollTypeOK
  BY DEF Inv, TypeOK
<1>2. ASSUME NEW l \in Loops, NEW o \in Held, EpollAdd(l, o) PROVE EpollTypeOK'
  <2>1. o \in Objs /\ fd[o] \in Keys /\ (fd[o] # BadFd => o \in Clients)
    BY HeldAreCreated
  <2> QED
    BY <1>1, <1>2, <2>1 DEF EpollAdd
<1>3. CASE RunInLoop
  BY <1>1, <1>2, <1>3, ConnHeld DEF RunInLoop, ConnectEstablished, epollVars
<1>4. ASSUME NEW l \in Loops, RunFunctor(l) PROVE EpollTypeOK'
  BY <1>2, <1>4, HeadHeld DEF RunFunctor, ConnectEstablished
<1>5. ASSUME NEW l \in Loops, DestroyConnection(l) PROVE EpollTypeOK'
  BY <1>1, <1>5 DEF DestroyConnection, ConnectDestroyed, EpollDel
<1>6. CASE UNCHANGED <<ChannelMap, interest>>
  BY <1>1, <1>3, <1>4, <1>6, ReadyFrame
<1> QED
  BY <1>3, <1>4, <1>5, <1>6, EpollFrame

LEMMA SocketUpdates ==
    ASSUME NEW s \in Sockets, s.inbox <= s.sent
    PROVE /\ \A t \in {[s EXCEPT !.err = FALSE], [s EXCEPT !.fin = TRUE],
                     [s EXCEPT !.rst = TRUE, !.err = TRUE]} :
                t \in Sockets /\ t.inbox <= t.sent
          /\ s.sent < MaxSends =>
                LET t == [s EXCEPT !.inbox = @ + 1, !.sent = @ + 1]
                IN t \in Sockets /\ t.inbox <= t.sent
          /\ s.inbox > 0 =>
                LET t == [s EXCEPT !.inbox = @ - 1]
                IN t \in Sockets /\ t.inbox <= t.sent
<1> USE DEF Sockets
<1>1. s.inbox \in 0 .. MaxSends /\ s.sent \in 0 .. MaxSends
  OBVIOUS
<1>2. ASSUME NEW t \in {[s EXCEPT !.err = FALSE], [s EXCEPT !.fin = TRUE],
                       [s EXCEPT !.rst = TRUE, !.err = TRUE]}
      PROVE t \in Sockets /\ t.inbox <= t.sent
  BY <1>1
<1>3. ASSUME s.sent < MaxSends
      PROVE LET t == [s EXCEPT !.inbox = @ + 1, !.sent = @ + 1]
            IN t \in Sockets /\ t.inbox <= t.sent
  <2>1. s.inbox + 1 \in 0 .. MaxSends /\ s.sent + 1 \in 0 .. MaxSends
    BY <1>1, <1>3, SendsAssumption
  <2>2. s.inbox + 1 <= s.sent + 1
    BY <1>1
  <2> DEFINE t == [s EXCEPT !.inbox = @ + 1, !.sent = @ + 1]
  <2>3. t \in Sockets
    BY <2>1
  <2>4. t.inbox = s.inbox + 1 /\ t.sent = s.sent + 1
    OBVIOUS
  <2> QED
    BY <2>2, <2>3, <2>4
<1>4. ASSUME s.inbox > 0
      PROVE LET t == [s EXCEPT !.inbox = @ - 1] IN t \in Sockets /\ t.inbox <= t.sent
  <2>1. s.inbox - 1 \in 0 .. MaxSends
    BY <1>1, <1>4, SendsAssumption
  <2> QED
    BY <1>1, <2>1
<1> QED
  BY <1>2, <1>3, <1>4

LEMMA ClientTyped ==
    ASSUME Inv, [Next]_vars
    PROVE ClientTypeOK' /\ InboxInv'
<1>1. ClientTypeOK /\ InboxInv
  BY DEF Inv, TypeOK
<1>2. phase' \in [Clients -> {"away", "backlog", "accepted"}]
  BY <1>1, PhaseFrame DEF ClientTypeOK, Connect, Accept
<1>3. process' \in {"running", "SIGSEGV", "SIGPIPE"}
  BY <1>1, ProcessFrame DEF ClientTypeOK
<1>4. ASSUME NEW c \in Clients, NEW s \in Sockets, s.inbox <= s.sent,
             sock' = [sock EXCEPT ![c] = s]
      PROVE sock' \in [Clients -> Sockets] /\ InboxInv'
  <2> HIDE DEF Sockets
  <2> QED
    BY <1>1, <1>4 DEF ClientTypeOK, InboxInv
<1>5. sock' \in [Clients -> Sockets] /\ InboxInv'
  <2>1. \A c \in Clients : sock[c] \in Sockets /\ sock[c].inbox <= sock[c].sent
    BY <1>1 DEF ClientTypeOK, InboxInv
  <2>2. ASSUME NEW c \in Clients, Send(c) PROVE sock' \in [Clients -> Sockets] /\ InboxInv'
    <3> DEFINE s == [sock[c] EXCEPT !.inbox = @ + 1, !.sent = @ + 1]
    <3>1. sock' = [sock EXCEPT ![c] = s] /\ sock[c].sent < MaxSends
      BY <2>2 DEF Send
    <3>2. s \in Sockets /\ s.inbox <= s.sent
      BY <2>1, <3>1, SocketUpdates
    <3> QED
      BY <1>4, <3>1, <3>2
  <2>3. ASSUME NEW c \in Clients, Shutdown(c) \/ Reset(c)
        PROVE sock' \in [Clients -> Sockets] /\ InboxInv'
    <3>1. \/ sock' = [sock EXCEPT ![c] = [sock[c] EXCEPT !.fin = TRUE]]
          \/ sock' = [sock EXCEPT ![c] = [sock[c] EXCEPT !.rst = TRUE, !.err = TRUE]]
      BY <2>3 DEF Shutdown, Reset
    <3> QED
      BY <1>4, <2>1, <3>1, SocketUpdates
  <2>4. ASSUME NEW l \in Loops, HandleError(l) \/ ReadError(l) \/ OnMessage(l)
        PROVE sock' \in [Clients -> Sockets] /\ InboxInv'
    <3>1. PICK c \in Clients : sock' = [sock EXCEPT ![c] = [sock[c] EXCEPT !.err = FALSE]]
      <4>1. CASE HandleError(l)
        BY <4>1 DEF HandleError
      <4>2. CASE ReadError(l) \/ OnMessage(l)
        <5>1. cur[l] \in Clients
          BY <4>2 DEF ReadError, OnMessage, Reading, At, Inv, CurInv, TypeOK, LoopTypeOK
        <5> QED
          BY <4>2, <5>1 DEF ReadError, OnMessage
      <4> QED
        BY <2>4, <4>1, <4>2
    <3> QED
      BY <1>4, <2>1, <3>1, SocketUpdates
  <2>5. ASSUME NEW l \in Loops, ReadMessage(l)
        PROVE sock' \in [Clients -> Sockets] /\ InboxInv'
    <3> DEFINE c == cur[l]
               s == [sock[c] EXCEPT !.inbox = @ - 1]
    <3>1. c \in Clients
      BY <2>5 DEF ReadMessage, Reading, At, Inv, CurInv, TypeOK, LoopTypeOK
    <3>2. sock' = [sock EXCEPT ![c] = s] /\ sock[c].inbox > 0
      BY <2>5 DEF ReadMessage
    <3>3. s \in Sockets /\ s.inbox <= s.sent
      BY <2>1, <3>1, <3>2, SocketUpdates
    <3> QED
      BY <1>4, <3>1, <3>2, <3>3
  <2> QED
    BY <1>1, <2>2, <2>3, <2>4, <2>5, SockFrame DEF ClientTypeOK, InboxInv
<1> QED
  BY <1>1, <1>2, <1>3, <1>5 DEF ClientTypeOK

------------------------------------------------------------------------------
(* Objects and descriptors.                                                *)

(* The two ways in which loopOf, fd and the map change.                    *)
LEMMA MapCases ==
    ASSUME Inv, [Next]_vars
    PROVE \/ \E o \in Objs, f \in Keys : Makes(o, f)
          \/ /\ UNCHANGED <<loopOf, fd, next_>>
             /\ Held' \subseteq Held
             /\ conn' \in {conn, None}
             /\ \/ UNCHANGED ConnectionMap
                \/ \E l \in Loops : RemoveConnection(l)
<1>1. CASE (\E c \in Clients : Accept(c)) \/ (\E o \in Failed : AcceptFails(o))
  BY <1>1, AcceptMakes
<1>2. CASE ~(\E c \in Clients : Accept(c)) /\ ~(\E o \in Failed : AcceptFails(o))
  BY <1>2, MapFrame, HeldShrinks, ConnOnlyReleased
<1> QED
  BY <1>1, <1>2

(* What NewConnection leaves and what it changes.                          *)
LEMMA MakesFacts ==
    ASSUME Inv, NEW o \in Objs, NEW f \in Keys, Makes(o, f)
    PROVE /\ loopOf' = [loopOf EXCEPT ![o] = GetNextLoop]
          /\ fd' = [fd EXCEPT ![o] = f]
          /\ ConnectionMap' = [ConnectionMap EXCEPT ![f] = o]
          /\ \A p \in Objs : Created(p)' <=> (Created(p) \/ p = o)
          /\ \A p \in Objs : Created(p) => loopOf'[p] = loopOf[p] /\ fd'[p] = fd[p]
          /\ fd'[o] = f
          /\ conn' = o /\ base' = "queue" /\ base = "accept"
          /\ UNCHANGED <<pending, batch, pc, cur, active, ChannelMap, interest>>
<1>1. /\ loopOf' = [loopOf EXCEPT ![o] = GetNextLoop]
      /\ fd' = [fd EXCEPT ![o] = f]
      /\ ConnectionMap' = [ConnectionMap EXCEPT ![f] = o]
      /\ conn' = o /\ base' = "queue" /\ base = "accept" /\ ~Created(o)
      /\ UNCHANGED <<pending, batch, pc, cur, active, ChannelMap, interest>>
  BY DEF Makes, NewConnection, ConstructConnection, tasks, loopVars, epollVars
<1>2. ObjTypeOK /\ GetNextLoop \in Loops
  BY Fresh DEF Inv, TypeOK
<1> QED
  BY <1>1, <1>2, Names DEF Created, ObjTypeOK

LEMMA CreatedStep ==
    ASSUME Inv, [Next]_vars
    PROVE CreatedInv'
<1> USE DEF CreatedInv
<1>1. CreatedInv
  BY DEF Inv
<1>2. CASE \E c \in Clients : Accept(c)
  <2>1. PICK c \in Clients, f \in Fds : SocketAccept(f) /\ NewConnection(c, f) /\ Accept(c)
    BY <1>2 DEF Accept
  <2>2. Makes(c, f) /\ c \in Objs /\ f \in Keys
    BY <1>1, <2>1, Names DEF Makes, Accept, MainAt, SocketAccept
  <2>3. phase' = [phase EXCEPT ![c] = "accepted"] /\ phase \in [Clients -> {"away", "backlog", "accepted"}]
    BY <2>1 DEF Accept, Inv, TypeOK, ClientTypeOK
  <2> QED
    BY <1>1, <2>1, <2>2, <2>3, MakesFacts, Names
<1>3. CASE \E o \in Failed : AcceptFails(o)
  <2>1. PICK o \in Failed : AcceptFails(o)
    BY <1>3
  <2>2. Makes(o, BadFd) /\ o \in Objs
    BY <2>1, Names DEF Makes, AcceptFails, MainAt, Created
  <2>3. phase' = phase
    BY <2>1 DEF AcceptFails, clientVars
  <2> QED
    BY <1>1, <2>1, <2>2, <2>3, MakesFacts, Names
<1>4. CASE /\ UNCHANGED <<loopOf, fd>>
           /\ UNCHANGED phase \/ \E c \in Clients : Connect(c)
  BY <1>1, <1>4 DEF Created, Connect, Inv, TypeOK, ClientTypeOK
<1> QED
  BY <1>2, <1>3, <1>4, MapFrame, PhaseFrame

LEMMA ConnStep ==
    ASSUME Inv, [Next]_vars
    PROVE ConnInv'
<1> USE DEF ConnInv
<1>1. ConnInv
  BY DEF Inv
<1>2. ASSUME NEW o \in Objs, NEW f \in Keys, Makes(o, f) PROVE ConnInv'
  BY <1>2, MakesFacts, Names
<1>3. CASE UNCHANGED <<loopOf, fd>>
  <2>1. CASE MainThread
    <3>1. CASE ConstructForPort \/ ConstructForAddress \/ Listen \/ StartLoop \/ EnterLoop
                 \/ AcceptorReadable
      BY <1>1, <3>1 DEF ConstructForPort, ConstructForAddress, Listen, StartLoop, EnterLoop,
         AcceptorReadable, MainAt, OthersUnchanged, connVars
    <3>2. CASE RunInLoop \/ Release
      BY <1>1, <1>3, <3>2 DEF RunInLoop, Release, MainAt, connVars, Created
    <3>3. CASE (\E c \in Clients : Accept(c)) \/ (\E o \in Failed : AcceptFails(o))
      BY <1>2, <3>3, AcceptMakes
    <3> QED
      BY <2>1, <3>1, <3>2, <3>3 DEF MainThread
  <2>2. CASE UNCHANGED <<base, conn>>
    BY <1>1, <1>3, <2>2 DEF Created
  <2> QED
    BY <2>1, <2>2, MainFrame
<1> QED
  BY <1>2, <1>3, MapCases

LEMMA MapStep ==
    ASSUME Inv, [Next]_vars
    PROVE MapInv'
<1> USE DEF MapInv
<1>1. MapInv /\ ConnectionMap \in [Keys -> Objs \cup {None}]
  BY DEF Inv, TypeOK, ObjTypeOK
<1>2. ASSUME NEW o \in Objs, NEW f \in Keys, Makes(o, f) PROVE MapInv'
  BY <1>1, <1>2, MakesFacts, Names
<1>3. CASE UNCHANGED <<loopOf, fd, ConnectionMap>>
  BY <1>1, <1>3 DEF Created
<1>4. CASE UNCHANGED <<loopOf, fd>> /\ \E l \in Loops : RemoveConnection(l)
  BY <1>1, <1>4 DEF Created, RemoveConnection
<1> QED
  BY <1>2, <1>3, <1>4, MapCases

LEMMA CurStep ==
    ASSUME Inv, [Next]_vars
    PROVE CurInv'
<1> USE DEF CurInv
<1>1. CurInv /\ LoopTypeOK
  BY DEF Inv, TypeOK
<1>2. ASSUME NEW o \in Objs, NEW f \in Keys, Makes(o, f) PROVE CurInv'
  BY <1>1, <1>2, MakesFacts, Names DEF LoopTypeOK
<1>3. CASE UNCHANGED <<loopOf, pc, cur>>
  BY <1>1, <1>3 DEF Created
<1>4. ASSUME NEW l \in Loops, HandleEvent(l), UNCHANGED loopOf PROVE CurInv'
  <2>1. PICK o \in Clients : <<o, "in">> \in active[l] /\ cur' = [cur EXCEPT ![l] = o]
    BY <1>4 DEF HandleEvent
  <2>2. o \in interest[l]
    BY <2>1 DEF Inv, ActiveInv
  <2>3. loopOf[o] = l /\ o # None
    BY <2>1, <2>2, Names DEF Inv, WatchedInv
  <2> QED
    BY <1>1, <1>4, <2>1, <2>3, Names DEF Created, LoopTypeOK, HandleEvent, Goto
<1>5. ASSUME NEW l \in Loops, UNCHANGED loopOf,
             \/ EpollWait(l) \/ ReadMessage(l) \/ ReadEnd(l) \/ ReadAll(l) \/ OnMessage(l)
             \/ RemoveConnection(l) \/ DestroyConnection(l) \/ SwapFunctors(l) \/ FunctorsDone(l)
      PROVE CurInv'
  BY <1>1, <1>5 DEF Created, LoopTypeOK, EpollWait, ReadMessage, ReadEnd, ReadAll, OnMessage,
     RemoveConnection, DestroyConnection, SwapFunctors, FunctorsDone, At, Goto, Reading
<1> QED
  BY <1>2, <1>3, <1>4, <1>5, MapCases, LoopFrame

LEMMA FdsStep ==
    ASSUME Inv, [Next]_vars
    PROVE FdsInv'
<1> USE DEF FdsInv
<1>1. FdsInv
  BY DEF Inv
<1>2. ASSUME NEW o \in Objs, NEW f \in Keys, Makes(o, f) PROVE FdsInv'
  <2>1. Held' \subseteq Held \cup {o}
    <3> SUFFICES ASSUME NEW p \in Held', p # o PROVE p \in Held
      OBVIOUS
    <3>1. /\ p # None
          /\ \/ p = conn'
             \/ \E g \in Keys : ConnectionMap'[g] = p
             \/ \E l \in Loops : \/ InTasks(p, l)'
                                 \/ pc'[l] \in {"message", "remove", "destroy"} /\ cur'[l] = p
      BY DEF Held, ElementsOf, InTasks
    <3>2. \A l \in Loops : InTasks(p, l)' <=> InTasks(p, l)
      BY <1>2, MakesFacts DEF InTasks
    <3>3. \A g \in Keys : ConnectionMap'[g] = p => ConnectionMap[g] = p
      BY <1>2, MakesFacts DEF Inv, TypeOK, ObjTypeOK
    <3> QED
      BY <1>2, <3>1, <3>2, <3>3, MakesFacts, HeldBy
  <2>2. \A p \in Clients \cap Held : fd'[p] = fd[p] /\ fd'[p] # f
    BY <1>2, MakesFacts, Fresh, HeldAreCreated
  <2> QED
    BY <1>1, <1>2, <2>1, <2>2, MakesFacts
<1>3. CASE UNCHANGED fd /\ Held' \subseteq Held
  BY <1>1, <1>3
<1> QED
  BY <1>2, <1>3, MapCases

------------------------------------------------------------------------------
(* Functors, epoll sets and events.                                        *)

(* What RunInLoop does to the queues.                                      *)
LEMMA RunInLoopFacts ==
    ASSUME Inv, RunInLoop
    PROVE /\ base = "queue" /\ base' = "release" /\ conn' = conn
          /\ UNCHANGED <<loopOf, fd, ConnectionMap, batch, pc, cur, active>>
          /\ \/ UNCHANGED pending /\ loopOf[conn] = BaseLoop /\ EpollAdd(loopOf[conn], conn)
             \/ /\ pending' = [pending EXCEPT ![loopOf[conn]] = Append(@, conn)]
                /\ UNCHANGED <<ChannelMap, interest>>
BY DEF RunInLoop, MainAt, ConnectEstablished, connVars, tasks, loopVars, epollVars

LEMMA RunFunctorFacts ==
    ASSUME Inv, NEW l \in Loops, RunFunctor(l)
    PROVE /\ pc[l] = "functors" /\ EpollAdd(l, Head(batch[l]))
          /\ batch' = [batch EXCEPT ![l] = Tail(@)]
          /\ UNCHANGED <<base, conn, loopOf, fd, ConnectionMap, pending, pc, cur, active>>
<1>1. loopOf[Head(batch[l])] = l
  BY HeadHeld
<1> QED
  BY <1>1 DEF RunFunctor, At, ConnectEstablished, mainVars, connVars, loopVars

(* newConnection alone queues, and keeps its connection until it has.      *)
LEMMA QueueStays ==
    ASSUME Inv, [Next]_vars, UNCHANGED loopOf, base' = "queue"
    PROVE base = "queue" /\ conn' = conn
<1>1. CASE (\E c \in Clients : Accept(c)) \/ (\E o \in Failed : AcceptFails(o))
  BY <1>1, AcceptMakes, MakesFacts DEF Makes, Created
<1>2. CASE RunInLoop \/ Release
  BY <1>2 DEF RunInLoop, Release
<1>3. CASE ConstructForPort \/ ConstructForAddress \/ Listen \/ StartLoop \/ EnterLoop
             \/ AcceptorReadable
  BY <1>3 DEF ConstructForPort, ConstructForAddress, Listen, StartLoop, EnterLoop,
     AcceptorReadable, MainAt
<1> QED
  BY <1>1, <1>2, <1>3, MainFrame DEF MainThread

LEMMA QueuesStep ==
    ASSUME Inv, [Next]_vars
    PROVE QueuesInv'
<1>1. QueuesInv /\ TaskTypeOK /\ LoopTypeOK
  BY DEF Inv, TypeOK
<1>2. \A l \in Loops : pending[l] \in Seq(Objs) /\ batch[l] \in Seq(Objs)
  BY <1>1 DEF TaskTypeOK
<1>3. ASSUME NEW o \in Objs, NEW f \in Keys, Makes(o, f) PROVE QueuesInv'
  <2>1. \A l \in Loops : ~InTasks(o, l)
    BY <1>3, Fresh, HeldBy, Names
  <2>2. \A l \in Loops : (\A i \in DOMAIN pending[l] : Created(pending[l][i]) /\ pending[l][i] \in Objs)
                      /\ (\A i \in DOMAIN batch[l] : Created(batch[l][i]) /\ batch[l][i] \in Objs)
    BY <1>1, <1>2, Names DEF QueuesInv, QueueInv, Created
  <2>3. UNCHANGED <<pending, batch, pc>> /\ conn' = o
        /\ \A p \in Objs : Created(p) => loopOf'[p] = loopOf[p]
    BY <1>3, MakesFacts
  <2> QED
    BY <1>1, <2>1, <2>2, <2>3 DEF QueuesInv, QueueInv, InTasks
<1>4. CASE RunInLoop
  <2>1. conn \in Objs /\ loopOf[conn] \in Loops
    BY <1>4, ConnHeld
  <2>2. CASE UNCHANGED pending
    BY <1>1, <1>4, <2>2, RunInLoopFacts DEF QueuesInv, QueueInv
  <2>3. CASE pending' = [pending EXCEPT ![loopOf[conn]] = Append(@, conn)]
    <3>0. PICK k \in Loops : k = loopOf[conn]
      BY <2>1
    <3>1. /\ \A l \in Loops \ {k} : pending'[l] = pending[l]
          /\ pending'[k] = Append(pending[k], conn)
          /\ UNCHANGED <<batch, loopOf, pc>> /\ base' # "queue"
      BY <1>1, <1>4, <2>1, <3>0, <2>3, RunInLoopFacts DEF TaskTypeOK
    <3>2. DOMAIN pending'[k] = 1 .. Len(pending[k]) + 1
      BY <1>2, <2>1, <3>0, <3>1
    <3>3. /\ DOMAIN pending[k] = 1 .. Len(pending[k]) /\ Len(pending[k]) \in Nat
          /\ pending'[k][Len(pending[k]) + 1] = conn
          /\ \A i \in DOMAIN pending[k] : pending'[k][i] = pending[k][i]
      BY <1>2, <2>1, <3>0, <3>1
    <3>4. \A i \in DOMAIN pending'[k] : i \in DOMAIN pending[k] \/ i = Len(pending[k]) + 1
      BY <3>2, <3>3
    <3>5. ~InTasks(conn, k)
      BY <1>1, <1>4, <2>1, <3>0, RunInLoopFacts DEF QueuesInv, QueueInv
    <3>6. /\ \A i \in DOMAIN pending'[k] : loopOf[pending'[k][i]] = k
          /\ \A i, j \in DOMAIN pending'[k] : pending'[k][i] = pending'[k][j] => i = j
          /\ \A i \in DOMAIN pending'[k], j \in DOMAIN batch[k] : pending'[k][i] # batch[k][j]
      BY <1>1, <2>1, <3>0, <3>3, <3>4, <3>5 DEF QueuesInv, QueueInv, InTasks
    <3>7. QueueInv(k)'
      BY <1>1, <2>1, <3>0, <3>1, <3>6 DEF QueuesInv, QueueInv
    <3>8. ASSUME NEW l \in Loops \ {k} PROVE QueueInv(l)'
      BY <1>1, <3>1, <3>8 DEF QueuesInv, QueueInv
    <3> QED
      BY <3>7, <3>8 DEF QueuesInv
  <2> QED
    BY <1>4, <2>2, <2>3, RunInLoopFacts
<1>5. ASSUME NEW k \in Loops, SwapFunctors(k), UNCHANGED loopOf PROVE QueuesInv'
  <2>1. /\ pc[k] = "dispatch" /\ pc' = [pc EXCEPT ![k] = "functors"]
        /\ batch' = [batch EXCEPT ![k] = pending[k]]
        /\ pending' = [pending EXCEPT ![k] = <<>>]
        /\ UNCHANGED <<base, conn>>
    BY <1>5 DEF SwapFunctors, At, Goto, mainVars, connVars
  <2>2. batch[k] = <<>>
    BY <1>1, <2>1 DEF QueuesInv, QueueInv
  <2> QED
    BY <1>1, <1>5, <2>1, <2>2 DEF QueuesInv, QueueInv, InTasks, TaskTypeOK, LoopTypeOK
<1>6. ASSUME NEW k \in Loops, RunFunctor(k) PROVE QueuesInv'
  <2>1. /\ batch' = [batch EXCEPT ![k] = Tail(@)] /\ batch[k] # <<>> /\ pc[k] = "functors"
        /\ UNCHANGED <<base, conn, loopOf, pending, pc>>
    BY <1>6, RunFunctorFacts DEF RunFunctor
  <2>2. \A i \in DOMAIN Tail(batch[k]) : i + 1 \in DOMAIN batch[k] /\ Tail(batch[k])[i] = batch[k][i + 1]
    BY <1>2, <2>1
  <2>3. \A i \in DOMAIN Tail(batch[k]) : i \in Nat
    BY <1>2, <2>1
  <2> QED
    BY <1>1, <2>1, <2>2, <2>3 DEF QueuesInv, QueueInv, InTasks, TaskTypeOK
<1>7. CASE UNCHANGED <<loopOf, tasks>> /\ conn' \in {conn, None}
  <2>1. base' = "queue" => base = "queue" /\ conn' = conn
    BY <1>7, QueueStays
  <2>2. ASSUME NEW l \in Loops, pc'[l] # "functors" PROVE batch[l] = <<>>
    <3>1. CASE UNCHANGED <<pc, cur>>
      BY <1>1, <2>2, <3>1 DEF QueuesInv, QueueInv
    <3>2. ASSUME NEW k \in Loops, SwapFunctors(k) \/ FunctorsDone(k) PROVE batch[l] = <<>>
      BY <1>1, <2>2, <3>2 DEF QueuesInv, QueueInv, LoopTypeOK, SwapFunctors, FunctorsDone, At, Goto
    <3>3. ASSUME NEW k \in Loops,
                 \/ EpollWait(k) \/ HandleEvent(k) \/ ReadMessage(k) \/ ReadEnd(k) \/ ReadAll(k)
                 \/ OnMessage(k) \/ RemoveConnection(k) \/ DestroyConnection(k)
          PROVE batch[l] = <<>>
      <4>1. pc[k] # "functors" /\ \E p : pc' = [pc EXCEPT ![k] = p]
        BY <3>3 DEF EpollWait, HandleEvent, ReadMessage, ReadEnd, ReadAll, OnMessage,
           RemoveConnection, DestroyConnection, At, Goto, Reading
      <4> QED
        BY <1>1, <2>2, <4>1 DEF QueuesInv, QueueInv, LoopTypeOK
    <3> QED
      BY <3>1, <3>2, <3>3, LoopFrame
  <2> QED
    BY <1>1, <1>7, <2>1, <2>2 DEF QueuesInv, QueueInv, InTasks, tasks
<1> QED
  BY <1>3, <1>4, <1>5, <1>6, <1>7, MapCases, TasksFrame

(* Except for the object just made, no step queues a connection, and what  *)
(* a functor establishes is no longer queued.                              *)
LEMMA StillQueued ==
    ASSUME Inv, [Next]_vars, UNCHANGED loopOf, NEW c \in Clients, Queued(c)'
    PROVE /\ Queued(c)
          /\ RunInLoop => (c = conn => loopOf[conn] # BaseLoop)
          /\ \A l \in Loops : RunFunctor(l) => c # Head(batch[l])
<1>1. Queued(c)
  <2>1. CASE base' = "queue" /\ conn' = c
    BY <2>1, QueueStays DEF Queued
  <2>2. CASE \E l \in Loops : InTasks(c, l)'
    BY <2>2, InTasksStep DEF Queued, RunInLoop, MainAt
  <2> QED
    BY <2>1, <2>2 DEF Queued
<1>2. ASSUME RunInLoop, c = conn PROVE loopOf[conn] # BaseLoop
  <2>1. PICK l \in Loops : InTasks(c, l)'
    BY <1>2 DEF Queued, RunInLoop
  <2>2. ~InTasks(c, l)
    BY <1>2 DEF RunInLoop, MainAt, Inv, QueuesInv, QueueInv
  <2> QED
    BY <1>2, <2>1, <2>2 DEF RunInLoop, tasks, InTasks
<1>3. ASSUME NEW k \in Loops, RunFunctor(k), c = Head(batch[k]) PROVE FALSE
  <2>1. batch[k] \in Seq(Objs) /\ batch[k] # <<>> /\ c = batch[k][1] /\ 1 \in DOMAIN batch[k]
    BY <1>3 DEF RunFunctor, Inv, TypeOK, TaskTypeOK
  <2>2. loopOf[c] = k /\ InTasks(c, k)
    BY <1>3, HeadHeld
  <2>3. ~(base' = "queue" /\ conn' = c)
    BY <1>3, <2>2, RunFunctorFacts DEF Inv, QueuesInv, QueueInv
  <2>4. PICK l \in Loops : InTasks(c, l)'
    BY <2>3 DEF Queued
  <2>5. InTasks(c, l)
    BY <1>3, <2>4, InTasksStep, RunFunctorFacts DEF RunInLoop, MainAt
  <2>6. l = k
    BY <2>2, <2>5 DEF InTasks, Inv, QueuesInv, QueueInv
  <2>7. pending' = pending /\ batch'[k] = Tail(batch[k])
    BY <1>3, RunFunctorFacts DEF Inv, TypeOK, TaskTypeOK
  <2>8. \A i \in DOMAIN pending[k] : pending[k][i] # c
    BY <2>1 DEF Inv, QueuesInv, QueueInv
  <2>9. ASSUME NEW i \in DOMAIN Tail(batch[k]) PROVE Tail(batch[k])[i] # c
    <3>1. i \in Nat \ {0} /\ i + 1 \in DOMAIN batch[k] /\ Tail(batch[k])[i] = batch[k][i + 1]
      BY <2>1
    <3>2. i + 1 # 1
      BY <3>1
    <3> QED
      BY <2>1, <3>1, <3>2 DEF Inv, QueuesInv, QueueInv
  <2> QED
    BY <2>4, <2>6, <2>7, <2>8, <2>9 DEF InTasks
<1> QED
  BY <1>1, <1>2, <1>3

LEMMA QueuedStep ==
    ASSUME Inv, [Next]_vars
    PROVE QueuedInv'
<1> USE DEF QueuedInv
<1>1. QueuedInv
  BY DEF Inv
<1>2. ASSUME NEW o \in Objs, NEW f \in Keys, Makes(o, f) PROVE QueuedInv'
  <2>1. SUFFICES ASSUME NEW c \in Clients, Queued(c)'
                 PROVE /\ ConnectionMap'[fd'[c]] = c
                       /\ \A l \in Loops : c \notin interest'[l] /\ c # cur'[l]
    OBVIOUS
  <2>2. ConnectionMap \in [Keys -> Objs \cup {None}]
    BY DEF Inv, TypeOK, ObjTypeOK
  <2>3. CASE c = o
    <3>1. \A l \in Loops : o \notin interest[l]
      BY <1>2, Fresh, WatchedAreHeld
    <3>2. \A l \in Loops : o # cur[l]
      BY <1>2, <2>3, Names DEF Makes, Inv, CurInv
    <3> QED
      BY <1>2, <2>2, <2>3, <3>1, <3>2, MakesFacts
  <2>4. CASE c # o
    <3>1. Queued(c)
      BY <1>2, <2>1, <2>4, MakesFacts DEF Queued, InTasks
    <3>2. c \in Held /\ c \in Objs /\ Created(c) /\ fd[c] \in Keys
      BY <3>1, WatchedAreHeld, HeldAreCreated, Names
    <3>3. fd[c] # f /\ fd'[c] = fd[c]
      BY <1>2, <3>2, Fresh, MakesFacts
    <3> QED
      BY <1>1, <1>2, <2>2, <3>1, <3>2, <3>3, MakesFacts
  <2> QED
    BY <2>3, <2>4
<1>3. ASSUME UNCHANGED <<loopOf, fd>>, NEW c \in Clients, Queued(c)'
      PROVE /\ ConnectionMap'[fd'[c]] = c
            /\ \A l \in Loops : c \notin interest'[l] /\ c # cur'[l]
  <2>1. Queued(c) /\ ConnectionMap[fd[c]] = c /\ c \in Held
        /\ \A l \in Loops : c \notin interest[l] /\ c # cur[l]
    BY <1>1, <1>3, StillQueued, WatchedAreHeld, Names
  <2>2. ASSUME NEW l \in Loops, RemoveConnection(l) PROVE ConnectionMap'[fd'[c]] = c
    <3>1. cur[l] \in Held \cap Clients
      BY <2>2, HeldBy, Names DEF RemoveConnection, At, Inv, CurInv, TypeOK, LoopTypeOK
    <3>2. fd[c] # fd[cur[l]]
      BY <2>1, <3>1, WatchedAreHeld
    <3>3. fd[c] \in Keys /\ ConnectionMap \in [Keys -> Objs \cup {None}]
      BY <2>1, HeldAreCreated DEF Inv, TypeOK, ObjTypeOK
    <3> QED
      BY <1>3, <2>1, <2>2, <3>2, <3>3 DEF RemoveConnection
  <2>3. ConnectionMap'[fd'[c]] = c
    BY <1>3, <2>1, <2>2, MapCases, MakesFacts DEF Makes, Created
  <2>4. ASSUME NEW l \in Loops PROVE c \notin interest'[l]
    <3>1. interest \in [Loops -> SUBSET Clients]
      BY DEF Inv, TypeOK, EpollTypeOK
    <3>2. CASE RunInLoop
      BY <1>3, <2>1, <2>4, <3>1, <3>2, RunInLoopFacts, StillQueued DEF EpollAdd
    <3>3. ASSUME NEW k \in Loops, RunFunctor(k) PROVE c \notin interest'[l]
      BY <1>3, <2>1, <3>1, <3>3, RunFunctorFacts, StillQueued DEF EpollAdd
    <3>4. ASSUME NEW k \in Loops, DestroyConnection(k) PROVE c \notin interest'[l]
      BY <2>1, <3>1, <3>4 DEF DestroyConnection, ConnectDestroyed, EpollDel
    <3> QED
      BY <2>1, <3>2, <3>3, <3>4, EpollFrame
  <2>5. ASSUME NEW l \in Loops PROVE c # cur'[l]
    <3>1. cur \in [Loops -> Clients \cup {None}] /\ c # None
      BY Names DEF Inv, TypeOK, LoopTypeOK
    <3>2. ASSUME NEW k \in Loops, HandleEvent(k) PROVE c # cur'[l]
      <4>1. PICK o \in Clients : <<o, "in">> \in active[k] /\ cur' = [cur EXCEPT ![k] = o]
        BY <3>2 DEF HandleEvent
      <4>2. o \in interest[k]
        BY <4>1 DEF Inv, ActiveInv
      <4> QED
        BY <2>1, <3>1, <4>1, <4>2
    <3>3. ASSUME NEW k \in Loops, ReadAll(k) PROVE c # cur'[l]
      BY <2>1, <3>1, <3>3 DEF ReadAll
    <3> QED
      BY <2>1, <3>2, <3>3, LoopFrame DEF EpollWait, ReadMessage, ReadEnd, OnMessage,
         RemoveConnection, DestroyConnection, SwapFunctors, FunctorsDone
  <2> QED
    BY <2>3, <2>4, <2>5
<1> QED
  BY <1>2, <1>3, MapCases

(* epoll_ctl(ADD) of a connection that is held, mapped and not yet watched.*)
LEMMA AddWatched ==
    ASSUME Inv, NEW l \in Loops, NEW o \in Held, EpollAdd(l, o), loopOf[o] = l, Queued(o),
           UNCHANGED <<loopOf, fd, ConnectionMap, pc, cur>>
    PROVE WatchedInv'
<1>1. /\ o \in Objs /\ fd[o] \in Keys /\ (o \in Clients <=> fd[o] # BadFd)
      /\ \A c \in Clients \cap Held : fd[c] \in Keys /\ fd[c] # BadFd
  BY HeldAreCreated
<1>2. /\ ChannelMap \in [Loops -> [Keys -> Objs \cup {None}]]
      /\ interest \in [Loops -> SUBSET Clients]
  BY DEF Inv, TypeOK, EpollTypeOK
<1>3. ChannelMap' = [ChannelMap EXCEPT ![l][fd[o]] = o]
  BY DEF EpollAdd
<1>4. ASSUME NEW k \in Loops, NEW c \in interest[k], c # o \/ o \notin Clients
      PROVE ChannelMap'[k][fd[c]] = ChannelMap[k][fd[c]]
  <2>1. fd[c] # fd[o] /\ fd[c] \in Keys
    BY <1>1, <1>4, WatchedAreHeld
  <2> QED
    BY <1>1, <1>2, <1>3, <2>1
<1>5. ASSUME NEW k \in Loops, NEW c \in interest'[k], c \notin interest[k]
      PROVE k = l /\ c = o /\ o \in Clients
  BY <1>1, <1>2, <1>5 DEF EpollAdd
<1>6. o \in Clients => ConnectionMap[fd[o]] = o /\ \A k \in Loops : o \notin interest[k]
  BY DEF Inv, QueuedInv
<1>7. ChannelMap'[l][fd[o]] = o
  BY <1>1, <1>2, <1>3
<1> QED
  BY <1>4, <1>5, <1>6, <1>7 DEF Inv, WatchedInv

LEMMA WatchedStep ==
    ASSUME Inv, [Next]_vars
    PROVE WatchedInv'
<1> USE DEF WatchedInv
<1>1. WatchedInv
  BY DEF Inv
<1>2. ASSUME NEW o \in Objs, NEW f \in Keys, Makes(o, f) PROVE WatchedInv'
  <2>1. ASSUME NEW l \in Loops, NEW c \in interest[l]
        PROVE c \in Objs /\ Created(c) /\ fd[c] # f /\ fd[c] \in Keys
    BY <1>2, WatchedAreHeld, Fresh, HeldAreCreated
  <2>2. ConnectionMap \in [Keys -> Objs \cup {None}]
    BY DEF Inv, TypeOK, ObjTypeOK
  <2> QED
    BY <1>1, <1>2, <2>1, <2>2, MakesFacts
<1>3. CASE RunInLoop
  <2>1. conn \in Held /\ loopOf[conn] \in Loops /\ Queued(conn)
    BY <1>3, ConnHeld DEF Queued, RunInLoop, MainAt
  <2>2. CASE EpollAdd(loopOf[conn], conn)
    BY <1>3, <2>1, <2>2, AddWatched, RunInLoopFacts
  <2>3. CASE UNCHANGED <<ChannelMap, interest>>
    BY <1>1, <1>3, <2>3, RunInLoopFacts
  <2> QED
    BY <1>3, <2>2, <2>3, RunInLoopFacts
<1>4. ASSUME NEW l \in Loops, RunFunctor(l) PROVE WatchedInv'
  BY <1>4, AddWatched, HeadHeld, RunFunctorFacts DEF Queued
<1>5. ASSUME NEW l \in Loops, DestroyConnection(l) PROVE WatchedInv'
  <2>1. pc[l] = "destroy" /\ pc' = [pc EXCEPT ![l] = "reading"]
        /\ UNCHANGED <<loopOf, fd, ConnectionMap, cur>>
    BY <1>5 DEF DestroyConnection, At, Goto, mainVars, connVars
  <2>2. cur[l] \in Held \cap Clients /\ loopOf[cur[l]] = l /\ fd[cur[l]] \in Keys
    BY <2>1, HeldBy, HeldAreCreated, Names DEF Inv, CurInv, TypeOK, LoopTypeOK
  <2>3. /\ ChannelMap' = [ChannelMap EXCEPT ![l][fd[cur[l]]] = None]
        /\ interest' = [interest EXCEPT ![l] = @ \ {cur[l]}]
    BY <1>5, <2>2 DEF DestroyConnection, ConnectDestroyed, EpollDel
  <2>4. /\ ChannelMap \in [Loops -> [Keys -> Objs \cup {None}]]
        /\ interest \in [Loops -> SUBSET Clients]
        /\ pc \in [Loops -> {"wait", "dispatch", "reading", "message", "remove", "destroy",
                             "functors"}]
    BY DEF Inv, TypeOK, EpollTypeOK, LoopTypeOK
  <2>5. ASSUME NEW k \in Loops, NEW c \in interest'[k]
        PROVE /\ c \in interest[k] /\ (c # cur[l] \/ k # l)
              /\ fd[c] \in Keys /\ (k = l => fd[c] # fd[cur[l]])
    BY <2>2, <2>3, <2>4, <2>5, WatchedAreHeld, HeldAreCreated
  <2>6. ASSUME NEW k \in Loops, NEW c \in interest'[k]
        PROVE c \in interest[k] /\ ChannelMap'[k][fd[c]] = ChannelMap[k][fd[c]]
    BY <2>2, <2>3, <2>4, <2>5, <2>6
  <2>7. ASSUME NEW k \in Loops, NEW c \in interest'[k]
        PROVE ConnectionMap[fd[c]] = c \/ (pc'[k] = "destroy" /\ cur[k] = c)
    BY <1>1, <2>1, <2>4, <2>5, <2>6, <2>7
  <2> QED
    BY <1>1, <2>1, <2>6, <2>7
<1>6. ASSUME NEW l \in Loops, RemoveConnection(l), UNCHANGED <<ChannelMap, interest, loopOf, fd>>
      PROVE WatchedInv'
  <2>1. pc[l] = "remove" /\ pc' = [pc EXCEPT ![l] = "destroy"] /\ cur' = cur
        /\ ConnectionMap' = [ConnectionMap EXCEPT ![fd[cur[l]]] = None]
    BY <1>6 DEF RemoveConnection, At, Goto
  <2>2. cur[l] \in Held \cap Clients /\ loopOf[cur[l]] = l
    BY <2>1, HeldBy, Names DEF Inv, CurInv, TypeOK, LoopTypeOK
  <2>3. /\ ConnectionMap \in [Keys -> Objs \cup {None}]
        /\ pc \in [Loops -> {"wait", "dispatch", "reading", "message", "remove", "destroy",
                             "functors"}]
    BY DEF Inv, TypeOK, ObjTypeOK, LoopTypeOK
  <2>4. ASSUME NEW k \in Loops, NEW c \in interest[k]
        PROVE ConnectionMap'[fd[c]] = c \/ (pc'[k] = "destroy" /\ cur[k] = c)
    <3>1. CASE c = cur[l]
      BY <1>1, <2>1, <2>2, <2>3, <2>4, <3>1
    <3>2. CASE c # cur[l]
      <4>1. fd[c] # fd[cur[l]] /\ fd[c] \in Keys
        BY <2>2, <2>4, <3>2, WatchedAreHeld, HeldAreCreated
      <4> QED
        BY <1>1, <2>1, <2>3, <2>4, <4>1
    <3> QED
      BY <3>1, <3>2
  <2> QED
    BY <1>1, <1>6, <2>1, <2>4
<1>7. CASE UNCHANGED <<ChannelMap, interest, loopOf, fd, ConnectionMap>>
  <2>1. ASSUME NEW l \in Loops,
               \/ EpollWait(l) \/ HandleEvent(l) \/ ReadMessage(l) \/ ReadEnd(l) \/ ReadAll(l)
               \/ OnMessage(l) \/ RemoveConnection(l) \/ SwapFunctors(l) \/ FunctorsDone(l)
        PROVE /\ pc[l] # "destroy"
              /\ \A k \in Loops \ {l} : pc'[k] = pc[k] /\ cur'[k] = cur[k]
    <3>1. pc \in [Loops -> {"wait", "dispatch", "reading", "message", "remove", "destroy",
                           "functors"}] /\ cur \in [Loops -> Clients \cup {None}]
      BY DEF Inv, TypeOK, LoopTypeOK
    <3>2. pc[l] # "destroy"
      BY <2>1 DEF EpollWait, HandleEvent, ReadMessage, ReadEnd, ReadAll, OnMessage,
         RemoveConnection, SwapFunctors, FunctorsDone, At, Reading
    <3>3. /\ \E p : pc' = [pc EXCEPT ![l] = p]
          /\ \E q : cur' = [cur EXCEPT ![l] = q] \/ cur' = cur
      BY <2>1 DEF EpollWait, HandleEvent, ReadMessage, ReadEnd, ReadAll, OnMessage,
         RemoveConnection, SwapFunctors, FunctorsDone, Goto
    <3> QED
      BY <3>1, <3>2, <3>3
  <2>2. ASSUME NEW k \in Loops, pc[k] = "destroy"
        PROVE (\E l \in Loops : DestroyConnection(l)) \/ (pc'[k] = "destroy" /\ cur'[k] = cur[k])
    BY <2>1, <2>2, LoopFrame
  <2> QED
    BY <1>1, <1>5, <1>7, <2>2
<1>8. CASE \E o \in Objs, f \in Keys : Makes(o, f)
  BY <1>2, <1>8
<1>9. CASE \E l \in Loops : RemoveConnection(l)
  <2>1. PICK l \in Loops : RemoveConnection(l)
    BY <1>9
  <2> QED
    BY <1>6, <2>1 DEF RemoveConnection, epollVars, mainVars, connVars
<1> QED
  BY <1>3, <1>4, <1>5, <1>7, <1>8, <1>9, MapCases, EpollFrame

LEMMA ActiveStep ==
    ASSUME Inv, [Next]_vars
    PROVE ActiveInv'
<1> USE DEF ActiveInv
<1>1. ActiveInv /\ LoopTypeOK
  BY DEF Inv, TypeOK
<1>2. interest \in [Loops -> SUBSET Clients]
  BY DEF Inv, TypeOK, EpollTypeOK
<1>3. ASSUME NEW k \in Loops, EpollWait(k) PROVE ActiveInv'
  <2>1. /\ pc[k] = "wait" /\ cur' = cur /\ interest' = interest
        /\ active' = [active EXCEPT ![k] =
              {<<ChannelMap[k][fd[c]], IF sock[c].err THEN "err" ELSE "in">> : c \in Reported(k)}]
    BY <1>3 DEF EpollWait, At
  <2>2. cur[k] = None
    BY <2>1 DEF Inv, CurInv
  <2>3. \A c \in Reported(k) : c \in interest[k] /\ ChannelMap[k][fd[c]] = c /\ c # None
    BY <1>2, Names DEF Reported, Inv, WatchedInv
  <2>4. \A a \in active'[k] : \E c \in Reported(k) :
           a = <<c, IF sock[c].err THEN "err" ELSE "in">>
    BY <1>1, <2>1, <2>3 DEF LoopTypeOK
  <2>5. /\ \A a \in active'[k] : a[1] \in interest[k] /\ a[1] # cur[k]
        /\ \A a, b \in active'[k] : a[1] = b[1] => a = b
    BY <2>2, <2>3, <2>4
  <2>6. \A l \in Loops \ {k} : active'[l] = active[l]
    BY <1>1, <2>1 DEF LoopTypeOK
  <2> QED
    BY <1>1, <2>1, <2>5, <2>6
<1>4. ASSUME NEW k \in Loops, HandleError(k) PROVE ActiveInv'
  BY <1>1, <1>4 DEF HandleError, epollVars, LoopTypeOK
<1>5. ASSUME NEW k \in Loops, HandleEvent(k) PROVE ActiveInv'
  <2>1. PICK o \in Clients :
           /\ <<o, "in">> \in active[k]
           /\ active' = [active EXCEPT ![k] = @ \ {<<o, "in">>}]
           /\ cur' = [cur EXCEPT ![k] = o]
    BY <1>5 DEF HandleEvent
  <2>2. \A a \in active'[k] : a \in active[k] /\ a[1] # o
    BY <1>1, <2>1 DEF LoopTypeOK
  <2> QED
    BY <1>1, <1>5, <2>1, <2>2 DEF HandleEvent, epollVars, LoopTypeOK
<1>6. CASE UNCHANGED active
  <2>1. ASSUME NEW l \in Loops, NEW a \in active[l] PROVE a[1] \in interest'[l]
    <3>1. a[1] \in interest[l] /\ a[1] # cur[l]
      BY <1>1
    <3>2. CASE RunInLoop
      BY <1>2, <3>1, <3>2, RunInLoopFacts DEF EpollAdd
    <3>3. ASSUME NEW k \in Loops, RunFunctor(k) PROVE a[1] \in interest'[l]
      BY <1>2, <3>1, <3>3, RunFunctorFacts DEF EpollAdd
    <3>4. ASSUME NEW k \in Loops, DestroyConnection(k) PROVE a[1] \in interest'[l]
      <4>1. interest' = [interest EXCEPT ![k] = @ \ {cur[k]}]
        BY <3>4 DEF DestroyConnection, ConnectDestroyed, EpollDel, At, Inv, CurInv
      <4> QED
        BY <1>2, <3>1, <4>1
    <3> QED
      BY <3>1, <3>2, <3>3, <3>4, EpollFrame
  <2>2. ASSUME NEW l \in Loops, NEW a \in active[l] PROVE a[1] # cur'[l]
    <3>1. a[1] \in Clients /\ a[1] # None /\ a[1] # cur[l]
      BY <1>1, <1>2, Names
    <3>2. \A k \in Loops : cur'[k] \in {cur[k], None} \/ \E j \in Loops : HandleEvent(j)
      BY <1>1, LoopFrame DEF EpollWait, ReadMessage, ReadEnd, ReadAll, OnMessage,
         RemoveConnection, DestroyConnection, SwapFunctors, FunctorsDone, LoopTypeOK
    <3>3. ASSUME NEW j \in Loops, HandleEvent(j) PROVE FALSE
      BY <1>1, <1>6, <3>3 DEF HandleEvent, LoopTypeOK
    <3> QED
      BY <3>1, <3>2, <3>3
  <2> QED
    BY <1>1, <1>6, <2>1, <2>2
<1> QED
  BY <1>3, <1>4, <1>5, <1>6, ActiveFrame

------------------------------------------------------------------------------
(* The theorems.                                                           *)

LEMMA InvStep == Inv /\ [Next]_vars => Inv'
<1> SUFFICES ASSUME Inv, [Next]_vars PROVE Inv'
  OBVIOUS
<1>1. TypeOK'
  BY MainTyped, ObjTyped, TasksTyped, LoopTyped, EpollTyped, ClientTyped DEF TypeOK
<1> QED
  BY <1>1, ClientTyped, CreatedStep, ConnStep, MapStep, CurStep, FdsStep, QueuesStep,
     QueuedStep, WatchedStep, ActiveStep DEF Inv

THEOREM Invariance == Spec => []Inv
BY InvInit, InvStep, PTL DEF Spec

(* Every variable keeps its type, for any instance of the server.          *)
THEOREM TypeCorrect == Spec => []TypeOK
<1>1. Inv => TypeOK
  BY DEF Inv
<1> QED
  BY <1>1, Invariance, PTL

(* Epoll.cc:90-98: whatever epoll reports is found, and everything in a    *)
(* loop's epoll set or in the list it dispatches is a connection of that   *)
(* loop that still exists.                                                 *)
THEOREM DispatchIsSafe == Spec => []DispatchSafe
<1>1. Inv => DispatchSafe
  <2> SUFFICES ASSUME Inv, NEW l \in Loops
               PROVE /\ \A c \in interest[l] : ChannelMap[l][fd[c]] = c
                     /\ \A o \in interest[l] \cup {a[1] : a \in active[l]} :
                           o \in Held /\ loopOf[o] = l
    BY DEF DispatchSafe
  <2>1. \A o \in {a[1] : a \in active[l]} : o \in interest[l]
    BY DEF Inv, ActiveInv
  <2> QED
    BY <2>1, WatchedAreHeld DEF Inv, WatchedInv
<1> QED
  BY <1>1, Invariance, PTL

(* TcpServer.cc:54, 60-66: what is under epoll is in the ConnectionMap     *)
(* under its own descriptor, unless its loop is taking it down.            *)
THEOREM WatchedAreOwned == Spec => []WatchedIsOwned
<1>1. Inv => WatchedIsOwned
  BY DEF Inv, WatchedInv, WatchedIsOwned
<1> QED
  BY <1>1, Invariance, PTL

(* Epoll.h:13: only the thread of a loop changes its Epoll.                *)
THEOREM EpollIsConfined == Spec => EpollConfined
<1> DEFINE Confined == \A l \in Loops :
       <<ChannelMap[l], interest[l]>>' # <<ChannelMap[l], interest[l]>>
         => \/ pc[l] \in {"functors", "destroy"}
            \/ l = BaseLoop /\ base = "queue"
<1>1. Inv /\ [Next]_vars => [Confined]_vars
  <2> SUFFICES ASSUME Inv, [Next]_vars PROVE Confined
    OBVIOUS
  <2>1. /\ ChannelMap \in [Loops -> [Keys -> Objs \cup {None}]]
        /\ interest \in [Loops -> SUBSET Clients]
    BY DEF Inv, TypeOK, EpollTypeOK
  <2>2. CASE RunInLoop
    BY <2>1, <2>2, RunInLoopFacts DEF EpollAdd
  <2>3. ASSUME NEW k \in Loops, RunFunctor(k) PROVE Confined
    BY <2>1, <2>3, RunFunctorFacts DEF EpollAdd
  <2>4. ASSUME NEW k \in Loops, DestroyConnection(k) PROVE Confined
    <3>1. pc[k] = "destroy" /\ loopOf[cur[k]] = k
      BY <2>4 DEF DestroyConnection, At, Inv, CurInv
    <3> QED
      BY <2>1, <2>4, <3>1 DEF DestroyConnection, ConnectDestroyed, EpollDel
  <2>5. CASE UNCHANGED <<ChannelMap, interest>>
    BY <2>5
  <2> QED
    BY <2>2, <2>3, <2>4, <2>5, EpollFrame
<1> QED
  BY <1>1, Invariance, PTL DEF Spec, EpollConfined

(* The loops before next_ are one connection ahead of the others.          *)
RobinInv ==
    \E n \in Nat : \A l \in 1 .. NumThreads :
        /\ IsFiniteSet(Assigned(l))
        /\ Cardinality(Assigned(l)) = n + (IF l <= next_ THEN 1 ELSE 0)

LEMMA RobinInit == Init => RobinInv
<1> SUFFICES ASSUME Init PROVE RobinInv
  OBVIOUS
<1>1. \A l \in 1 .. NumThreads : Assigned(l) = {}
  BY NumThreadsAssumption DEF Init, Assigned, NoLoop
<1>2. next_ = 0
  BY DEF Init
<1>3. \A l \in 1 .. NumThreads :
          /\ IsFiniteSet(Assigned(l))
          /\ Cardinality(Assigned(l)) = 0 + (IF l <= next_ THEN 1 ELSE 0)
  BY <1>1, <1>2, FS_EmptySet, NumThreadsAssumption
<1> QED
  BY <1>3 DEF RobinInv

LEMMA RobinStep == Inv /\ RobinInv /\ [Next]_vars => RobinInv'
<1> SUFFICES ASSUME Inv, RobinInv, [Next]_vars PROVE RobinInv'
  OBVIOUS
<1>1. PICK n \in Nat : \A l \in 1 .. NumThreads :
         /\ IsFiniteSet(Assigned(l))
         /\ Cardinality(Assigned(l)) = n + (IF l <= next_ THEN 1 ELSE 0)
  BY DEF RobinInv
<1>2. CASE UNCHANGED <<loopOf, next_>>
  BY <1>1, <1>2 DEF RobinInv, Assigned
<1>3. ASSUME NEW o \in Objs, NEW f \in Keys, Makes(o, f), NumThreads # 0 PROVE RobinInv'
  <2>1. /\ poolSize = NumThreads /\ next_ \in 0 .. NumThreads - 1
        /\ next_' = IF next_ + 1 >= NumThreads THEN 0 ELSE next_ + 1
        /\ GetNextLoop = next_ + 1
    BY <1>3, NumThreadsAssumption
    DEF Makes, NewConnection, Inv, TypeOK, MainTypeOK, GetNextLoop
  <2>2. PICK k \in 1 .. NumThreads : k = next_ + 1
    BY <2>1, NumThreadsAssumption
  <2>3. loopOf' = [loopOf EXCEPT ![o] = k] /\ ~Created(o)
    BY <1>3, <2>1, <2>2, MakesFacts DEF Makes
  <2>4. o \notin Assigned(k) /\ Assigned(k)' = Assigned(k) \cup {o}
    BY <2>3, NumThreadsAssumption DEF Assigned, Created, NoLoop, Inv, TypeOK, ObjTypeOK
  <2>5. \A l \in 1 .. NumThreads : l # k => Assigned(l)' = Assigned(l)
    BY <2>3, NumThreadsAssumption DEF Assigned, Created, NoLoop, Inv, TypeOK, ObjTypeOK
  <2>6. IsFiniteSet(Assigned(k)') /\ Cardinality(Assigned(k)') = n + 1
    <3>1. IsFiniteSet(Assigned(k)) /\ Cardinality(Assigned(k)) = n
      BY <1>1, <2>1, <2>2
    <3> QED
      BY <2>4, <3>1, FS_AddElement
  <2>7. CASE next_ + 1 < NumThreads
    <3>1. next_' = k
      BY <2>1, <2>2, <2>7, NumThreadsAssumption
    <3>2. \A l \in 1 .. NumThreads :
             /\ IsFiniteSet(Assigned(l)')
             /\ Cardinality(Assigned(l)') = n + (IF l <= next_' THEN 1 ELSE 0)
      BY <1>1, <2>1, <2>2, <2>5, <2>6, <3>1, NumThreadsAssumption
    <3> QED
      BY <3>2 DEF RobinInv
  <2>8. CASE next_ + 1 >= NumThreads
    <3>0. PICK m \in Nat : m = n + 1
      OBVIOUS
    <3>1. next_' = 0 /\ k = NumThreads
      BY <2>1, <2>2, <2>8, NumThreadsAssumption
    <3>2. \A l \in 1 .. NumThreads :
             /\ IsFiniteSet(Assigned(l)')
             /\ Cardinality(Assigned(l)') = m + (IF l <= next_' THEN 1 ELSE 0)
      BY <1>1, <2>1, <2>2, <2>5, <2>6, <3>0, <3>1, NumThreadsAssumption
    <3> QED
      BY <3>2 DEF RobinInv
  <2> QED
    BY <2>1, <2>7, <2>8, NumThreadsAssumption
<1>4. CASE NumThreads = 0
  BY <1>4 DEF RobinInv
<1> QED
  BY <1>2, <1>3, <1>4, MapCases

(* README.md:16, EventLoopThreadPool.cc:36-49: the numbers of connections  *)
(* given to any two loops differ by one at most.                           *)
THEOREM RobinIsFair == Spec => []RoundRobin
<1>1. RobinInv => RoundRobin
  <2> SUFFICES ASSUME RobinInv, NEW k \in 1 .. NumThreads, NEW l \in 1 .. NumThreads
               PROVE Cardinality(Assigned(k)) <= Cardinality(Assigned(l)) + 1
    BY DEF RoundRobin
  <2>1. PICK n \in Nat : \A m \in 1 .. NumThreads :
           Cardinality(Assigned(m)) = n + (IF m <= next_ THEN 1 ELSE 0)
    BY DEF RobinInv
  <2> QED
    BY <2>1
<1> QED
  BY <1>1, RobinInit, RobinStep, Invariance, PTL DEF Spec
==============================================================================
