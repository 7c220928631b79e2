------------------------------ MODULE TcpServer ------------------------------
(***************************************************************************)
(* net/TcpServer.cc and what it is made of: the start of the server, the   *)
(* acceptor and the round robin of the main thread, the TcpConnection      *)
(* objects shared through shared_ptr by the main thread and the IO loops,  *)
(* the epoll set and the ChannelMap of each loop, and the application      *)
(* callback of server.cc.                                                  *)
(* The hand-over of a functor to a loop is the one that EventLoop proves   *)
(* to implement TaskQueue.                                                 *)
(*                                                                         *)
(* A connection object is named after the client it serves; an object made *)
(* by a failed accept is an element of Failed.  An object exists as long   *)
(* as somebody holds a shared_ptr to it, and its destructor closes its fd, *)
(* so both are derived (Held, OpenFds).  Each client connects once and     *)
(* sends at most MaxSends messages.                                        *)
(***************************************************************************)
EXTENDS Integers, Sequences, FiniteSets

CONSTANTS
    NumThreads,         \* numThread of the constructor
    Clients,
    Failed,             \* objects for the accepts that fail: bounds their number
    Fds,                \* the descriptors the process may still open
    MaxSends

ASSUME NumThreadsAssumption == NumThreads \in Nat
ASSUME FdsAssumption == Fds \subseteq Nat \ {0} /\ IsFiniteSet(Fds)
ASSUME ObjsAssumption == Clients \cap Failed = {}
ASSUME SendsAssumption == MaxSends \in Nat

Objs == Clients \cup Failed
None == "none"                      \* a null pointer
BaseLoop == 0                       \* the loop of the main thread
Loops == IF NumThreads = 0 THEN {BaseLoop} ELSE 1 .. NumThreads
NoLoop == -1                        \* loopOf and fd before the object exists
NoFd == 0
BadFd == -1                         \* what a failed accept returns
Keys == Fds \cup {BadFd}

ASSUME NoneAssumption == None \notin Objs

VARIABLES
    base,               \* the main thread: starting, looping, in handleRead
    address,            \* where the listening socket is to be found
    acceptable,         \* its edge in the epoll set of the main loop
    poolSize,           \* loops_.size()
    conn,               \* its local connPtr in newConnection
    next_, loopOf, fd,  \* round robin; the loop_ and connfd_ of an object
    ConnectionMap,
    pending, batch,     \* queued connectEstablished functors of each loop
    pc, cur,            \* where an IO loop is, and in which connection
    active,             \* its ActiveChannels_, with the revents of each
    ChannelMap,         \* fd -> Channel* of each Epoll
    interest, ready,    \* the kernel's epoll sets, and the new edges in them
    phase, sock,        \* the clients and their sockets
    process             \* running, or killed by a signal

connVars   == <<conn, next_, loopOf, fd>>
listenVars == <<address, acceptable, poolSize>>
mainVars   == <<base, listenVars, connVars>>
tasks      == <<pending, batch>>
loopVars   == <<pc, cur, active>>
epollVars  == <<ChannelMap, interest, ready>>
clientVars == <<phase, sock>>
vars == <<mainVars, ConnectionMap, tasks, loopVars, epollVars, clientVars,
          process>>

------------------------------------------------------------------------------
(* References, descriptors, readiness.                                     *)

ElementsOf(s) == {s[i] : i \in DOMAIN s}

(* Every shared_ptr to a connection: the map, the local of newConnection,  *)
(* the functors, and shared_from_this() in handleRead and handleClose.     *)
Held ==
    ( {conn}
      \cup {ConnectionMap[f] : f \in Keys}
      \cup (UNION {ElementsOf(pending[l]) \cup ElementsOf(batch[l]) : l \in Loops})
      \cup {cur[l] : l \in {k \in Loops : pc[k] \in {"message", "remove", "destroy"}}}
    ) \ {None}

OpenFds == {fd[o] : o \in Held} \ {BadFd}
FreeFds == Fds \ OpenFds

Watched == UNION {interest[l] : l \in Loops}

Running == process = "running"

(* A socket poll reports: input, end of file or a pending error.           *)
Readable(c) == sock[c].inbox > 0 \/ sock[c].fin \/ sock[c].rst

(* Epoll_wait reports an edge if the socket is still readable.             *)
Reported(l) == {c \in interest[l] \cap ready : Readable(c)}

ListenTypeOK == address \in {"none", "given", "other"} /\ acceptable \in BOOLEAN

MainTypeOK ==
    /\ base \in {"construct", "listen", "pool", "wait", "accept", "queue", "release"}
    /\ poolSize \in 0 .. NumThreads
    /\ base \in {"wait", "accept", "queue", "release"} => poolSize = NumThreads
    /\ next_ \in 0 .. NumThreads /\ (next_ # 0 => next_ < NumThreads)

ObjTypeOK ==
    /\ conn \in Objs \cup {None}
    /\ loopOf \in [Objs -> Loops \cup {NoLoop}]
    /\ fd \in [Objs -> Keys \cup {NoFd}]
    /\ ConnectionMap \in [Keys -> Objs \cup {None}]

TaskTypeOK ==
    pending \in [Loops -> Seq(Objs)] /\ batch \in [Loops -> Seq(Objs)]

LoopTypeOK ==
    /\ pc \in [Loops -> {"wait", "dispatch", "reading", "message", "remove",
                         "destroy", "functors"}]
    /\ cur \in [Loops -> Clients \cup {None}]
    /\ active \in [Loops -> SUBSET (Objs \X {"in", "err"})]

EpollTypeOK ==
    /\ ChannelMap \in [Loops -> [Keys -> Objs \cup {None}]]
    /\ interest \in [Loops -> SUBSET Clients]
    /\ ready \subseteq Clients

Sockets == [inbox : 0 .. MaxSends, sent : 0 .. MaxSends,
            fin : BOOLEAN, rst : BOOLEAN, err : BOOLEAN]

ClientTypeOK ==
    /\ phase \in [Clients -> {"away", "backlog", "accepted"}]
    /\ sock \in [Clients -> Sockets]
    /\ process \in {"running", "SIGSEGV", "SIGPIPE"}

TypeOK ==
    /\ ListenTypeOK /\ MainTypeOK /\ ObjTypeOK /\ TaskTypeOK
    /\ LoopTypeOK /\ EpollTypeOK /\ ClientTypeOK

(* main() of server.cc, before it constructs its server.                   *)
Init ==
    /\ base = "construct" /\ address = "none"
    /\ acceptable = FALSE /\ poolSize = 0
    /\ conn = None /\ next_ = 0
    /\ loopOf = [o \in Objs |-> NoLoop] /\ fd = [o \in Objs |-> NoFd]
    /\ ConnectionMap = [f \in Keys |-> None]
    /\ pending = [l \in Loops |-> <<>>] /\ batch = [l \in Loops |-> <<>>]
    /\ pc = [l \in Loops |-> "wait"] /\ cur = [l \in Loops |-> None]
    /\ active = [l \in Loops |-> {}]
    /\ ChannelMap = [l \in Loops |-> [f \in Keys |-> None]]
    /\ interest = [l \in Loops |-> {}] /\ ready = {}
    /\ phase = [c \in Clients |-> "away"]
    /\ sock = [c \in Clients |-> [inbox |-> 0, sent |-> 0, fin |-> FALSE,
                                  rst |-> FALSE, err |-> FALSE]]
    /\ process = "running"

------------------------------------------------------------------------------
(* The clients and the kernel.  Every event on a watched socket is an edge.*)

CanAct(c) == Running /\ phase[c] # "away" /\ ~sock[c].rst

Edge(c) == ready' = IF c \in Watched THEN ready \cup {c} ELSE ready

(* Clients know the port that the server was given.                        *)
Connect(c) ==
    /\ Running
    /\ address = "given" /\ base \notin {"construct", "listen"}
    /\ phase[c] = "away"
    /\ phase' = [phase EXCEPT ![c] = "backlog"]
    /\ acceptable' = TRUE
    /\ UNCHANGED <<base, address, poolSize, connVars, ConnectionMap, tasks,
                   loopVars, epollVars, sock, process>>

Send(c) ==
    /\ CanAct(c)
    /\ ~sock[c].fin
    /\ sock[c].sent < MaxSends
    /\ sock' = [sock EXCEPT ![c].inbox = @ + 1, ![c].sent = @ + 1]
    /\ Edge(c)
    /\ UNCHANGED <<mainVars, ConnectionMap, tasks, loopVars, ChannelMap,
                   interest, phase, process>>

Shutdown(c) ==
    /\ CanAct(c)
    /\ ~sock[c].fin
    /\ sock' = [sock EXCEPT ![c].fin = TRUE]
    /\ Edge(c)
    /\ UNCHANGED <<mainVars, ConnectionMap, tasks, loopVars, ChannelMap,
                   interest, phase, process>>

(* The input received before a reset stays readable.                       *)
Reset(c) ==
    /\ CanAct(c)
    /\ sock' = [sock EXCEPT ![c].rst = TRUE, ![c].err = TRUE]
    /\ Edge(c)
    /\ UNCHANGED <<mainVars, ConnectionMap, tasks, loopVars, ChannelMap,
                   interest, phase, process>>

------------------------------------------------------------------------------
(* connectEstablished and connectDestroyed, in the loop of the connection. *)

(* ChannelMap[fd] is set before epoll_ctl, which refuses a bad descriptor  *)
(* and reports a socket that is already readable as an edge.               *)
EpollAdd(l, o) ==
    /\ ChannelMap' = [ChannelMap EXCEPT ![l][fd[o]] = o]
    /\ IF fd[o] = BadFd
         THEN UNCHANGED <<interest, ready>>
         ELSE /\ interest' = [interest EXCEPT ![l] = @ \cup {o}]
              /\ ready' = IF Readable(o) THEN ready \cup {o} ELSE ready

X_EpollDelForgetsKernel(l, o) ==
    /\ ChannelMap' = [ChannelMap EXCEPT ![l][fd[o]] = None]
    /\ UNCHANGED <<interest, ready>>

EpollDel(l, o) ==
    /\ interest' = [interest EXCEPT ![l] = @ \ {o}]
    /\ ready' = ready \ {o}
    /\ ChannelMap' = [ChannelMap EXCEPT ![l][fd[o]] = None]

ConnectEstablished(o) == EpollAdd(loopOf[o], o)
ConnectDestroyed(o) == EpollDel(loopOf[o], o)

------------------------------------------------------------------------------
(* The main thread starts the server.                                      *)

MainAt(where) == base = where /\ Running

OthersUnchanged ==
    UNCHANGED <<connVars, ConnectionMap, tasks, loopVars, epollVars,
                clientVars, process>>

(* Socket::bind(port); a failure is only logged.                           *)
BindPort == address' \in {"given", "none"}

(* Socket::bind(ip, port) fills in a sockaddr_in and returns.              *)
BindAddress == address' = "none"

(* The constructors of the Acceptor.                                       *)
ConstructForPort ==
    /\ MainAt("construct")
    /\ BindPort
    /\ base' = "listen"
    /\ UNCHANGED <<acceptable, poolSize>> /\ OthersUnchanged

ConstructForAddress ==
    /\ MainAt("construct")
    /\ BindAddress
    /\ base' = "listen"
    /\ UNCHANGED <<acceptable, poolSize>> /\ OthersUnchanged

(* ::listen gives a socket without an address one of the kernel's choice;  *)
(* a failure is only logged.                                               *)
SocketListen ==
    \/ address' = IF address = "none" THEN "other" ELSE address
    \/ address' = "none"

(* Acceptor::listen, with the socket in the epoll set of the main loop     *)
(* beforehand.                                                             *)
Listen ==
    /\ MainAt("listen")
    /\ SocketListen
    /\ base' = "pool"
    /\ UNCHANGED <<acceptable, poolSize>> /\ OthersUnchanged

(* The pool starts its loops one by one; EventLoopThread has the details.  *)
StartLoop ==
    /\ MainAt("pool")
    /\ poolSize < NumThreads
    /\ poolSize' = poolSize + 1
    /\ UNCHANGED <<base, address, acceptable>> /\ OthersUnchanged

EnterLoop ==
    /\ MainAt("pool")
    /\ poolSize = NumThreads
    /\ base' = "wait"
    /\ UNCHANGED <<address, acceptable, poolSize>> /\ OthersUnchanged

------------------------------------------------------------------------------
(* The main thread accepts.                                                *)

(* An edge of the listening socket: Acceptor::handleRead begins.           *)
AcceptorReadable ==
    /\ MainAt("wait")
    /\ acceptable /\ \E c \in Clients : phase[c] = "backlog"
    /\ base' = "accept"
    /\ acceptable' = FALSE
    /\ UNCHANGED <<address, poolSize>> /\ OthersUnchanged

X_GetNextLoopStuckAtFirst ==
    IF poolSize = 0 THEN BaseLoop ELSE IF next_ = 0 THEN 1 ELSE next_

(* loops_[next_], the loops of the pool being 1 .. NumThreads.             *)
GetNextLoop == IF poolSize = 0 THEN BaseLoop ELSE next_ + 1

(* TcpConnection::TcpConnection.  inet_ntop may write through peerIp_,     *)
(* which nothing has initialised, and the log reads through it: that may   *)
(* kill the process, and what a dead one would have done next is of no     *)
(* account.                                                                *)
ConstructConnection(o, connfd, loop) ==
    /\ loopOf' = [loopOf EXCEPT ![o] = loop]
    /\ fd' = [fd EXCEPT ![o] = connfd]
    /\ process' \in {process, "SIGSEGV"}

X_NewConnectionForgetsWrap(o, connfd) ==
    /\ ConstructConnection(o, connfd, GetNextLoop)
    /\ next_' = IF next_ + 1 > poolSize THEN 0 ELSE next_ + 1
    /\ ConnectionMap' = [ConnectionMap EXCEPT ![connfd] = o]
    /\ conn' = o
    /\ base' = "queue"
    /\ UNCHANGED <<listenVars, tasks, loopVars, epollVars>>

(* newConnection up to its runInLoop: the object, the map, the callbacks.  *)
NewConnection(o, connfd) ==
    /\ ConstructConnection(o, connfd, GetNextLoop)
    /\ next_' = IF next_ + 1 >= poolSize THEN 0 ELSE next_ + 1
    /\ ConnectionMap' = [ConnectionMap EXCEPT ![connfd] = o]
    /\ conn' = o
    /\ base' = "queue"
    /\ UNCHANGED <<listenVars, tasks, loopVars, epollVars>>

(* accept4 takes the lowest free descriptor.  It fails if there is none,   *)
(* and may fail for other reasons at any time.                             *)
SocketAccept(connfd) ==
    \/ connfd = BadFd
    \/ connfd \in FreeFds /\ \A f \in FreeFds : connfd <= f

(* The listening socket blocks: without a client in the backlog the main   *)
(* thread sleeps here.                                                     *)
Accept(c) ==
    /\ MainAt("accept")
    /\ phase[c] = "backlog"
    /\ \E f \in Fds : SocketAccept(f) /\ NewConnection(c, f)
    /\ phase' = [phase EXCEPT ![c] = "accepted"]
    /\ UNCHANGED sock

(* Whatever the error is, inet_ntop, given one byte for an address, has    *)
(* replaced errno by ENOSPC before it is looked at, so that even EAGAIN and*)
(* EINTR are logged as an error and -1 is handed to the callback as a      *)
(* descriptor.                                                             *)
AcceptFails(o) ==
    /\ MainAt("accept")
    /\ SocketAccept(BadFd)
    /\ loopOf[o] = NoLoop
    /\ NewConnection(o, BadFd)
    /\ UNCHANGED clientVars

X_RunInLoopInMainThread ==
    /\ MainAt("queue")
    /\ ConnectEstablished(conn)
    /\ base' = "release"
    /\ UNCHANGED <<listenVars, connVars, ConnectionMap, tasks, loopVars,
                   clientVars, process>>

(* ioLoop->runInLoop(connectEstablished): at once in the main loop, queued *)
(* for another.                                                            *)
RunInLoop ==
    /\ MainAt("queue")
    /\ IF loopOf[conn] = BaseLoop
         THEN ConnectEstablished(conn) /\ UNCHANGED tasks
         ELSE /\ pending' = [pending EXCEPT ![loopOf[conn]] = Append(@, conn)]
              /\ UNCHANGED <<batch, epollVars>>
    /\ base' = "release"
    /\ UNCHANGED <<listenVars, connVars, ConnectionMap, loopVars,
                   clientVars, process>>

X_ReleaseAcceptsOne ==
    /\ MainAt("release")
    /\ conn' = None
    /\ base' = "wait"
    /\ UNCHANGED <<listenVars, next_, loopOf, fd, ConnectionMap, tasks,
                   loopVars, epollVars, clientVars, process>>

(* newConnection returns, its connPtr goes; handleRead calls accept again. *)
Release ==
    /\ MainAt("release")
    /\ conn' = None
    /\ base' = "accept"
    /\ UNCHANGED <<listenVars, next_, loopOf, fd, ConnectionMap, tasks,
                   loopVars, epollVars, clientVars, process>>

------------------------------------------------------------------------------
(* The thread of an IO loop.  The main loop, when it is one of them, does  *)
(* nothing of this while the main thread is in Acceptor::handleRead.       *)

At(l, where) ==
    Running /\ pc[l] = where /\ (l = BaseLoop => base = "wait")
Goto(l, where) == pc' = [pc EXCEPT ![l] = where]

(* Sockets with an edge are looked up in ChannelMap; a queued functor wakes*)
(* the loop as well.                                                       *)
EpollWait(l) ==
    /\ At(l, "wait")
    /\ Reported(l) # {} \/ pending[l] # <<>>
    /\ active' = [active EXCEPT ![l] =
          {<<ChannelMap[l][fd[c]], IF sock[c].err THEN "err" ELSE "in">> :
             c \in Reported(l)}]
    /\ ready' = ready \ interest[l]
    /\ Goto(l, "dispatch")
    /\ UNCHANGED <<mainVars, ConnectionMap, tasks, cur, ChannelMap, interest,
                   clientVars, process>>

(* handleEvent with EPOLLERR: getsockopt clears the error, and that is all.*)
HandleError(l) ==
    /\ At(l, "dispatch")
    /\ \E o \in Clients :
          /\ <<o, "err">> \in active[l]
          /\ active' = [active EXCEPT ![l] = @ \ {<<o, "err">>}]
          /\ sock' = [sock EXCEPT ![o].err = FALSE]
    /\ UNCHANGED <<mainVars, ConnectionMap, tasks, pc, cur, epollVars, phase,
                   process>>

HandleEvent(l) ==
    /\ At(l, "dispatch")
    /\ \E o \in Clients :
          /\ <<o, "in">> \in active[l]
          /\ active' = [active EXCEPT ![l] = @ \ {<<o, "in">>}]
          /\ cur' = [cur EXCEPT ![l] = o]
    /\ Goto(l, "reading")
    /\ UNCHANGED <<mainVars, ConnectionMap, tasks, epollVars, clientVars,
                   process>>

(* The next read of handleRead's loop, on an object that still exists.     *)
Reading(l) == At(l, "reading") /\ cur[l] \in Held

ReadMessage(l) ==
    /\ Reading(l)
    /\ sock[cur[l]].inbox > 0
    /\ sock' = [sock EXCEPT ![cur[l]].inbox = @ - 1]
    /\ Goto(l, "message")
    /\ UNCHANGED <<mainVars, ConnectionMap, tasks, cur, active, epollVars,
                   phase, process>>

(* After a FIN read returns 0, even if a reset has left an error.          *)
ReadError(l) ==
    /\ Reading(l)
    /\ LET s == sock[cur[l]] IN s.inbox = 0 /\ ~s.fin /\ s.err
    /\ sock' = [sock EXCEPT ![cur[l]].err = FALSE]
    /\ UNCHANGED <<mainVars, ConnectionMap, tasks, loopVars, epollVars, phase,
                   process>>

X_ReadEndIgnored(l) ==
    /\ Reading(l)
    /\ LET s == sock[cur[l]] IN s.inbox = 0 /\ (s.fin \/ (s.rst /\ ~s.err))
    /\ Goto(l, "dispatch")
    /\ cur' = [cur EXCEPT ![l] = None]
    /\ UNCHANGED <<mainVars, ConnectionMap, tasks, active, epollVars,
                   clientVars, process>>

(* read returns 0: handleClose, with a shared_ptr of its own.              *)
ReadEnd(l) ==
    /\ Reading(l)
    /\ LET s == sock[cur[l]] IN s.inbox = 0 /\ (s.fin \/ (s.rst /\ ~s.err))
    /\ Goto(l, "remove")
    /\ UNCHANGED <<mainVars, ConnectionMap, tasks, cur, active, epollVars,
                   clientVars, process>>

(* EAGAIN ends the loop.                                                   *)
ReadAll(l) ==
    /\ Reading(l)
    /\ LET s == sock[cur[l]] IN s.inbox = 0 /\ ~s.fin /\ ~s.rst
    /\ Goto(l, "dispatch")
    /\ cur' = [cur EXCEPT ![l] = None]
    /\ UNCHANGED <<mainVars, ConnectionMap, tasks, active, epollVars,
                   clientVars, process>>

(* The object was destroyed: channel_->fd() follows a null unique_ptr.     *)
ReadFreed(l) ==
    /\ At(l, "reading")
    /\ cur[l] \notin Held
    /\ process' = "SIGSEGV"
    /\ UNCHANGED <<mainVars, ConnectionMap, tasks, loopVars, epollVars,
                   clientVars>>

X_OnMessageEndsRead(l) ==
    /\ At(l, "message")
    /\ Goto(l, "dispatch")
    /\ cur' = [cur EXCEPT ![l] = None]
    /\ UNCHANGED <<mainVars, ConnectionMap, tasks, active, epollVars,
                   clientVars, process>>

(* onMessage writes back: to a socket that was reset, first an error, then *)
(* SIGPIPE, which nobody ignores.                                          *)
OnMessage(l) ==
    /\ At(l, "message")
    /\ LET s == sock[cur[l]] IN
          /\ process' = IF s.rst /\ (s.fin \/ ~s.err) THEN "SIGPIPE" ELSE process
          /\ sock' = [sock EXCEPT ![cur[l]].err = FALSE]
    /\ Goto(l, "reading")
    /\ UNCHANGED <<mainVars, ConnectionMap, tasks, cur, active, epollVars,
                   phase>>

X_RemoveConnectionUpToFd(l) ==
    /\ At(l, "remove")
    /\ ConnectionMap' = [f \in Keys |-> IF f <= fd[cur[l]] THEN None
                                                          ELSE ConnectionMap[f]]
    /\ Goto(l, "destroy")
    /\ UNCHANGED <<mainVars, tasks, cur, active, epollVars, clientVars,
                   process>>

(* removeConnection, in the thread of the IO loop: the map, then           *)
(* connectDestroyed in line.                                               *)
RemoveConnection(l) ==
    /\ At(l, "remove")
    /\ ConnectionMap' = [ConnectionMap EXCEPT ![fd[cur[l]]] = None]
    /\ Goto(l, "destroy")
    /\ UNCHANGED <<mainVars, tasks, cur, active, epollVars, clientVars,
                   process>>

(* ... and back in handleRead, which reads again.                          *)
DestroyConnection(l) ==
    /\ At(l, "destroy")
    /\ ConnectDestroyed(cur[l])
    /\ Goto(l, "reading")
    /\ UNCHANGED <<mainVars, ConnectionMap, tasks, cur, active, clientVars,
                   process>>

(* doPendingFunctors.                                                      *)
SwapFunctors(l) ==
    /\ At(l, "dispatch")
    /\ active[l] = {}
    /\ batch' = [batch EXCEPT ![l] = pending[l]]
    /\ pending' = [pending EXCEPT ![l] = <<>>]
    /\ Goto(l, "functors")
    /\ UNCHANGED <<mainVars, ConnectionMap, cur, active, epollVars,
                   clientVars, process>>

RunFunctor(l) ==
    /\ At(l, "functors")
    /\ batch[l] # <<>>
    /\ ConnectEstablished(Head(batch[l]))
    /\ batch' = [batch EXCEPT ![l] = Tail(@)]
    /\ UNCHANGED <<mainVars, ConnectionMap, pending, loopVars, clientVars,
                   process>>

FunctorsDone(l) ==
    /\ At(l, "functors")
    /\ batch[l] = <<>>
    /\ Goto(l, "wait")
    /\ UNCHANGED <<mainVars, ConnectionMap, tasks, cur, active, epollVars,
                   clientVars, process>>

------------------------------------------------------------------------------
Peer(c) == Connect(c) \/ Send(c) \/ Shutdown(c) \/ Reset(c)

MainThread ==
    \/ ConstructForPort \/ ConstructForAddress
    \/ Listen \/ StartLoop \/ EnterLoop
    \/ AcceptorReadable
    \/ \E c \in Clients : Accept(c)
    \/ \E o \in Failed : AcceptFails(o)
    \/ RunInLoop \/ Release

LoopThread(l) ==
    \/ EpollWait(l)
    \/ HandleError(l) \/ HandleEvent(l)
    \/ ReadMessage(l) \/ ReadError(l) \/ ReadEnd(l) \/ ReadAll(l)
    \/ ReadFreed(l)
    \/ OnMessage(l) \/ RemoveConnection(l) \/ DestroyConnection(l)
    \/ SwapFunctors(l) \/ RunFunctor(l) \/ FunctorsDone(l)

Next ==
    \/ \E c \in Clients : Peer(c)
    \/ MainThread
    \/ \E l \in Loops : LoopThread(l)

Spec == Init /\ [][Next]_vars

(* Every thread that can run is run; nothing is assumed of the clients.    *)
(* MaxSends keeps a client from holding its loop in handleRead for ever.   *)
FairSpec ==
    /\ Spec
    /\ WF_vars(MainThread)
    /\ \A l \in Loops : WF_vars(LoopThread(l))
------------------------------------------------------------------------------
(* Properties.                                                             *)

(* Epoll.cc:90-98: whatever epoll reports is found in the ChannelMap of    *)
(* the loop that waits, and neither there nor in the list being dispatched *)
(* is there a channel of a destroyed connection or of another loop.        *)
DispatchSafe ==
    \A l \in Loops :
        /\ \A c \in interest[l] : ChannelMap[l][fd[c]] = c
        /\ \A o \in interest[l] \cup {a[1] : a \in active[l]} :
              o \in Held /\ loopOf[o] = l

(* TcpServer.cc:54, 60-66: a connection under epoll is owned by the        *)
(* ConnectionMap under its own descriptor, but for the moment in which its *)
(* loop is taking it down.                                                 *)
WatchedIsOwned ==
    \A l \in Loops : \A c \in interest[l] :
        ConnectionMap[fd[c]] = c \/ (pc[l] = "destroy" /\ cur[l] = c)

Assigned(l) == {o \in Objs : loopOf[o] = l}

(* README.md:16, EventLoopThreadPool.cc:36-49: round robin, so the numbers *)
(* of connections given to any two loops differ by one at most.            *)
RoundRobin ==
    \A k, l \in 1 .. NumThreads :
        Cardinality(Assigned(k)) <= Cardinality(Assigned(l)) + 1

(* Epoll.h:13: an Epoll is used without a lock because only the thread of  *)
(* its loop uses it.                                                       *)
EpollConfined ==
    [][\A l \in Loops :
          <<ChannelMap[l], interest[l]>>' # <<ChannelMap[l], interest[l]>>
            => \/ pc[l] \in {"functors", "destroy"}
               \/ l = BaseLoop /\ base = "queue"]_vars

Removed(c) == \A f \in Keys : ConnectionMap[f] # c

(* TcpServer.cc:36-41, Acceptor.cc:49: a client is accepted even if it     *)
(* connects while the pool is being started, or together with others, with *)
(* one edge for all of them.                                               *)
BacklogAccepted ==
    \A c \in Clients :
        phase[c] = "backlog" ~> phase[c] = "accepted" \/ ~Running

(* TcpConnection.cc:50-77 under edge triggering: what a client sends before*)
(* or after it is accepted is read, without a further edge.                *)
Served ==
    \A c \in Clients :
        phase[c] = "accepted" /\ sock[c].inbox > 0
            ~> sock[c].inbox = 0 \/ sock[c].rst \/ ~Running

(* TcpConnection.cc:61-64, 87: the connection of a client that closed its  *)
(* side is removed.                                                        *)
ClosedIsRemoved ==
    \A c \in Clients :
        phase[c] = "accepted" /\ sock[c].fin
            ~> Removed(c) \/ sock[c].rst \/ ~Running

------------------------------------------------------------------------------
(* Claims of the documentation that the code does not keep.                *)

(* README.md:18: connections are managed by smart pointers; handleRead     *)
(* never goes on with an object whose last shared_ptr is gone.             *)
NoUseAfterFree ==
    \A l \in Loops : pc[l] = "reading" => cur[l] \in Held

(* TcpConnection.h:32: connectDestroyed is called when the connection is   *)
(* broken, and so also when the peer resets it.                            *)
ResetIsRemoved ==
    \A c \in Clients :
        phase[c] = "accepted" /\ sock[c].rst ~> Removed(c) \/ ~Running
==============================================================================
