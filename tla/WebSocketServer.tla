-------------------------- MODULE WebSocketServer --------------------------
(***************************************************************************)
(* The network thread of src/WebSocketServer.cpp: handleRequests waits with *)
(* epoll, in edge-triggered mode, for its listening socket and for the      *)
(* sockets it has accepted, reads what clients send and obeys it.           *)
(*                                                                         *)
(* What a client sends is a sequence of messages: "request", which holds    *)
(* the key of a handshake; "command", a frame that adds an effect; and      *)
(* "piece", a part of either that the network has cut, without the key, and *)
(* of which module WebSocketFrame tells what it does.  The kernel's part,   *)
(* the queue of connections, the descriptors and their readiness, is        *)
(* modelled as the server relies on it: a descriptor becomes ready when     *)
(* something happens to it, and epoll_wait reports it once for that.        *)
(***************************************************************************)
EXTENDS Integers, Sequences, FiniteSets, FiniteSetsExt

CONSTANTS
  CLIENTS,       \* the clients, each of which connects at most once
  FDS,           \* the descriptors the kernel may hand out, lowest first
  LISTENER,      \* serverSock
  MAX_READ,      \* the messages that fit in the buffer of one read()
  MAX_SENT       \* bound on the messages that all clients send

Nobody == "nobody"

ASSUME ServerAssumption ==
  /\ IsFiniteSet(CLIENTS)
  /\ Nobody \notin CLIENTS
  /\ FDS \subseteq Nat
  /\ IsFiniteSet(FDS)
  /\ LISTENER \in Nat \ FDS
  /\ MAX_READ \in Nat \ {0}
  /\ MAX_SENT \in Nat

VARIABLES
  peer,          \* what each client has done: "away", "there" or "left"
  sent,          \* how many messages the clients have sent
  inbox,         \* what each client has sent and the server not yet read
  backlog,       \* clients in the kernel's queue of connections to accept
  sock,          \* sock[fd]: the client at the other end, or Nobody
  ready,         \* descriptors the kernel will report
  running,       \* the server has not called exit(1)
  events,        \* what epoll_wait has reported and the loop not yet handled
  reading,       \* the event whose descriptor is being read
  clients,       \* the map from descriptors to handshakeDone
  greeted,       \* clients whose own request has been answered
  obeyed         \* clients of which a command has been obeyed

kernelVars == <<peer, sent, inbox, backlog, sock, ready>>
serverVars == <<running, events, reading, clients, greeted, obeyed>>
vars == <<kernelVars, serverVars>>

Messages == {"request", "command", "piece"}

NoEvent == [fd |-> -1, hup |-> FALSE]

OpenFds == {fd \in FDS : sock[fd] # Nobody}
FdOf(c) == {fd \in FDS : sock[fd] = c}

Init ==
  /\ peer = [c \in CLIENTS |-> "away"]
  /\ sent = 0
  /\ inbox = [c \in CLIENTS |-> <<>>]
  /\ backlog = <<>>
  /\ sock = [fd \in FDS |-> Nobody]
  /\ ready = {}
  /\ running = TRUE
  /\ events = {}
  /\ reading = NoEvent
  /\ clients = <<>>
  /\ greeted = {}
  /\ obeyed = {}

-----------------------------------------------------------------------------
(* The clients.                                                            *)

Connect(c) ==
  /\ peer[c] = "away"
  /\ peer' = [peer EXCEPT ![c] = "there"]
  /\ backlog' = Append(backlog, c)
  /\ ready' = ready \cup {LISTENER}
  /\ UNCHANGED <<sent, inbox, sock, serverVars>>

\* A client may send before it is accepted, and may skip the handshake.
ClientSends(c, message) ==
  /\ peer[c] = "there"
  /\ sent < MAX_SENT
  /\ sent' = sent + 1
  /\ inbox' = [inbox EXCEPT ![c] = Append(@, message)]
  /\ ready' = ready \cup FdOf(c)
  /\ UNCHANGED <<peer, backlog, sock, serverVars>>

Leave(c) ==
  /\ peer[c] = "there"
  /\ peer' = [peer EXCEPT ![c] = "left"]
  /\ ready' = ready \cup FdOf(c)
  /\ UNCHANGED <<sent, inbox, backlog, sock, serverVars>>

-----------------------------------------------------------------------------
(* handleRequests.                                                         *)

\* EPOLLRDHUP comes with the event if the client has left by then.
Event(fd) == [fd |-> fd, hup |-> fd # LISTENER /\ peer[sock[fd]] = "left"]

EpollWait ==
  /\ running
  /\ events = {}
  /\ reading = NoEvent
  /\ ready # {}
  /\ events' = {Event(fd) : fd \in ready}
  /\ ready' = {}
  /\ UNCHANGED <<peer, sent, inbox, backlog, sock,
                 running, reading, clients, greeted, obeyed>>

\* The loop turns to event e, in an order that is the kernel's.
Handles(e) ==
  /\ running
  /\ reading = NoEvent
  /\ e \in events
  /\ events' = events \ {e}

Put(map, fd, done) == [d \in DOMAIN map \cup {fd} |-> IF d = fd THEN done ELSE map[d]]
Erase(map, fd) == [d \in DOMAIN map \ {fd} |-> map[d]]

\* One connection is accepted per event.  Adding its socket to epoll makes it
\* ready at once if the client has already sent something or left; insert()
\* does not replace an entry that is there.
Accept ==
  /\ \E e \in events : e.fd = LISTENER /\ Handles(e)
  /\ OpenFds # FDS
  /\ LET c == Head(backlog)
         fd == Min(FDS \ OpenFds)
     IN  /\ sock' = [sock EXCEPT ![fd] = c]
         /\ ready' = IF inbox[c] # <<>> \/ peer[c] = "left"
                       THEN ready \cup {fd} ELSE ready
         /\ clients' = IF fd \in DOMAIN clients THEN clients ELSE Put(clients, fd, FALSE)
  /\ backlog' = Tail(backlog)
  /\ UNCHANGED <<peer, sent, inbox, running, reading, greeted, obeyed>>

\* Without a descriptor left accept() returns -1, which epoll_ctl_add cannot
\* add: the program ends.
AcceptFails ==
  /\ \E e \in events : e.fd = LISTENER /\ Handles(e)
  /\ OpenFds = FDS
  /\ running' = FALSE
  /\ UNCHANGED <<kernelVars, reading, clients, greeted, obeyed>>

\* Mutant: the check for a closing connection comes before the reads.
StartReading_UnlessHup ==
  \E e \in events :
    /\ e.fd # LISTENER
    /\ Handles(e)
    /\ IF e.hup
         THEN /\ clients' = Erase(clients, e.fd)
              /\ sock' = [sock EXCEPT ![e.fd] = Nobody]
              /\ ready' = ready \ {e.fd}
              /\ UNCHANGED reading
         ELSE /\ reading' = e
              /\ UNCHANGED <<clients, sock, ready>>
    /\ UNCHANGED <<peer, sent, inbox, backlog, running, greeted, obeyed>>

\* EPOLLIN on a client's socket, which EPOLLRDHUP always comes with.
StartReading ==
  \E e \in events :
    /\ e.fd # LISTENER
    /\ Handles(e)
    /\ reading' = e
    /\ UNCHANGED <<kernelVars, running, clients, greeted, obeyed>>

\* clients[fd], which operator[] creates if it is not there.
HandshakeDone(fd) == fd \in DOMAIN clients /\ clients[fd]

\* How many messages read() takes.
Taken(c) == Min({Len(inbox[c]), MAX_READ})

\* performHandshake: what is read holds the client's key, and is answered.
PerformHandshake(bytes) == \E n \in DOMAIN bytes : bytes[n] = "request"

\* Mutant: a single read() per event.
AfterRead_Once == IF reading.hup THEN reading ELSE NoEvent

\* The read loop goes on until read() has nothing more.
AfterRead == reading

\* The client whose command is obeyed, if any: a piece may look like a command.
Obeyed(c, message) ==
  CASE message = "command" -> {{c}}
    [] message = "piece"   -> {{c}, {}}
    [] OTHER               -> {{}}

\* Until the handshake is done a read can only complete the handshake; after
\* it, only the frame at the start of what is read is looked at.
ReadSome ==
  /\ reading # NoEvent
  /\ LET fd == reading.fd
         c == sock[fd]
         bytes == SubSeq(inbox[c], 1, Taken(c))
         done == HandshakeDone(fd)
         greets == ~done /\ PerformHandshake(bytes)
     IN  /\ inbox[c] # <<>>
         /\ inbox' = [inbox EXCEPT ![c] = SubSeq(@, Taken(c) + 1, Len(@))]
         /\ clients' = Put(clients, fd, done \/ greets)
         /\ greeted' = IF greets THEN greeted \cup {c} ELSE greeted
         /\ \E obeys \in IF done THEN Obeyed(c, Head(bytes)) ELSE {{}} :
               obeyed' = obeyed \cup obeys
  /\ reading' = AfterRead
  /\ UNCHANGED <<peer, sent, backlog, sock, ready, running, events>>

\* Mutant: the connection's entry is not erased.
Close_KeepsEntry(fd) ==
  /\ sock' = [sock EXCEPT ![fd] = Nobody]
  /\ ready' = ready \ {fd}
  /\ UNCHANGED clients

\* Mutant: the descriptor is not closed.
Close_Leaks(fd) ==
  /\ clients' = Erase(clients, fd)
  /\ ready' = ready \ {fd}
  /\ UNCHANGED sock

Close(fd) ==
  /\ clients' = Erase(clients, fd)
  /\ sock' = [sock EXCEPT ![fd] = Nobody]
  /\ ready' = ready \ {fd}

\* read() has nothing more; the connection is closed if the event said so.
DoneReading ==
  /\ reading # NoEvent
  /\ LET fd == reading.fd
     IN  /\ inbox[sock[fd]] = <<>>
         /\ IF reading.hup
              THEN Close(fd)
              ELSE /\ clients' = Put(clients, fd, HandshakeDone(fd))
                   /\ UNCHANGED <<sock, ready>>
  /\ reading' = NoEvent
  /\ UNCHANGED <<peer, sent, inbox, backlog, running, events, greeted, obeyed>>

HandleRequests ==
  \/ EpollWait
  \/ Accept
  \/ AcceptFails
  \/ StartReading
  \/ ReadSome
  \/ DoneReading

Next ==
  \/ \E c \in CLIENTS :
       \/ Connect(c)
       \/ \E message \in Messages : ClientSends(c, message)
       \/ Leave(c)
  \/ HandleRequests

\* The thread runs on; clients do what they like.
Spec == Init /\ [][Next]_vars /\ WF_vars(HandleRequests)

-----------------------------------------------------------------------------
EventOf(fds) == [fd : fds, hup : BOOLEAN]

\* The type of every variable; the map holds the open descriptors, no others.
TypeOK ==
  /\ peer \in [CLIENTS -> {"away", "there", "left"}]
  /\ sent \in 0 .. MAX_SENT
  /\ inbox \in [CLIENTS -> Seq(Messages)]
  /\ backlog \in Seq(CLIENTS)
  /\ sock \in [FDS -> CLIENTS \cup {Nobody}]
  /\ ready \subseteq OpenFds \cup {LISTENER}
  /\ running \in BOOLEAN
  /\ events \subseteq EventOf(OpenFds \cup {LISTENER})
  /\ reading \in EventOf(OpenFds) \cup {NoEvent}
  /\ clients \in [OpenFds -> BOOLEAN]
  /\ greeted \subseteq CLIENTS
  /\ obeyed \subseteq CLIENTS

\* A command is obeyed only if that very connection has made its handshake: a
\* descriptor that is used again does not hand on what its last owner had done.
CommandsAfterHandshake == obeyed \subseteq greeted

\* Nothing gets lost between two edges: a socket with unread data is reported,
\* about to be reported, or being read, and one whose client has left is, or
\* will be, reported as such.
Pending(fd) == {e \in events \cup {reading} : e.fd = fd}
NothingLeftBehind ==
  \A fd \in OpenFds :
    /\ inbox[sock[fd]] # <<>> => fd \in ready \/ Pending(fd) # {}
    /\ peer[sock[fd]] = "left" => fd \in ready \/ \E e \in Pending(fd) : e.hup

\* What an accepted client sends is read, also when it leaves at once.
EverythingIsRead ==
  \A c \in CLIENTS :
    FdOf(c) # {} /\ inbox[c] # <<>> ~> inbox[c] = <<>> \/ ~running

\* A client that leaves does not keep its descriptor.
LeaversAreClosed ==
  \A c \in CLIENTS :
    FdOf(c) # {} /\ peer[c] = "left" ~> FdOf(c) = {} \/ ~running

\* A client that connects is accepted.
EveryClientAccepted ==
  \A c \in CLIENTS :
    peer[c] = "there" ~> FdOf(c) # {} \/ peer[c] = "left" \/ ~running
=============================================================================
