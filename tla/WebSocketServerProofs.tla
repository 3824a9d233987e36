----------------------- MODULE WebSocketServerProofs -----------------------
(***************************************************************************)
(* What holds of the network thread for any number of clients, messages    *)
(* and descriptors, and for a buffer of any size.                          *)
(***************************************************************************)
EXTENDS WebSocketServer, SequenceTheorems, WellFoundedInduction, TLAPS

\* The kernel has reported each descriptor at most once, and the one that is
\* being read is no longer among those reported.
EventsInv ==
  /\ \A e, f \in events \cup {reading} : e.fd = f.fd => e = f
  /\ reading \notin events
  /\ \A e \in events : e.fd = LISTENER => ~e.hup

\* Whenever the listening socket is reported, somebody waits to be accepted:
\* one for the event that is under way and one more if it is ready again.
ListenerReported == \E e \in events : e.fd = LISTENER
BacklogInv ==
  /\ LISTENER \in ready => Len(backlog) >= 1
  /\ ListenerReported => Len(backlog) >= 1
  /\ LISTENER \in ready /\ ListenerReported => Len(backlog) >= 2

\* An entry says that the handshake is done only if it was done by the client
\* whom the descriptor belongs to now.
EntriesInv == \A fd \in OpenFds : clients[fd] => sock[fd] \in greeted

ServerInv ==
  /\ TypeOK
  /\ EventsInv
  /\ BacklogInv
  /\ EntriesInv
  /\ CommandsAfterHandshake
  /\ NothingLeftBehind

-----------------------------------------------------------------------------
\* A set of natural numbers that is not empty has a smallest element.
LEMMA MinOfNaturals ==
  ASSUME NEW S \in SUBSET Nat, S # {}
  PROVE  Min(S) \in S /\ \A n \in S : Min(S) <= n
<1> DEFINE less == {pair \in Nat \X Nat : pair[1] < pair[2]}
<1>1. IsWellFoundedOn(less, Nat)
  BY NatLessThanWellFounded, Zenon DEF OpToRel
<1>2. \A m, n \in Nat : m < n => <<m, n>> \in less
  OBVIOUS
<1> HIDE DEF less
<1>3. PICK m \in S : \A n \in S : ~(<<n, m>> \in less)
  BY <1>1, WFMin
<1>4. \A n \in S : m <= n
  <2> SUFFICES ASSUME NEW n \in S
               PROVE  m <= n
    OBVIOUS
  <2>1. m \in Nat /\ n \in Nat /\ ~(n < m)
    BY <1>2, <1>3
  <2> QED
    BY <2>1
<1> QED
  BY <1>4 DEF Min

LEMMA TakenBounds ==
  ASSUME TypeOK, NEW c \in CLIENTS
  PROVE  Taken(c) \in Nat /\ Taken(c) <= Len(inbox[c])
<1>1. Len(inbox[c]) \in Nat /\ MAX_READ \in Nat
  BY ServerAssumption DEF TypeOK
<1> QED
  BY <1>1, MinOfNaturals DEF Taken

LEMMA InitInv == Init => ServerInv
<1> SUFFICES ASSUME Init
             PROVE  ServerInv
  OBVIOUS
<1>1. OpenFds = {}
  BY DEF Init, OpenFds
<1>2. TypeOK
  BY <1>1, ServerAssumption DEF Init, TypeOK, EventOf
<1> QED
  BY <1>1, <1>2
  DEF Init, ServerInv, EventsInv, BacklogInv, ListenerReported, EntriesInv,
      CommandsAfterHandshake, NothingLeftBehind

-----------------------------------------------------------------------------
(* The clients.                                                            *)

\* The clients do not touch what the server keeps.
LEMMA ServerUntouched ==
  ASSUME ServerInv, UNCHANGED <<sock, serverVars>>
  PROVE  /\ EventsInv' /\ EntriesInv' /\ CommandsAfterHandshake'
         /\ OpenFds' = OpenFds
         /\ \A fd : Pending(fd)' = Pending(fd)
         /\ ListenerReported' = ListenerReported
BY DEF ServerInv, EventsInv, EntriesInv, CommandsAfterHandshake, OpenFds, Pending,
       ListenerReported, serverVars

LEMMA ConnectInv ==
  ASSUME ServerInv, NEW c \in CLIENTS, Connect(c)
  PROVE  ServerInv'
<1> USE DEF Connect
<1>1. /\ EventsInv' /\ EntriesInv' /\ CommandsAfterHandshake'
      /\ OpenFds' = OpenFds
      /\ \A fd : Pending(fd)' = Pending(fd)
      /\ ListenerReported' = ListenerReported
  BY ServerUntouched
<1>2. TypeOK'
  <2>1. backlog' \in Seq(CLIENTS) /\ peer' \in [CLIENTS -> {"away", "there", "left"}]
    BY DEF ServerInv, TypeOK
  <2> QED
    BY <1>1, <2>1 DEF ServerInv, TypeOK, serverVars
<1>3. Len(backlog') = Len(backlog) + 1 /\ Len(backlog) \in Nat
  BY DEF ServerInv, TypeOK
<1>4. BacklogInv'
  BY <1>1, <1>3 DEF ServerInv, BacklogInv
<1>5. \A d \in CLIENTS : peer'[d] = "left" => peer[d] = "left"
  BY DEF ServerInv, TypeOK
<1>6. \A fd \in OpenFds : sock[fd] \in CLIENTS
  BY DEF ServerInv, TypeOK, OpenFds
<1>7. NothingLeftBehind'
  BY <1>1, <1>5, <1>6 DEF ServerInv, NothingLeftBehind
<1> QED
  BY <1>1, <1>2, <1>4, <1>7 DEF ServerInv

LEMMA ClientActsInv ==
  ASSUME ServerInv, NEW c \in CLIENTS,
         Leave(c) \/ \E message \in Messages : ClientSends(c, message)
  PROVE  ServerInv'
<1> USE DEF Leave, ClientSends
<1>1. /\ EventsInv' /\ EntriesInv' /\ CommandsAfterHandshake'
      /\ OpenFds' = OpenFds
      /\ \A fd : Pending(fd)' = Pending(fd)
      /\ ListenerReported' = ListenerReported
  BY ServerUntouched
<1>2. FdOf(c) \subseteq OpenFds /\ LISTENER \notin FdOf(c)
  BY ServerAssumption DEF FdOf, OpenFds
<1>3. sock' = sock /\ backlog' = backlog /\ ready' = ready \cup FdOf(c)
  OBVIOUS
<1>4. TypeOK'
  <2>1. CASE Leave(c)
    BY <1>1, <1>2, <2>1 DEF ServerInv, TypeOK, serverVars
  <2>2. CASE \E message \in Messages : ClientSends(c, message)
    <3>1. sent' \in 0 .. MAX_SENT
      BY <2>2, ServerAssumption DEF ServerInv, TypeOK
    <3>2. inbox' \in [CLIENTS -> Seq(Messages)]
      BY <2>2 DEF ServerInv, TypeOK
    <3> QED
      BY <1>1, <1>2, <2>2, <3>1, <3>2 DEF ServerInv, TypeOK, serverVars
  <2> QED
    BY <2>1, <2>2
<1>5. BacklogInv'
  BY <1>1, <1>2, <1>3 DEF ServerInv, BacklogInv
<1>6. \A d \in CLIENTS : d # c => inbox'[d] = inbox[d] /\ peer'[d] = peer[d]
  BY DEF ServerInv, TypeOK
<1>7. \A fd \in OpenFds : sock[fd] \in CLIENTS /\ (sock[fd] = c => fd \in ready')
  BY <1>3 DEF ServerInv, TypeOK, OpenFds, FdOf
<1>8. NothingLeftBehind'
  BY <1>1, <1>3, <1>6, <1>7 DEF ServerInv, NothingLeftBehind
<1> QED
  BY <1>1, <1>4, <1>5, <1>8 DEF ServerInv

-----------------------------------------------------------------------------
(* handleRequests.                                                         *)

\* What epoll_wait reports was ready, with the hang-ups of those who have left.
LEMMA EpollWaitInv ==
  ASSUME ServerInv, EpollWait
  PROVE  ServerInv'
<1> USE DEF EpollWait
<1>1. OpenFds' = OpenFds /\ UNCHANGED <<sock, peer, inbox, clients, greeted, obeyed>>
  BY DEF OpenFds
<1>2. ready \subseteq OpenFds \cup {LISTENER}
  BY DEF ServerInv, TypeOK
<1>3. events' = {Event(fd) : fd \in ready}
  OBVIOUS
<1>4. \A fd : /\ Event(fd).fd = fd
              /\ Event(fd).hup \in BOOLEAN
              /\ Event(fd).hup <=> fd # LISTENER /\ peer[sock[fd]] = "left"
              /\ \A S : fd \in S => Event(fd) \in EventOf(S)
  BY DEF Event, EventOf
<1> HIDE DEF EpollWait
<1>5. \A e \in events' : e.fd \in ready /\ e = Event(e.fd)
  BY <1>3, <1>4
<1>6. TypeOK'
  <2>1. events' \subseteq EventOf(OpenFds \cup {LISTENER})
    BY <1>2, <1>3, <1>4
  <2> QED
    BY <1>1, <2>1 DEF ServerInv, TypeOK, EpollWait
<1>7. EventsInv'
  <2>1. \A e \in events' : e.fd # -1
    BY <1>2, <1>5, ServerAssumption DEF OpenFds
  <2>2. reading' = NoEvent /\ NoEvent.fd = -1
    BY DEF NoEvent, EpollWait
  <2>3. \A e \in events' : e.fd = LISTENER => ~e.hup
    BY <1>4, <1>5
  <2> QED
    BY <1>5, <2>1, <2>2, <2>3 DEF EventsInv
<1>8. BacklogInv'
  BY <1>5 DEF ServerInv, BacklogInv, ListenerReported, EpollWait
<1>9. EntriesInv' /\ CommandsAfterHandshake'
  BY <1>1 DEF ServerInv, EntriesInv, CommandsAfterHandshake
<1>10. NothingLeftBehind'
  <2>1. \A fd : Pending(fd) = {}  \/ fd = -1
    BY DEF Pending, NoEvent, EpollWait
  <2>2. \A fd \in OpenFds : fd # -1 /\ fd # LISTENER
    BY ServerAssumption DEF OpenFds
  <2>3. \A fd \in ready : Event(fd) \in Pending(fd)'
    BY <1>3, <1>4 DEF Pending
  <2>4. \A fd \in ready : fd # LISTENER /\ peer[sock[fd]] = "left" => Event(fd).hup
    BY <1>4
  <2> QED
    BY <1>1, <2>1, <2>2, <2>3, <2>4 DEF ServerInv, NothingLeftBehind
<1> QED
  BY <1>6, <1>7, <1>8, <1>9, <1>10 DEF ServerInv

\* A turn of the loop takes the only event of its descriptor.
LEMMA HandlesEvent ==
  ASSUME ServerInv, NEW e \in events, Handles(e)
  PROVE  /\ e.fd \in OpenFds \cup {LISTENER} /\ e.hup \in BOOLEAN
         /\ e \in EventOf({e.fd}) /\ e # NoEvent
         /\ events' = events \ {e} /\ reading = NoEvent
         /\ \A f \in events' : f.fd # e.fd
<1>1. e \in EventOf(OpenFds \cup {LISTENER})
  BY DEF ServerInv, TypeOK
<1>2. e.fd # -1
  BY <1>1, ServerAssumption DEF EventOf, OpenFds
<1>3. e # NoEvent
  BY <1>2 DEF NoEvent
<1>4. \A f \in events' : f.fd # e.fd
  BY DEF Handles, ServerInv, EventsInv
<1> QED
  BY <1>1, <1>3, <1>4 DEF EventOf, Handles

\* The descriptor of a new connection is not in use, nor has anything been
\* reported of it.
LEMMA AcceptInv ==
  ASSUME ServerInv, Accept
  PROVE  ServerInv'
<1> DEFINE c == Head(backlog)
           fd == Min(FDS \ OpenFds)
<1>1. PICK e \in events : e.fd = LISTENER /\ Handles(e)
  BY DEF Accept, Handles
<1>2. /\ events' = events \ {e} /\ reading = NoEvent /\ reading' = NoEvent
      /\ \A f \in events' : f.fd # LISTENER
  BY <1>1, HandlesEvent DEF Accept
<1>3. Len(backlog) >= 1 /\ (LISTENER \in ready => Len(backlog) >= 2)
  BY <1>1 DEF ServerInv, BacklogInv, ListenerReported
<1>4. /\ backlog \in Seq(CLIENTS) /\ c \in CLIENTS
      /\ backlog' \in Seq(CLIENTS) /\ Len(backlog') = Len(backlog) - 1
  <2>1. backlog \in Seq(CLIENTS) /\ backlog # <<>>
    BY <1>3 DEF ServerInv, TypeOK
  <2> QED
    BY <2>1, <1>3 DEF Accept
<1>5. fd \in FDS \ OpenFds
  <2>1. FDS \ OpenFds \in SUBSET Nat /\ FDS \ OpenFds # {}
    BY ServerAssumption DEF Accept, OpenFds
  <2> QED
    BY <2>1, MinOfNaturals
<1>6. fd # LISTENER /\ LISTENER \notin OpenFds
  BY <1>5, ServerAssumption DEF OpenFds
<1>7. /\ sock' = [sock EXCEPT ![fd] = c]
      /\ ready' = IF inbox[c] # <<>> \/ peer[c] = "left" THEN ready \cup {fd} ELSE ready
      /\ clients' = IF fd \in DOMAIN clients THEN clients ELSE Put(clients, fd, FALSE)
      /\ UNCHANGED <<peer, sent, inbox, running, reading, greeted, obeyed>>
  BY DEF Accept
<1> HIDE DEF c, fd
<1>8. /\ sock \in [FDS -> CLIENTS \cup {Nobody}] /\ clients \in [OpenFds -> BOOLEAN]
      /\ ready \subseteq OpenFds \cup {LISTENER}
      /\ events \subseteq EventOf(OpenFds \cup {LISTENER})
  BY DEF ServerInv, TypeOK
<1>9. /\ sock' \in [FDS -> CLIENTS \cup {Nobody}]
      /\ sock'[fd] = c /\ \A g \in OpenFds : sock'[g] = sock[g]
  BY <1>4, <1>5, <1>7, <1>8 DEF OpenFds
<1>10. OpenFds' = OpenFds \cup {fd}
  BY <1>4, <1>5, <1>7, <1>8, ServerAssumption DEF OpenFds
<1>11. /\ clients' \in [OpenFds' -> BOOLEAN]
       /\ clients'[fd] = FALSE /\ \A g \in OpenFds : clients'[g] = clients[g]
  <2>1. clients' = Put(clients, fd, FALSE)
    BY <1>5, <1>7, <1>8
  <2>2. /\ Put(clients, fd, FALSE) \in [OpenFds \cup {fd} -> BOOLEAN]
        /\ Put(clients, fd, FALSE)[fd] = FALSE
        /\ \A g \in OpenFds \ {fd} : Put(clients, fd, FALSE)[g] = clients[g]
    BY <1>8 DEF Put
  <2> QED
    BY <2>1, <2>2, <1>5, <1>10
<1>12. TypeOK'
  <2>1. events' \subseteq EventOf(OpenFds' \cup {LISTENER})
    BY <1>2, <1>8, <1>10 DEF EventOf
  <2>2. reading' \in EventOf(OpenFds') \cup {NoEvent}
    BY <1>2
  <2>3. ready' \subseteq OpenFds' \cup {LISTENER}
    BY <1>7, <1>8, <1>10
  <2> QED
    BY <2>1, <2>2, <2>3, <1>4, <1>7, <1>9, <1>11 DEF ServerInv, TypeOK
<1>13. EventsInv'
  BY <1>2 DEF ServerInv, EventsInv
<1>14. BacklogInv'
  BY <1>2, <1>3, <1>4, <1>6, <1>7 DEF BacklogInv, ListenerReported
<1>15. EntriesInv' /\ CommandsAfterHandshake'
  <2> SUFFICES ASSUME NEW g \in OpenFds', clients'[g]
               PROVE  sock'[g] \in greeted'
    BY <1>7 DEF ServerInv, EntriesInv, CommandsAfterHandshake
  <2>1. g \in OpenFds
    BY <1>10, <1>11
  <2>2. clients[g] /\ sock'[g] = sock[g]
    BY <2>1, <1>9, <1>11, Zenon
  <2>3. sock[g] \in greeted
    BY <2>1, <2>2, Zenon DEF ServerInv, EntriesInv
  <2> QED
    BY <2>2, <2>3, <1>7
<1>16. NothingLeftBehind'
  <2>1. \A g \in OpenFds : Pending(g) \subseteq Pending(g)'
    BY <1>1, <1>2, <1>6 DEF Pending
  <2>2. inbox'[c] # <<>> \/ peer'[c] = "left" => fd \in ready'
    BY <1>7
  <2> QED
    BY <2>1, <2>2, <1>7, <1>9, <1>10 DEF ServerInv, NothingLeftBehind
<1> QED
  BY <1>12, <1>13, <1>14, <1>15, <1>16 DEF ServerInv

LEMMA AcceptFailsInv ==
  ASSUME ServerInv, AcceptFails
  PROVE  ServerInv'
<1>1. PICK e \in events : e.fd = LISTENER /\ Handles(e)
  BY DEF AcceptFails, Handles
<1>2. events' = events \ {e} /\ \A f \in events' : f.fd # LISTENER
  BY <1>1, HandlesEvent
<1>3. UNCHANGED <<peer, sent, inbox, backlog, sock, ready, reading, clients, greeted, obeyed>>
      /\ running' = FALSE
  BY DEF AcceptFails, kernelVars
<1>4. OpenFds' = OpenFds /\ LISTENER \notin OpenFds
  BY <1>3, ServerAssumption DEF OpenFds
<1>5. \A fd \in OpenFds : Pending(fd) \subseteq Pending(fd)'
  BY <1>1, <1>2, <1>3, <1>4 DEF Pending
<1>6. TypeOK'
  BY <1>2, <1>3, <1>4 DEF ServerInv, TypeOK
<1>7. EventsInv' /\ BacklogInv'
  BY <1>2, <1>3 DEF ServerInv, EventsInv, BacklogInv, ListenerReported
<1>8. EntriesInv' /\ CommandsAfterHandshake'
  BY <1>3, <1>4 DEF ServerInv, EntriesInv, CommandsAfterHandshake
<1>9. NothingLeftBehind'
  BY <1>3, <1>4, <1>5 DEF ServerInv, NothingLeftBehind
<1> QED
  BY <1>6, <1>7, <1>8, <1>9 DEF ServerInv

LEMMA StartReadingInv ==
  ASSUME ServerInv, StartReading
  PROVE  ServerInv'
<1>1. PICK e \in events : e.fd # LISTENER /\ Handles(e) /\ reading' = e
  BY DEF StartReading
<1>2. /\ events' = events \ {e} /\ reading = NoEvent /\ e # NoEvent
      /\ e \in EventOf({e.fd}) /\ e.fd \in OpenFds
      /\ \A f \in events' : f.fd # e.fd
  BY <1>1, HandlesEvent
<1>3. UNCHANGED <<peer, sent, inbox, backlog, sock, ready, running, clients, greeted, obeyed>>
  BY DEF StartReading, kernelVars
<1>4. OpenFds' = OpenFds /\ -1 \notin OpenFds
  BY <1>3, ServerAssumption DEF OpenFds
<1>5. \A fd \in OpenFds : Pending(fd)' = Pending(fd)
  BY <1>1, <1>2, <1>4 DEF Pending, NoEvent
<1>6. TypeOK'
  <2>1. e \in EventOf(OpenFds)
    BY <1>2 DEF EventOf
  <2> QED
    BY <2>1, <1>1, <1>2, <1>3, <1>4 DEF ServerInv, TypeOK
<1>7. EventsInv' /\ BacklogInv'
  BY <1>1, <1>2, <1>3 DEF ServerInv, EventsInv, BacklogInv, ListenerReported
<1>8. EntriesInv' /\ CommandsAfterHandshake'
  BY <1>3, <1>4 DEF ServerInv, EntriesInv, CommandsAfterHandshake
<1>9. NothingLeftBehind'
  BY <1>3, <1>4, <1>5 DEF ServerInv, NothingLeftBehind
<1> QED
  BY <1>6, <1>7, <1>8, <1>9 DEF ServerInv

\* What is read belongs to the client at the other end; a command is obeyed
\* only where the entry says that the handshake is done.
LEMMA ReadSomeInv ==
  ASSUME ServerInv, ReadSome
  PROVE  ServerInv'
<1> DEFINE fd == reading.fd
           c == sock[fd]
           bytes == SubSeq(inbox[c], 1, Taken(c))
           done == HandshakeDone(fd)
           greets == ~done /\ PerformHandshake(bytes)
<1>1. /\ reading # NoEvent /\ reading' = reading
      /\ inbox[c] # <<>>
      /\ inbox' = [inbox EXCEPT ![c] = SubSeq(@, Taken(c) + 1, Len(@))]
      /\ clients' = Put(clients, fd, done \/ greets)
      /\ greeted' = IF greets THEN greeted \cup {c} ELSE greeted
      /\ UNCHANGED <<peer, sent, backlog, sock, ready, running, events>>
  BY DEF ReadSome, AfterRead
<1>2. \E obeys \in IF done THEN Obeyed(c, Head(bytes)) ELSE {{}} : obeyed' = obeyed \cup obeys
  BY DEF ReadSome
<1>3. fd \in OpenFds /\ c \in CLIENTS /\ OpenFds' = OpenFds
  BY <1>1 DEF ServerInv, TypeOK, EventOf, OpenFds
<1>4. obeyed' = obeyed \/ (done /\ obeyed' = obeyed \cup {c})
  BY <1>2 DEF Obeyed
<1>5. done <=> clients[fd]
  BY <1>3 DEF HandshakeDone, ServerInv, TypeOK
<1>6. greets \in BOOLEAN /\ done \in BOOLEAN
  BY DEF PerformHandshake, HandshakeDone
<1> HIDE DEF fd, c, greets, done
<1>7. done => c \in greeted
  BY <1>3, <1>5, Zenon DEF ServerInv, EntriesInv, c, fd
<1>8. /\ clients' \in [OpenFds -> BOOLEAN]
      /\ clients'[fd] = (done \/ greets)
      /\ \A g \in OpenFds \ {fd} : clients'[g] = clients[g]
  <2>1. clients \in [OpenFds -> BOOLEAN] /\ (done \/ greets) \in BOOLEAN
    BY <1>6 DEF ServerInv, TypeOK
  <2> QED
    BY <2>1, <1>1, <1>3 DEF Put
<1>9. inbox' \in [CLIENTS -> Seq(Messages)]
  <2>1. inbox[c] \in Seq(Messages) /\ Taken(c) \in Nat /\ inbox \in [CLIENTS -> Seq(Messages)]
    BY <1>3, TakenBounds DEF ServerInv, TypeOK
  <2>2. SubSeq(inbox[c], Taken(c) + 1, Len(inbox[c])) \in Seq(Messages)
    BY <2>1
  <2> QED
    BY <1>1, <1>3, <2>1, <2>2
<1>10. TypeOK'
  <2>1. greeted' \subseteq CLIENTS /\ obeyed' \subseteq CLIENTS
    BY <1>1, <1>3, <1>4 DEF ServerInv, TypeOK
  <2> QED
    BY <2>1, <1>1, <1>3, <1>8, <1>9 DEF ServerInv, TypeOK
<1>11. EventsInv' /\ BacklogInv'
  BY <1>1 DEF ServerInv, EventsInv, BacklogInv, ListenerReported
<1>12. CommandsAfterHandshake'
  BY <1>1, <1>4, <1>7 DEF ServerInv, CommandsAfterHandshake
<1>13. EntriesInv'
  <2> SUFFICES ASSUME NEW g \in OpenFds, clients'[g]
               PROVE  sock[g] \in greeted'
    BY <1>1, <1>3 DEF EntriesInv
  <2>1. CASE g = fd
    <3>1. done \/ greets
      BY <2>1, <1>8, Zenon
    <3> QED
      BY <2>1, <3>1, <1>1, <1>7 DEF c
  <2>2. CASE g # fd
    <3>1. clients[g]
      BY <2>2, <1>8, Zenon
    <3>2. sock[g] \in greeted
      BY <3>1, Zenon DEF ServerInv, EntriesInv
    <3> QED
      BY <3>2, <1>1
  <2> QED
    BY <2>1, <2>2
<1>14. NothingLeftBehind'
  <2>1. \A d \in CLIENTS : inbox'[d] # <<>> => inbox[d] # <<>>
    BY <1>1 DEF ServerInv, TypeOK
  <2>2. \A g \in OpenFds : sock[g] \in CLIENTS
    BY DEF ServerInv, TypeOK, OpenFds
  <2>3. \A g : Pending(g)' = Pending(g)
    BY <1>1 DEF Pending
  <2> QED
    BY <2>1, <2>2, <2>3, <1>1, <1>3 DEF ServerInv, NothingLeftBehind
<1> QED
  BY <1>10, <1>11, <1>12, <1>13, <1>14 DEF ServerInv

\* A descriptor is closed only once everything is read and nothing more has
\* been reported of it.
LEMMA DoneReadingInv ==
  ASSUME ServerInv, DoneReading
  PROVE  ServerInv'
<1> DEFINE fd == reading.fd
<1>1. /\ reading # NoEvent /\ reading' = NoEvent
      /\ inbox[sock[fd]] = <<>>
      /\ IF reading.hup THEN Close(fd)
         ELSE clients' = Put(clients, fd, HandshakeDone(fd)) /\ UNCHANGED <<sock, ready>>
      /\ UNCHANGED <<peer, sent, inbox, backlog, running, events, greeted, obeyed>>
  BY DEF DoneReading
<1>2. /\ reading \in EventOf(OpenFds) /\ fd \in OpenFds
      /\ clients \in [OpenFds -> BOOLEAN] /\ sock \in [FDS -> CLIENTS \cup {Nobody}]
      /\ events \subseteq EventOf(OpenFds \cup {LISTENER})
      /\ ready \subseteq OpenFds \cup {LISTENER}
  BY <1>1 DEF ServerInv, TypeOK, EventOf
<1>3. \A e \in events : e.fd # fd
  BY DEF ServerInv, EventsInv
<1>4. \A g \in OpenFds : g # fd => Pending(g)' = Pending(g)
  <2>1. -1 \notin OpenFds
    BY ServerAssumption DEF OpenFds
  <2> QED
    BY <2>1, <1>1 DEF Pending, NoEvent
<1>5. fd # LISTENER /\ OpenFds \subseteq FDS
  BY <1>2, ServerAssumption DEF OpenFds
<1>6. EventsInv'
  <2>1. \A e \in events : e.fd # -1
    BY <1>2, ServerAssumption DEF EventOf, OpenFds
  <2>2. NoEvent \notin events /\ NoEvent.fd = -1
    BY <2>1 DEF NoEvent
  <2> QED
    BY <2>1, <2>2, <1>1 DEF ServerInv, EventsInv
<1>7. CommandsAfterHandshake'
  BY <1>1 DEF ServerInv, CommandsAfterHandshake
<1>8. CASE reading.hup
  <2>1. /\ clients' = Erase(clients, fd)
        /\ sock' = [sock EXCEPT ![fd] = Nobody]
        /\ ready' = ready \ {fd}
    BY <1>1, <1>8 DEF Close
  <2> HIDE DEF fd
  <2>2. OpenFds' = OpenFds \ {fd} /\ \A g \in OpenFds' : sock'[g] = sock[g]
    BY <2>1, <1>2, <1>5 DEF OpenFds
  <2>3. clients' \in [OpenFds' -> BOOLEAN] /\ \A g \in OpenFds' : clients'[g] = clients[g]
    BY <2>1, <2>2, <1>2 DEF Erase
  <2>4. TypeOK'
    <3>1. sock' \in [FDS -> CLIENTS \cup {Nobody}]
      BY <2>1, <1>2
    <3>2. events' \subseteq EventOf(OpenFds' \cup {LISTENER})
      BY <2>2, <1>1, <1>2, <1>3 DEF EventOf
    <3>3. ready' \subseteq OpenFds' \cup {LISTENER}
      BY <2>1, <2>2, <1>2
    <3> QED
      BY <3>1, <3>2, <3>3, <2>3, <1>1 DEF ServerInv, TypeOK
  <2>5. BacklogInv'
    BY <2>1, <1>1, <1>5 DEF ServerInv, BacklogInv, ListenerReported
  <2>6. EntriesInv'
    <3> SUFFICES ASSUME NEW g \in OpenFds', clients'[g]
                 PROVE  sock'[g] \in greeted'
      BY DEF EntriesInv
    <3>1. g \in OpenFds /\ sock'[g] = sock[g]
      BY <2>2
    <3>2. clients[g]
      BY <2>3, Zenon
    <3>3. sock[g] \in greeted
      BY <3>1, <3>2, Zenon DEF ServerInv, EntriesInv
    <3> QED
      BY <3>1, <3>3, <1>1
  <2>7. NothingLeftBehind'
    BY <2>1, <2>2, <1>1, <1>4 DEF ServerInv, NothingLeftBehind
  <2> QED
    BY <2>4, <1>6, <2>5, <2>6, <1>7, <2>7 DEF ServerInv
<1>9. CASE ~reading.hup
  <2>1. /\ clients' = Put(clients, fd, HandshakeDone(fd))
        /\ UNCHANGED <<sock, ready>>
        /\ OpenFds' = OpenFds
    BY <1>1, <1>9 DEF OpenFds
  <2>2. clients' = clients
    BY <2>1, <1>2 DEF Put, HandshakeDone
  <2>3. TypeOK'
    BY <2>1, <2>2, <1>1 DEF ServerInv, TypeOK
  <2>4. BacklogInv'
    BY <2>1, <1>1 DEF ServerInv, BacklogInv, ListenerReported
  <2>5. EntriesInv'
    BY <2>1, <2>2, <1>1 DEF ServerInv, EntriesInv
  <2>6. peer[sock[fd]] = "left" => fd \in ready
    BY <1>2, <1>3, <1>9 DEF ServerInv, NothingLeftBehind, Pending
  <2>7. NothingLeftBehind'
    BY <2>1, <2>6, <1>1, <1>4 DEF ServerInv, NothingLeftBehind
  <2> QED
    BY <2>3, <1>6, <2>4, <2>5, <1>7, <2>7 DEF ServerInv
<1> QED
  BY <1>8, <1>9

-----------------------------------------------------------------------------
LEMMA ServerNextInv ==
  ASSUME ServerInv, [Next]_vars
  PROVE  ServerInv'
<1>1. CASE Next
  <2>1. ASSUME NEW c \in CLIENTS, Connect(c)
        PROVE  ServerInv'
    BY <2>1, ConnectInv
  <2>2. ASSUME NEW c \in CLIENTS,
               Leave(c) \/ \E message \in Messages : ClientSends(c, message)
        PROVE  ServerInv'
    BY <2>2, ClientActsInv
  <2>3. CASE HandleRequests
    BY <2>3, EpollWaitInv, AcceptInv, AcceptFailsInv, StartReadingInv, ReadSomeInv,
       DoneReadingInv DEF HandleRequests
  <2> QED
    BY <1>1, <2>1, <2>2, <2>3 DEF Next
<1>2. CASE UNCHANGED vars
  BY <1>2 DEF vars, kernelVars, serverVars, ServerInv, TypeOK, EventsInv, BacklogInv,
     ListenerReported, EntriesInv, CommandsAfterHandshake, NothingLeftBehind, OpenFds,
     Pending
<1> QED
  BY <1>1, <1>2

\* The inductive invariant of the network thread.
THEOREM ServerInvariant == Spec => []ServerInv
BY InitInv, ServerNextInv, PTL DEF Spec

\* Every variable keeps its type: the map has an entry for each descriptor that
\* is open and for no other, epoll knows of open descriptors only, and what is
\* being read is one of them.
THEOREM ServerTypeCorrect == Spec => []TypeOK
<1>1. ServerInv => TypeOK
  BY DEF ServerInv
<1> QED
  BY <1>1, ServerInvariant, PTL

\* No command is obeyed of a client that has not made its own handshake, however
\* often the kernel has handed the same descriptor to one client after another.
THEOREM HandshakeFirst == Spec => []CommandsAfterHandshake
<1>1. ServerInv => CommandsAfterHandshake
  BY DEF ServerInv
<1> QED
  BY <1>1, ServerInvariant, PTL

\* With edge-triggered events and a loop that reads until there is nothing more,
\* no socket keeps unread data, or a client that has left, unreported.
THEOREM NothingLost == Spec => []NothingLeftBehind
<1>1. ServerInv => NothingLeftBehind
  BY DEF ServerInv
<1> QED
  BY <1>1, ServerInvariant, PTL
=============================================================================
