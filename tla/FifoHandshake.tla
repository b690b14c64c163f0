---------------------------- MODULE FifoHandshake ----------------------------
(***************************************************************************)
(* How a client and the main server find each other over FIFOs             *)
(* (commWithFIFOs.c): conn_open in each client against the loop of         *)
(* conn_accept and fork in the main server.                                *)
(*                                                                         *)
(* A client makes two FIFOs named after its pid, opens the one it will     *)
(* read, and sends both names on the FIFO of the main server.  The main    *)
(* server opens both ends the other way round, waiting at the one it will  *)
(* write for somebody to read it, acknowledges, and forks.                 *)
(*                                                                         *)
(* No pid is used twice, but earlier processes may have left FIFOs behind. *)
(***************************************************************************)
EXTENDS Integers, Sequences

CONSTANTS Pids,    \* the clients
          None,    \* nobody
          Room,    \* how many names the main server's FIFO holds
          Faults   \* "kill": a client dies anywhere (SIGINT kills too: the handler is
                   \* installed after conn_open); "timeout": its ten seconds pass
                   \* before the main server gets to it; "fork": the main server
                   \* cannot fork; "mainkill": the main server dies anywhere

ASSUME HandshakeAssumption ==
  /\ None \notin Pids
  /\ Room \in Nat
  /\ Faults \subseteq {"kill", "timeout", "fork", "mainkill"}

VARIABLES
  cp,        \* each client's place in conn_open
  files,     \* the FIFOs that exist under /tmp
  readers,   \* the FIFOs that clients have open for reading
  lock,      \* who holds the flock on the main server's FIFO
  requests,  \* what has been written to the main server's FIFO
  acks,      \* the FIFOs that hold a MESSAGE_OK
  hungUp,    \* those whose only writer went without writing anything
  sp,        \* the main server's place
  conn,      \* the connection conn_accept is making
  own,       \* the FIFOs that main() has open for reading
  heirs,     \* those that forked servers have open: all that main() had
  servers,   \* the connections handed to forked servers
  unserved   \* those that were acknowledged, but to which nobody was forked

clientVars == <<cp, files, readers, lock>>
fifoVars == <<requests, acks, hungUp>>
serverVars == <<sp, conn, own, heirs, servers, unserved>>
vars == <<clientVars, fifoVars, serverVars>>

\* Before conn_open; making the FIFOs; opening pid-in; waiting for the lock;
\* writing the two names; in select(); in ensureRead at the end of the file;
\* MESSAGE_OK received, opening pid-out; conn_open returned a connection; the
\* process is over:
\*   start; makeOut, makeIn; openIn; lock; sendOut, sendIn; wait; spin; openOut;
\*   connected; gone

\* Before conn_listen; select() and the first name; the second name; opening the
\* FIFO to read, the one to write; MESSAGE_OK; fork; stopDBServer; the process is
\* over, its forked servers may live; all of them are over:
\*   start; select; name; openRead, openWrite; ack; fork; stop; over; deserted
Ended == {"over", "deserted"}

Out(p) == [pid |-> p, end |-> "out"]
In(p)  == [pid |-> p, end |-> "in"]

\* A length whose name never came.
Torn   == [pid |-> None, end |-> "torn"]
NoFifo == Out(None)
NoConn == [in |-> NoFifo, out |-> NoFifo]

\* Somebody has the FIFO open for reading.
HasReader(fifo) == fifo \in readers \cup own \cup heirs

-----------------------------------------------------------------------------
(* The client.                                                             *)

Move(p, place) == cp' = [cp EXCEPT ![p] = place]

Begin(p) ==
  /\ cp[p] = "start"
  /\ Move(p, "makeOut")
  /\ UNCHANGED <<files, lock, readers, fifoVars, serverVars>>

\* createProcessFIFOs: mkfifo fails when the file is there already.
MakeFifo(p, here, fifo, next) ==
  /\ cp[p] = here
  /\ Move(p, IF fifo \in files THEN "gone" ELSE next)
  /\ files' = files \cup {fifo}
  /\ UNCHANGED <<lock, readers, fifoVars, serverVars>>

MakeOut(p) == MakeFifo(p, "makeOut", Out(p), "makeIn")
MakeIn(p)  == MakeFifo(p, "makeIn", In(p), "openIn")

\* Mutant of OpenIn: pid-in is opened when the answer is read.
OpenInLater(p) ==
  /\ cp[p] = "openIn"
  /\ Move(p, "lock")
  /\ UNCHANGED <<files, lock, readers, fifoVars, serverVars>>

OpenIn(p) ==
  /\ cp[p] = "openIn"
  /\ Move(p, "lock")
  /\ readers' = readers \cup {In(p)}
  /\ UNCHANGED <<files, lock, fifoVars, serverVars>>

\* Somebody has the main server's FIFO open for reading: main(), or the forked
\* servers it has left behind.
Listening == sp \notin {"start", "deserted"} /\ (sp = "over" => servers # {})

\* Mutant of TakeLock: the lock is not taken.
TakeLockNever(p) ==
  /\ cp[p] = "lock"
  /\ Listening
  /\ Move(p, "sendOut")
  /\ UNCHANGED <<files, lock, readers, fifoVars, serverVars>>

\* sendFIFOPaths: open without blocking, then flock.
TakeLock(p) ==
  /\ cp[p] = "lock"
  /\ Listening /\ lock = None
  /\ lock' = p
  /\ Move(p, "sendOut")
  /\ UNCHANGED <<files, readers, fifoVars, serverVars>>

\* A write waits while there is no room.
SendOut(p) ==
  /\ cp[p] = "sendOut" /\ Listening /\ Len(requests) < Room
  /\ requests' = Append(requests, Out(p))
  /\ Move(p, "sendIn")
  /\ UNCHANGED <<files, lock, readers, acks, hungUp, serverVars>>

SendIn(p) ==
  /\ cp[p] = "sendIn" /\ Listening /\ Len(requests) < Room
  /\ requests' = Append(requests, In(p))
  /\ lock' = None
  /\ Move(p, "wait")
  /\ UNCHANGED <<files, readers, acks, hungUp, serverVars>>

\* Mutant of Receive: the result of select() is not looked at.
ReceiveNothing(p) ==
  /\ cp[p] = "wait"
  /\ Move(p, "openOut")
  /\ UNCHANGED <<files, lock, readers, fifoVars, serverVars>>

Receive(p) ==
  /\ cp[p] = "wait" /\ In(p) \in acks
  /\ acks' = acks \ {In(p)}
  /\ Move(p, "openOut")
  /\ UNCHANGED <<files, lock, readers, requests, hungUp, serverVars>>

\* select() returns although there is nothing to read, and ensureRead tries for ever.
ReceiveEndOfFile(p) ==
  /\ cp[p] = "wait" /\ In(p) \in hungUp \ acks
  /\ Move(p, "spin")
  /\ UNCHANGED <<files, lock, readers, fifoVars, serverVars>>

\* This open waits for a reader.
OpenOut(p) ==
  /\ cp[p] = "openOut" /\ HasReader(Out(p))
  /\ Move(p, "connected")
  /\ UNCHANGED <<files, lock, readers, fifoVars, serverVars>>

\* However the process ends, the kernel closes what it had open and releases
\* the lock.  Its FIFOs stay where they are.
Leave(p) ==
  /\ Move(p, "gone")
  /\ readers' = readers \ {In(p)}
  /\ lock' = IF lock = p THEN None ELSE lock
  /\ UNCHANGED <<files, acks, hungUp, serverVars>>

\* select() returns 0: conn_open returns NULL.  Without the fault "timeout" this
\* happens only when there is nobody left to answer.
TimeOut(p) ==
  /\ cp[p] = "wait" /\ In(p) \notin acks \cup hungUp
  /\ "timeout" \in Faults \/ sp \in Ended \cup {"stop"}
  /\ Leave(p)
  /\ UNCHANGED requests

\* Nobody reads at the address: open fails, or a write raises SIGPIPE.
NobodyListens(p) ==
  /\ cp[p] \in {"lock", "sendOut", "sendIn"} /\ ~ Listening
  /\ Leave(p)
  /\ UNCHANGED requests

\* A length and the name that belongs to it are two writes.
Kill(p) ==
  /\ "kill" \in Faults
  /\ cp[p] \notin {"start", "connected", "gone"}
  /\ Leave(p)
  /\ \/ UNCHANGED requests
     \/ /\ cp[p] \in {"sendOut", "sendIn"} /\ Len(requests) < Room
        /\ requests' = Append(requests, Torn)

-----------------------------------------------------------------------------
(* The main server.                                                        *)

Listen ==
  /\ sp = "start"
  /\ sp' = "select"
  /\ UNCHANGED <<clientVars, fifoVars, conn, own, heirs, servers, unserved>>

\* However main() ends, what only it had open is closed.  A client it was about to
\* write to gets the end of the file, one it was about to fork for is left alone.
MainEnds ==
  /\ sp' = "over"
  /\ own' = {}
  /\ hungUp' = IF sp = "ack" THEN hungUp \cup {conn.out} ELSE hungUp
  /\ unserved' = IF sp = "fork" THEN unserved \cup {conn} ELSE unserved
  /\ UNCHANGED <<clientVars, requests, acks, conn, heirs, servers>>

KillMain ==
  /\ "mainkill" \in Faults
  /\ sp \notin {"start"} \cup Ended
  /\ MainEnds

\* The child has open whatever main() has.
ForkFor(c) == servers' = servers \cup {c} /\ heirs' = heirs \cup own

\* A name arrives.
ReadName(here, next, c) ==
  /\ sp = here /\ requests # <<>> /\ Head(requests) # Torn
  /\ requests' = Tail(requests)
  /\ sp' = next
  /\ conn' = c
  /\ UNCHANGED <<clientVars, acks, hungUp, own, heirs, servers, unserved>>

\* The client's out is the server's in, and the other way round.
ReadFirstName  == ReadName("select", "name", [conn EXCEPT !.in = Head(requests)])
ReadSecondName == ReadName("name", "openRead", [conn EXCEPT !.out = Head(requests)])

\* Where a name is missing, the bytes that follow are taken for it and the rest of
\* them for a length no malloc can satisfy: the read fails, conn_accept returns
\* NULL, and main() shuts down.  With the second name missing there is a fork
\* before that, for a connection that cannot be written.
ReadTorn ==
  /\ sp \in {"select", "name"} /\ requests # <<>> /\ Head(requests) = Torn
  /\ \E i \in 2 .. Len(requests) : requests[i] # Torn
  /\ requests' = Tail(requests)
  /\ sp' = "stop"
  /\ \/ sp = "name" /\ ForkFor([conn EXCEPT !.out = Torn])
     \/ /\ sp = "select" \/ "fork" \in Faults
        /\ UNCHANGED <<heirs, servers>>
  /\ UNCHANGED <<clientVars, acks, hungUp, conn, own, unserved>>

\* stopDBServer returns, if ever it does.
Stop == sp = "stop" /\ MainEnds

\* Mutant of OpenRead: the FIFO is left to the forked server to open.
OpenReadLater ==
  /\ sp = "openRead"
  /\ sp' = "openWrite"
  /\ UNCHANGED <<clientVars, fifoVars, conn, own, heirs, servers, unserved>>

OpenRead ==
  /\ sp = "openRead"
  /\ own' = own \cup {conn.in}
  /\ sp' = "openWrite"
  /\ UNCHANGED <<clientVars, fifoVars, conn, heirs, servers, unserved>>

\* "This should not fail, client has opened in read mode": it waits for a reader.
OpenWrite ==
  /\ sp = "openWrite" /\ HasReader(conn.out)
  /\ sp' = "ack"
  /\ UNCHANGED <<clientVars, fifoVars, conn, own, heirs, servers, unserved>>

\* conn_send of MESSAGE_OK.
Acknowledge ==
  /\ sp = "ack" /\ HasReader(conn.out)
  /\ acks' = acks \cup {conn.out}
  /\ sp' = "fork"
  /\ UNCHANGED <<clientVars, requests, hungUp, conn, own, heirs, servers, unserved>>

\* With the client gone since, SIGPIPE ends main().
AcknowledgeNobody == sp = "ack" /\ ~ HasReader(conn.out) /\ MainEnds

\* createForkedServer, whose result main() drops.  main() keeps the descriptors of
\* the connection open.
Fork ==
  /\ sp = "fork"
  /\ \/ ForkFor(conn) /\ UNCHANGED unserved
     \/ /\ "fork" \in Faults
        /\ unserved' = unserved \cup {conn}
        /\ UNCHANGED <<heirs, servers>>
  /\ conn' = NoConn
  /\ sp' = "select"
  /\ UNCHANGED <<clientVars, fifoVars, own>>

\* After main(), forked servers end when their clients are done with them, and close
\* what they have inherited; in the end there are none.
ServersEnd ==
  /\ sp = "over" /\ \E c \in servers : cp[c.in.pid] = "connected"
  /\ \/ /\ \E c \in unserved : heirs' = heirs \ {c.in}
        /\ UNCHANGED sp
     \/ /\ \A c \in servers : cp[c.in.pid] = "connected"
        /\ heirs' = {}
        /\ sp' = "deserted"
  /\ UNCHANGED <<clientVars, fifoVars, conn, own, servers, unserved>>

-----------------------------------------------------------------------------
Init ==
  /\ cp = [p \in Pids |-> "start"]
  /\ files \in SUBSET [pid : Pids, end : {"out", "in"}]
  /\ readers = {} /\ own = {} /\ heirs = {}
  /\ lock = None
  /\ requests = <<>>
  /\ acks = {} /\ hungUp = {}
  /\ sp = "start"
  /\ conn = NoConn
  /\ servers = {} /\ unserved = {}

ClientStep(p) ==
  \/ MakeOut(p) \/ MakeIn(p) \/ OpenIn(p) \/ TakeLock(p) \/ SendOut(p) \/ SendIn(p)
  \/ Receive(p) \/ ReceiveEndOfFile(p) \/ OpenOut(p) \/ TimeOut(p) \/ NobodyListens(p)

MainStep ==
  \/ ReadFirstName \/ ReadSecondName \/ ReadTorn
  \/ OpenRead \/ OpenWrite \/ Acknowledge \/ AcknowledgeNobody \/ Fork

Next ==
  \/ \E p \in Pids : Begin(p) \/ ClientStep(p) \/ Kill(p)
  \/ Listen \/ MainStep \/ Stop \/ KillMain \/ ServersEnd

Spec == Init /\ [][Next]_vars

\* Processes run, and a timer runs out.  Nobody has to start a program, nor stop one:
\* stopDBServer may have to wait for ever (MainServer).
FairSpec == Spec /\ (\A p \in Pids : WF_vars(ClientStep(p))) /\ WF_vars(MainStep)

-----------------------------------------------------------------------------
(* Properties.                                                             *)

\* The two names of a request reach the main server together, as long as there is
\* one: flock keeps clients from writing between each other's
\* (commWithFIFOs.c:253-267).  Only a client that dies between its writes breaks this.
Names == (IF sp = "name" THEN <<conn.in>> ELSE <<>>) \o requests

RequestsInPairs ==
  sp \notin Ended /\ (\A p \in Pids : cp[p] # "gone") =>
    \A i \in 1 .. Len(Names) :
      IF i % 2 = 1
        THEN /\ Names[i].end = "out"
             /\ i = Len(Names) => cp[Names[i].pid] = "sendIn"
        ELSE Names[i] = In(Names[i - 1].pid)

\* The connections that are made: handed to a forked server, or to the one about to be
\* forked, or to nobody when there is no fork (mainServer.c:127).
Handed == servers \cup (IF sp = "fork" THEN {conn} ELSE {})
Made == Handed \cup unserved
Pair(p) == [in |-> Out(p), out |-> In(p)]

\* When conn_open returns a connection, the one that conn_accept has made has the
\* other ends of it, whatever requests other clients left half sent, and no other
\* has either of them.
EndsMatch ==
  /\ \A p \in Pids : cp[p] = "connected" => Pair(p) \in Made
  /\ servers \cap unserved = {}
  /\ \A c, d \in Made : c.in = d.in \/ c.out = d.out => c = d

\* conn_accept waits for a reader of a FIFO only on account of the clients whose
\* names it has read (commWithFIFOs.c:213, "client has opened in read mode"): one
\* of them has gone.  It never waits for a client that is merely slow.
WaitsOnlyForTheGone ==
  sp = "openWrite" /\ ~ HasReader(conn.out) =>
    cp[conn.in.pid] = "gone" \/ cp[conn.out.pid] = "gone"

\* The main server has gone without a word to p, in the middle of its request: p gets
\* the end of the file, or waits for a reader that has been closed.
Abandoned(p) ==
  \/ cp[p] = "spin"
  \/ cp[p] = "openOut" /\ sp \in Ended /\ ~ HasReader(Out(p))

\* The main server's FIFO is full, and nobody is going to read it: a client waits in
\* its write, with the lock, and the others for the lock.
Jammed ==
  /\ Len(requests) >= Room
  /\ \/ sp \in {"stop"} \cup Ended
     \/ sp = "openWrite" /\ ~ HasReader(conn.out)

\* A client does not stay in conn_open: it gets a connection or ends
\* (commWithFIFOs.c:102, the ten seconds), also when the main server is stuck or
\* dead; unless it has been abandoned, or the FIFO is full.
ConnOpenReturns ==
  \A p \in Pids : cp[p] = "makeOut" ~> cp[p] \in {"connected", "gone"} \/ Abandoned(p) \/ Jammed

\* comm.h:84-92, "Waits until there's an available connection, and returns it
\* when it's ready ... or NULL on error": once it has read a request, conn_accept
\* gets on with it.
ConnAcceptReturns == sp = "openWrite" ~> sp # "openWrite"
==============================================================================
