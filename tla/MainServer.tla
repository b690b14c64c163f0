------------------------------ MODULE MainServer ------------------------------
(***************************************************************************)
(* The main server (mainServer.c): it reads its configuration, starts the  *)
(* database server behind a new shared connection (server/dbConn.c),       *)
(* listens, accepts and forks, and stops the database server when          *)
(* listening or accepting fails.                                           *)
(*                                                                         *)
(* More than one main server may be started, one after the other or        *)
(* together: they use the same configuration file, the same shared memory  *)
(* and so the same mutex, but each has pipes of its own.                   *)
(*                                                                         *)
(* A client stands for its process and its forked server, which is seen    *)
(* from the mutex: Shop has the rest of a session, and FifoHandshake what  *)
(* Connect and Accept do over FIFOs.                                       *)
(***************************************************************************)
EXTENDS Config, Addresses

CONSTANTS Mains,      \* the main servers that may be started
          Clients,
          None,       \* nobody
          Transports, \* commWithSockets.c, commWithFIFOs.c: one of them is compiled
          Here,       \* the IP address of this host
          Faults,     \* what may go wrong: pipes or shared memory, fork, execve,
                      \* accept, a main server is killed, a client goes away while
                      \* it waits to be accepted or for an answer, the file of
                      \* the database is busy
          MaxFds,     \* how many connections a process can have open
          MaxAsks     \* bound: how often a client asks for something

ASSUME MainServerAssumption ==
  /\ Mains \cap Clients = {}
  /\ None \notin Mains \cup Clients /\ "CLOSE" \notin Clients
  /\ Transports \subseteq {"sockets", "fifos"}
  /\ Faults \subseteq {"pipe", "fork", "exec", "accept", "kill", "gone", "sigpipe", "busy"}
  /\ {"server", "listening port"} \subseteq Keys
  /\ MaxFds \in Nat /\ MaxAsks \in Nat

VARIABLES
  transport,
  mp,       \* the place of each main server
  db,       \* its database server: "none", "exec", "run", "over"
  fds,      \* how many connections it has open
  address,  \* whose is the listening address
  mutex,    \* who has locked the mutex in the shared memory
  toDb,     \* the pipes of each main server: who wrote a request, or "CLOSE"
  fromDb,
  sp,       \* the place of each client and its forked server
  home,     \* the main server they belong to
  asks      \* how often they have asked

mainVars == <<mp, db, fds, address>>
pipeVars == <<mutex, toDb, fromDb>>
sessionVars == <<sp, home, asks>>
settings == <<transport, configVars>>
vars == <<settings, mainVars, pipeVars, sessionVars>>

\* Before setup() has returned; startDBServer; its fork; conn_listen;
\* conn_accept; in its open() for a client that is gone; createForkedServer;
\* stopDBServer before and after it has locked the mutex; ended in sh_conn_destroy,
\* by an early return, in getListeningPort or conn_listen, or by a signal.
Ended == {"over", "aborted", "crashed", "killed"}
MainPlaces ==
  {"setup", "start", "forkDb", "listen", "accept", "blocked", "fork", "stop", "close"} \cup Ended

\* Not started; in the backlog; in the main server's hands; in the main loop;
\* before the mutex; before, while and after the database server answers; the
\* session is over; could not connect; connected, but to nobody; gone before that.
Holding == {"ask", "await", "unlock"}
SessionPlaces ==
  Holding \cup {"away", "queued", "taken", "idle", "lock", "over", "refused", "unserved", "gone"}

Go(m, place) == mp' = [mp EXCEPT ![m] = place]
Step(c, place) == sp' = [sp EXCEPT ![c] = place]

\* Forked servers inherit the listening descriptor and never close it.
Alive(m) ==
  \/ mp[m] \in MainPlaces \ (Ended \cup {"setup"})
  \/ \E c \in Clients : home[c] = m /\ sp[c] \in Holding \cup {"idle", "lock"}
Listening == address # None /\ Alive(address)

-----------------------------------------------------------------------------
(* The main server.                                                        *)

\* setup() has returned; what it returned is not looked at.
Setup(m) ==
  /\ mp[m] = "setup" /\ setup # "reading"
  /\ Go(m, "start")
  /\ text' = <<>> /\ q' = "q0"
  /\ UNCHANGED <<transport, config, setup, db, fds, address, pipeVars, sessionVars>>

\* startDBServer: the pipes, and sh_conn_create, which truncates the shared memory
\* and initialises the mutex in it, whoever uses it.
StartDBServer(m) ==
  /\ mp[m] = "start"
  /\ \/ /\ Go(m, "forkDb")
        /\ mutex' = None
     \/ /\ "pipe" \in Faults
        /\ Go(m, "aborted")
        /\ UNCHANGED mutex
  /\ UNCHANGED <<settings, db, fds, address, toDb, fromDb, sessionVars>>

\* The result of fork() is only compared with zero.
ForkDBServer(m) ==
  /\ mp[m] = "forkDb"
  /\ Go(m, "listen")
  /\ \/ db' = [db EXCEPT ![m] = "exec"]
     \/ "fork" \in Faults /\ UNCHANGED db
  /\ UNCHANGED <<settings, fds, address, pipeVars, sessionVars>>

\* Whether conn_listen succeeds.  A FIFO that is there is removed first.
CanListen ==
  /\ config["listening port"] # Unset
  /\ transport = "sockets" => isValidPort(config["listening port"]) /\ ~ Listening

\* getListeningPort(NULL) crashes; so may the check of a port that is not there.
Listen(m) ==
  /\ mp[m] = "listen"
  /\ \/ /\ setup = "config" /\ CanListen
        /\ Go(m, "accept")
        /\ address' = m
     \/ /\ setup = "config" /\ ~ CanListen
        /\ Go(m, "stop")
        /\ UNCHANGED address
     \/ /\ \/ setup = "NULL"
           \/ transport = "sockets" /\ config["listening port"] = Unset
        /\ Go(m, "crashed")
        /\ UNCHANGED address
  /\ UNCHANGED <<settings, db, fds, pipeVars, sessionVars>>

\* main() never closes a connection.
Accept(m, c) ==
  /\ mp[m] = "accept" /\ sp[c] = "queued" /\ home[c] = m
  /\ fds[m] < MaxFds
  /\ Go(m, "fork")
  /\ Step(c, "taken")
  /\ fds' = [fds EXCEPT ![m] = @ + 1]
  /\ UNCHANGED <<settings, db, address, pipeVars, home, asks>>

\* commWithFIFOs.c:213-217: the client is gone before its FIFO is opened, which
\* then takes for ever, or before the MESSAGE_OK, which is then the end of main().
AcceptGone(m, c) ==
  /\ "gone" \in Faults /\ transport = "fifos"
  /\ mp[m] = "accept" /\ sp[c] = "queued" /\ home[c] = m
  /\ fds[m] < MaxFds
  /\ \E place \in {"blocked", "killed"} : Go(m, place)
  /\ Step(c, "gone")
  /\ UNCHANGED <<settings, db, fds, address, pipeVars, home, asks>>

\* Without a descriptor left accept() fails at once.  The opens of the FIFOs fail
\* too, but conn_accept does not look: it hands out a connection to nobody.
AcceptFails(m) ==
  /\ mp[m] = "accept"
  /\ \/ /\ transport = "sockets" /\ fds[m] = MaxFds
        /\ Go(m, "stop")
        /\ UNCHANGED sp
     \/ \E c \in Clients :
          /\ transport = "fifos" /\ fds[m] = MaxFds
          /\ sp[c] = "queued" /\ home[c] = m
          /\ Step(c, "unserved")
          /\ UNCHANGED mp
  /\ UNCHANGED <<settings, db, fds, address, pipeVars, home, asks>>

\* Any other error of accept() or read().
AcceptError(m) ==
  /\ "accept" \in Faults /\ mp[m] = "accept"
  /\ Go(m, "stop")
  /\ UNCHANGED <<settings, db, fds, address, pipeVars, sessionVars>>

\* createForkedServer; main() drops its result.
CreateForkedServer(m, c) ==
  /\ mp[m] = "fork" /\ sp[c] = "taken" /\ home[c] = m
  /\ Go(m, "accept")
  /\ \/ Step(c, "idle")
     \/ "fork" \in Faults /\ Step(c, "unserved")
  /\ UNCHANGED <<settings, db, fds, address, pipeVars, home, asks>>

\* Mutant of StopDBServer: it does not wait for the mutex.
StopDBServerAtOnce(m) ==
  /\ mp[m] = "stop"
  /\ mutex' = m
  /\ Go(m, "close")
  /\ UNCHANGED <<settings, db, fds, address, toDb, fromDb, sessionVars>>

\* stopDBServer: sh_conn_open
StopDBServer(m) ==
  /\ mp[m] = "stop" /\ mutex = None
  /\ mutex' = m
  /\ Go(m, "close")
  /\ UNCHANGED <<settings, db, fds, address, toDb, fromDb, sessionVars>>

\* Mutant of CloseDBServer: nothing is sent.
CloseDBServerSilent(m) ==
  /\ mp[m] = "close"
  /\ Go(m, "over")
  /\ UNCHANGED <<settings, db, fds, address, pipeVars, sessionVars>>

\* The connection is forgotten before it is destroyed: sh_conn_destroy(NULL) ends
\* the process, with the mutex locked and the shared memory still there.
CloseDBServer(m) ==
  /\ mp[m] = "close"
  /\ toDb' = [toDb EXCEPT ![m] = Append(@, "CLOSE")]
  /\ Go(m, "over")
  /\ UNCHANGED <<settings, db, fds, address, mutex, fromDb, sessionVars>>

Kill(m) ==
  /\ "kill" \in Faults /\ mp[m] \notin Ended \cup {"setup"}
  /\ Go(m, "killed")
  /\ UNCHANGED <<settings, db, fds, address, pipeVars, sessionVars>>

-----------------------------------------------------------------------------
(* The database server, which inherits both ends of its pipes and so never *)
(* sees their end.                                                         *)

\* When execve fails the child kills its parent.
ExecDBServer(m) ==
  /\ db[m] = "exec"
  /\ \/ db' = [db EXCEPT ![m] = "run"] /\ UNCHANGED mp
     \/ /\ "exec" \in Faults
        /\ db' = [db EXCEPT ![m] = "over"]
        /\ IF mp[m] \in Ended THEN UNCHANGED mp ELSE Go(m, "killed")
  /\ UNCHANGED <<settings, fds, address, pipeVars, sessionVars>>

\* Mutant of ServeRequest: there is no answer.
ServeRequestSilent(m) ==
  /\ db[m] = "run" /\ toDb[m] # <<>>
  /\ toDb' = [toDb EXCEPT ![m] = Tail(@)]
  /\ db' = [db EXCEPT ![m] = IF Head(toDb[m]) = "CLOSE" THEN "over" ELSE @]
  /\ UNCHANGED <<settings, mp, fds, address, mutex, fromDb, sessionVars>>

ServeRequest(m) ==
  /\ db[m] = "run" /\ toDb[m] # <<>>
  /\ toDb' = [toDb EXCEPT ![m] = Tail(@)]
  /\ \/ /\ Head(toDb[m]) = "CLOSE"
        /\ db' = [db EXCEPT ![m] = "over"]
        /\ UNCHANGED fromDb
     \/ /\ Head(toDb[m]) # "CLOSE"
        /\ fromDb' = [fromDb EXCEPT ![m] = Append(@, Head(toDb[m]))]
        /\ UNCHANGED db
  /\ UNCHANGED <<settings, mp, fds, address, mutex, sessionVars>>

-----------------------------------------------------------------------------
(* Clients and their forked servers.                                       *)

\* conn_open at the address of the configuration file.  A connection gets into the
\* backlog also when only forked servers have the listening socket open.
GetsThrough ==
  /\ Listening
  /\ config["server"] # Unset
  /\ IF transport = "sockets"
       THEN Reaches(config["server"], Here, config["listening port"].port)
       ELSE config["server"] = config["listening port"]

Connect(c) ==
  /\ sp[c] = "away" /\ setup = "config"
  /\ \/ GetsThrough /\ Step(c, "queued") /\ home' = [home EXCEPT ![c] = address]
     \/ ~ GetsThrough /\ Step(c, "refused") /\ UNCHANGED home
  /\ UNCHANGED <<settings, mainVars, pipeVars, asks>>

Request(c) ==
  /\ sp[c] = "idle" /\ asks[c] < MaxAsks
  /\ asks' = [asks EXCEPT ![c] = @ + 1]
  /\ Step(c, "lock")
  /\ UNCHANGED <<settings, mainVars, pipeVars, home>>

\* Mutant of OpenConnection: the mutex is not looked at.
OpenConnectionUnlocked(c) ==
  /\ sp[c] = "lock"
  /\ mutex' = c
  /\ Step(c, "ask")
  /\ UNCHANGED <<settings, mainVars, toDb, fromDb, home, asks>>

OpenConnection(c) ==
  /\ sp[c] = "lock" /\ mutex = None
  /\ mutex' = c
  /\ Step(c, "ask")
  /\ UNCHANGED <<settings, mainVars, toDb, fromDb, home, asks>>

Ask(c) ==
  /\ sp[c] = "ask"
  /\ toDb' = [toDb EXCEPT ![home[c]] = Append(@, c)]
  /\ Step(c, "await")
  /\ UNCHANGED <<settings, mainVars, mutex, fromDb, home, asks>>

\* getProducts returns at once when the answer is MESSAGE_ERROR: the session goes
\* on with the mutex locked.
ReadAnswer(c) ==
  /\ sp[c] = "await" /\ fromDb[home[c]] # <<>>
  /\ fromDb' = [fromDb EXCEPT ![home[c]] = Tail(@)]
  /\ \/ Step(c, "unlock")
     \/ "busy" \in Faults /\ Step(c, "idle")
  /\ UNCHANGED <<settings, mainVars, mutex, toDb, home, asks>>

\* processOrder sends the answer on before it unlocks the mutex: when the client is
\* gone SIGPIPE ends the forked server, and the mutex stays locked.
BrokenPipe(c) ==
  /\ "sigpipe" \in Faults /\ sp[c] = "unlock"
  /\ Step(c, "over")
  /\ UNCHANGED <<settings, mainVars, pipeVars, home, asks>>

\* pthread_mutex_unlock does not ask who locked it.
CloseConnection(c) ==
  /\ sp[c] = "unlock"
  /\ mutex' = None
  /\ Step(c, "idle")
  /\ UNCHANGED <<settings, mainVars, toDb, fromDb, home, asks>>

\* The client closes the connection.
Leave(c) ==
  /\ sp[c] = "idle"
  /\ Step(c, "over")
  /\ UNCHANGED <<settings, mainVars, pipeVars, home, asks>>

-----------------------------------------------------------------------------
Init ==
  /\ transport \in Transports
  /\ ConfigInit
  /\ mp = [m \in Mains |-> "setup"]
  /\ db = [m \in Mains |-> "none"]
  /\ fds = [m \in Mains |-> 0]
  /\ address = None
  /\ mutex = None
  /\ toDb = [m \in Mains |-> <<>>] /\ fromDb = [m \in Mains |-> <<>>]
  /\ sp = [c \in Clients |-> "away"]
  /\ home = [c \in Clients |-> None]
  /\ asks = [c \in Clients |-> 0]

MainStep(m) ==
  \/ StartDBServer(m) \/ ForkDBServer(m) \/ Listen(m) \/ AcceptFails(m)
  \/ \E c \in Clients : Accept(m, c) \/ CreateForkedServer(m, c)
  \/ StopDBServer(m) \/ CloseDBServer(m)

DbStep(m) == ExecDBServer(m) \/ ServeRequest(m)

SessionStep(c) == OpenConnection(c) \/ Ask(c) \/ ReadAnswer(c) \/ CloseConnection(c)

ReadConfig == ConfigNext /\ UNCHANGED <<transport, mainVars, pipeVars, sessionVars>>

Next ==
  \/ ReadConfig
  \/ \E m \in Mains : Setup(m) \/ MainStep(m) \/ AcceptError(m) \/ Kill(m) \/ DbStep(m)
  \/ \E m \in Mains, c \in Clients : AcceptGone(m, c)
  \/ \E c \in Clients : Connect(c) \/ Request(c) \/ SessionStep(c) \/ BrokenPipe(c) \/ Leave(c)

Spec == Init /\ [][Next]_vars

\* Processes run.  Nobody has to start a program or ask for anything.
FairSpec ==
  /\ Spec
  /\ \A m \in Mains : WF_vars(MainStep(m)) /\ WF_vars(DbStep(m))
  /\ \A c \in Clients : WF_vars(SessionStep(c))

-----------------------------------------------------------------------------
(* Properties.                                                             *)

\* What setup() returned is what the file says (config.c), by a definition of its
\* own: the file is a series of sections "[addresses] ... end" with empty lines
\* anywhere, sections hold parameters only, and the last value of a key counts.
EndsSection(i) == text[i].kind = "end" \/ (text[i].kind = "param" /\ text[i].key = "end")
Inside(i) == \E j \in 1 .. i - 1 :
  text[j].kind = "[addresses]" /\ \A k \in j + 1 .. i - 1 : ~ EndsSection(k)
WellFormed ==
  /\ \A i \in 1 .. Len(text) :
       text[i].kind \in IF Inside(i) THEN {"param", "end", ""} ELSE {"[addresses]", ""}
  /\ ~ Inside(Len(text) + 1)
ValueOf(key) ==
  LET written == {i \in 1 .. Len(text) : text[i].kind = "param" /\ text[i].key = key}
  IN  IF written = {} THEN Unset
      ELSE text[CHOOSE i \in written : \A j \in written : j <= i].value

ParsedAsWritten ==
  setup # "reading" /\ text # <<>> =>
    /\ setup = "config" <=> WellFormed
    /\ setup = "config" => \A k \in Keys : config[k] = ValueOf(k)

\* sh_conn_open "WILL LOCK if the connection is busy" (server/dbConn.h:46): the
\* forked servers of a main server use its pipes one at a time.
OneAtATime ==
  \A c, d \in Clients :
    c # d /\ home[c] = home[d] => ~ (sp[c] \in Holding /\ sp[d] \in Holding)

\* stopDBServer "will respect mutex" (mainServer.c:75): MESSAGE_CLOSE never gets
\* between a request and its answer, and nothing is asked after it.
StopsBetweenExchanges ==
  \A m \in Mains :
    mp[m] = "close" \/ db[m] = "over" \/ (\E i \in 1 .. Len(toDb[m]) : toDb[m][i] = "CLOSE") =>
      /\ Len(toDb[m]) <= 1 /\ fromDb[m] = <<>>
      /\ db[m] = "run" => \A c \in Clients : home[c] = m => sp[c] \notin Holding

\* Main server m has no database server: fork() failed, or it has ended.
Unattended(m) == db[m] \in {"none", "over"}

\* The mutex is locked by a session that is not going to unlock it: it returned
\* early from getProducts (forkedServer.c:126) or ended in processOrder (:97, :105).
Stuck == \E c \in Clients : mutex = c /\ sp[c] \notin Holding

\* A main server that cannot listen or accept stops its database server before it
\* ends (mainServer.c:114-117 and 122-125), unless a session has left the mutex
\* locked: stopDBServer then waits for it.
DatabaseEndsToo ==
  \A m \in Mains : mp[m] = "stop" ~> Unattended(m) \/ mp[m] = "killed" \/ Stuck

\* A client waiting to be accepted gets on unless its main server has ended or waits
\* for a client that is gone, or for the mutex with nobody to unlock it; a forked
\* server at the mutex, as long as there is a database server and no session has left
\* the mutex locked.
ServedWhileOpen ==
  \A c \in Clients :
    /\ sp[c] = "queued" ~>
         \/ sp[c] # "queued"
         \/ \E m \in Mains : home[c] = m /\ mp[m] \in Ended \cup {"blocked"}
         \/ \E m \in Mains : home[c] = m /\ mp[m] = "stop" /\ (Unattended(m) \/ Stuck)
    /\ sp[c] = "lock" ~>
         \/ sp[c] = "idle" \/ mutex \in Mains \/ Stuck
         \/ \E m \in Mains : home[c] = m /\ Unattended(m)
==============================================================================
