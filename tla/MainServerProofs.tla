-------------------------- MODULE MainServerProofs ---------------------------
(***************************************************************************)
(* As long as there is only one main server, whatever else goes wrong: its *)
(* forked servers use the pipes one at a time, and its database server is  *)
(* told to stop between two exchanges.  (With a second main server neither *)
(* holds: StartDBServer unlocks the mutex.)                                *)
(*                                                                         *)
(* The inductive invariant says who has locked the mutex, from both sides, *)
(* and what is on the pipes meanwhile.  It needs Started: nobody uses the  *)
(* mutex before StartDBServer has initialised it.                          *)
(*                                                                         *)
(* Before that, with any number of main servers: however long the          *)
(* configuration file is, and whatever keys the automaton of               *)
(* common/config.c knows, what setup() returns is what the file says.      *)
(***************************************************************************)
EXTENDS MainServer, TLAPS

-----------------------------------------------------------------------------
(* The mutex and the pipes.                                                *)

\* The server is started once.
OneMain == \A m, n \in Mains : m = n

\* Places, owners and addresses.
Types ==
  /\ mp \in [Mains -> MainPlaces]
  /\ mutex \in Mains \cup Clients \cup {None}
  /\ sp \in [Clients -> SessionPlaces]
  /\ home \in [Clients -> Mains \cup {None}]
  /\ address \in Mains \cup {None}
\* The database servers and their pipes.
DbTypes ==
  /\ db \in [Mains -> {"none", "exec", "run", "over"}]
  /\ toDb = [m \in Mains |-> toDb[m]]
  /\ fromDb = [m \in Mains |-> fromDb[m]]

\* Before conn_listen has succeeded nobody is connected.
Early == {"setup", "start", "forkDb", "listen"}
Started ==
  /\ \A m \in Mains : mp[m] \in Early => address = None
  /\ \A c \in Clients : sp[c] \notin {"away", "refused"} => address # None /\ home[c]
       \in Mains

\* Who is between sh_conn_open and sh_conn_close has locked the mutex.  It may also be
\* locked by a session that has left it so, or by a main server.
Locked ==
  /\ \A c \in Clients : sp[c] \in Holding => mutex = c
  /\ \A c \in Clients : mutex = c => sp[c] \in Holding \cup {"idle", "lock", "over"}
  /\ \A m \in Mains : mutex = m => mp[m] \in {"close", "over", "killed"}
  /\ \A m \in Mains : mp[m] = "close" => mutex = m

\* What is on the pipes while somebody, or nobody, has locked the mutex.
Empty(m) == toDb[m] = <<>> /\ fromDb[m] = <<>>
Exchange(m) ==
  /\ mutex = None => Empty(m)
  /\ mutex = m => fromDb[m] = <<>> /\ toDb[m] \in {<<>>, <<"CLOSE">>}
  /\ mp[m] = "close" => toDb[m] = <<>>
  /\ db[m] # "run" => fromDb[m] = <<>>
  /\ \A c \in Clients :
       mutex = c =>
         \/ sp[c] # "await" /\ Empty(m)
         \/ sp[c] = "await" /\ toDb[m] = <<c>> /\ fromDb[m] = <<>>
         \/ sp[c] = "await" /\ toDb[m] = <<>> /\ fromDb[m] = <<c>>
Exchanges == \A m \in Mains : Exchange(m)

\* The inductive invariant.
IInv == Types /\ DbTypes /\ Started /\ Locked /\ Exchanges

-----------------------------------------------------------------------------
\* Places, owners and addresses keep their types.
LEMMA TypesKept ==
  ASSUME Types, [Next]_vars
  PROVE  Types'
<1> USE DEF Types, MainPlaces, SessionPlaces, Holding, Ended,
            Go, Step, mainVars, pipeVars, sessionVars
<1>1. CASE ReadConfig
  BY <1>1 DEF ReadConfig
<1>2. ASSUME NEW m \in Mains, Setup(m) PROVE Types'
  BY <1>2 DEF Setup
<1>3. ASSUME NEW m \in Mains, StartDBServer(m) PROVE Types'
  BY <1>3 DEF StartDBServer
<1>4. ASSUME NEW m \in Mains, ForkDBServer(m) PROVE Types'
  BY <1>4 DEF ForkDBServer
<1>5. ASSUME NEW m \in Mains, Listen(m) PROVE Types'
  BY <1>5 DEF Listen
<1>6. ASSUME NEW m \in Mains, AcceptFails(m) PROVE Types'
  BY <1>6 DEF AcceptFails
<1>7. ASSUME NEW m \in Mains, AcceptError(m) PROVE Types'
  BY <1>7 DEF AcceptError
<1>8. ASSUME NEW m \in Mains, StopDBServer(m) PROVE Types'
  BY <1>8 DEF StopDBServer
<1>9. ASSUME NEW m \in Mains, CloseDBServer(m) PROVE Types'
  BY <1>9 DEF CloseDBServer
<1>10. ASSUME NEW m \in Mains, Kill(m) PROVE Types'
  BY <1>10 DEF Kill
<1>11. ASSUME NEW m \in Mains, ExecDBServer(m) PROVE Types'
  BY <1>11 DEF ExecDBServer
<1>12. ASSUME NEW m \in Mains, ServeRequest(m) PROVE Types'
  BY <1>12 DEF ServeRequest
<1>13. ASSUME NEW m \in Mains, NEW c \in Clients, Accept(m, c) PROVE Types'
  BY <1>13 DEF Accept
<1>14. ASSUME NEW m \in Mains, NEW c \in Clients, CreateForkedServer(m, c) PROVE Types'
  BY <1>14 DEF CreateForkedServer
<1>15. ASSUME NEW c \in Clients, Connect(c) PROVE Types'
  BY <1>15 DEF Connect
<1>16. ASSUME NEW c \in Clients, Request(c) PROVE Types'
  BY <1>16 DEF Request
<1>17. ASSUME NEW c \in Clients, OpenConnection(c) PROVE Types'
  BY <1>17 DEF OpenConnection
<1>18. ASSUME NEW c \in Clients, Ask(c) PROVE Types'
  BY <1>18 DEF Ask
<1>19. ASSUME NEW c \in Clients, ReadAnswer(c) PROVE Types'
  BY <1>19 DEF ReadAnswer
<1>20. ASSUME NEW c \in Clients, CloseConnection(c) PROVE Types'
  BY <1>20 DEF CloseConnection
<1>21. ASSUME NEW c \in Clients, Leave(c) PROVE Types'
  BY <1>21 DEF Leave
<1>22. ASSUME NEW m \in Mains, NEW c \in Clients, AcceptGone(m, c) PROVE Types'
  BY <1>22 DEF AcceptGone
<1>23. ASSUME NEW c \in Clients, BrokenPipe(c) PROVE Types'
  BY <1>23 DEF BrokenPipe
<1>24. CASE UNCHANGED vars
  BY <1>24 DEF vars
<1> QED BY <1>1, <1>2, <1>3, <1>4, <1>5, <1>6, <1>7, <1>8, <1>9, <1>10, <1>11, <1>12,
     <1>13, <1>14, <1>15, <1>16, <1>17, <1>18, <1>19, <1>20, <1>21, <1>22,
     <1>23, <1>24
  DEF Next, MainStep, DbStep, SessionStep

\* Nobody is connected before the main server listens.
LEMMA StartedKept ==
  ASSUME OneMain, Types, Started, [Next]_vars
  PROVE  Started'
<1> USE DEF OneMain, Types, Started, Early, Go, Step, mainVars, pipeVars, sessionVars
<1>1. CASE ReadConfig
  BY <1>1 DEF ReadConfig
<1>2. ASSUME NEW m \in Mains, Setup(m) PROVE Started'
  BY <1>2 DEF Setup, CanListen, GetsThrough, Listening, Ended
<1>3. ASSUME NEW m \in Mains, StartDBServer(m) PROVE Started'
  BY <1>3 DEF StartDBServer, CanListen, GetsThrough, Listening, Ended
<1>4. ASSUME NEW m \in Mains, ForkDBServer(m) PROVE Started'
  BY <1>4 DEF ForkDBServer, CanListen, GetsThrough, Listening, Ended
<1>5. ASSUME NEW m \in Mains, Listen(m) PROVE Started'
  BY <1>5 DEF Listen, CanListen, GetsThrough, Listening, Ended
<1>6. ASSUME NEW m \in Mains, AcceptFails(m) PROVE Started'
  BY <1>6 DEF AcceptFails, CanListen, GetsThrough, Listening, Ended
<1>7. ASSUME NEW m \in Mains, AcceptError(m) PROVE Started'
  BY <1>7 DEF AcceptError, CanListen, GetsThrough, Listening, Ended
<1>8. ASSUME NEW m \in Mains, StopDBServer(m) PROVE Started'
  BY <1>8 DEF StopDBServer, CanListen, GetsThrough, Listening, Ended
<1>9. ASSUME NEW m \in Mains, CloseDBServer(m) PROVE Started'
  BY <1>9 DEF CloseDBServer, CanListen, GetsThrough, Listening, Ended
<1>10. ASSUME NEW m \in Mains, Kill(m) PROVE Started'
  BY <1>10 DEF Kill, CanListen, GetsThrough, Listening, Ended
<1>11. ASSUME NEW m \in Mains, ExecDBServer(m) PROVE Started'
  BY <1>11 DEF ExecDBServer, CanListen, GetsThrough, Listening, Ended
<1>12. ASSUME NEW m \in Mains, ServeRequest(m) PROVE Started'
  BY <1>12 DEF ServeRequest, CanListen, GetsThrough, Listening, Ended
<1>13. ASSUME NEW m \in Mains, NEW c \in Clients, Accept(m, c) PROVE Started'
  BY <1>13 DEF Accept, CanListen, GetsThrough, Listening, Ended
<1>14. ASSUME NEW m \in Mains, NEW c \in Clients, CreateForkedServer(m, c) PROVE Started'
  BY <1>14 DEF CreateForkedServer, CanListen, GetsThrough, Listening, Ended
<1>15. ASSUME NEW c \in Clients, Connect(c) PROVE Started'
  BY <1>15 DEF Connect, CanListen, GetsThrough, Listening, Ended
<1>16. ASSUME NEW c \in Clients, Request(c) PROVE Started'
  BY <1>16 DEF Request, CanListen, GetsThrough, Listening, Ended
<1>17. ASSUME NEW c \in Clients, OpenConnection(c) PROVE Started'
  BY <1>17 DEF OpenConnection, CanListen, GetsThrough, Listening, Ended
<1>18. ASSUME NEW c \in Clients, Ask(c) PROVE Started'
  BY <1>18 DEF Ask, CanListen, GetsThrough, Listening, Ended
<1>19. ASSUME NEW c \in Clients, ReadAnswer(c) PROVE Started'
  BY <1>19 DEF ReadAnswer, CanListen, GetsThrough, Listening, Ended
<1>20. ASSUME NEW c \in Clients, CloseConnection(c) PROVE Started'
  BY <1>20 DEF CloseConnection, CanListen, GetsThrough, Listening, Ended
<1>21. ASSUME NEW c \in Clients, Leave(c) PROVE Started'
  BY <1>21 DEF Leave, CanListen, GetsThrough, Listening, Ended
<1>22. ASSUME NEW m \in Mains, NEW c \in Clients, AcceptGone(m, c) PROVE Started'
  BY <1>22 DEF AcceptGone, CanListen, GetsThrough, Listening, Ended
<1>23. ASSUME NEW c \in Clients, BrokenPipe(c) PROVE Started'
  BY <1>23 DEF BrokenPipe, CanListen, GetsThrough, Listening, Ended
<1>24. CASE UNCHANGED vars
  BY <1>24 DEF vars
<1> QED BY <1>1, <1>2, <1>3, <1>4, <1>5, <1>6, <1>7, <1>8, <1>9, <1>10, <1>11, <1>12,
     <1>13, <1>14, <1>15, <1>16, <1>17, <1>18, <1>19, <1>20, <1>21, <1>22,
     <1>23, <1>24
  DEF Next, MainStep, DbStep, SessionStep

\* Nobody uses the connection before the main server listens.
LEMMA NobodyEarly ==
  ASSUME OneMain, Types, Started, Locked, NEW m \in Mains, mp[m] \in Early
  PROVE  mutex = None
<1>1. \A c \in Clients : sp[c] \in {"away", "refused"}
  BY DEF Started
<1>2. mutex \notin Clients
  BY <1>1 DEF Locked, Holding
<1>3. mutex # m
  BY DEF Locked, Early
<1> QED BY <1>2, <1>3 DEF OneMain, Types

\* The mutex is locked by whoever is between sh_conn_open and sh_conn_close.
LEMMA LockedKept ==
  ASSUME OneMain, Types, Started, Locked, [Next]_vars
  PROVE  Locked'
<1> USE MainServerAssumption DEF OneMain, Types, Locked, Holding,
                                 Go, Step, mainVars, pipeVars, sessionVars
<1>1. CASE ReadConfig
  BY <1>1 DEF ReadConfig
<1>2. ASSUME NEW m \in Mains, Setup(m) PROVE Locked'
  BY <1>2 DEF Setup, Started, Early
<1>3. ASSUME NEW m \in Mains, StartDBServer(m) PROVE Locked'
  <2>1. mutex = None
    BY <1>3, NobodyEarly DEF StartDBServer, Early
  <2>2. mutex' = None /\ sp' = sp /\ \E place \in {"forkDb", "aborted"} : mp' = [mp EXCEPT ![m] = place]
    BY <1>3, <2>1 DEF StartDBServer
  <2>3. ASSUME NEW d \in Clients PROVE sp'[d] \notin Holding /\ mutex' # d
    BY <2>1, <2>2
  <2>4. ASSUME NEW n \in Mains PROVE mutex' # n /\ mp'[n] # "close"
    BY <2>1, <2>2
  <2> QED BY <2>3, <2>4
<1>4. ASSUME NEW m \in Mains, ForkDBServer(m) PROVE Locked'
  BY <1>4 DEF ForkDBServer, Started, Early
<1>5. ASSUME NEW m \in Mains, Listen(m) PROVE Locked'
  BY <1>5 DEF Listen, Started, Early
<1>6. ASSUME NEW m \in Mains, AcceptFails(m) PROVE Locked'
  BY <1>6 DEF AcceptFails, Started, Early
<1>7. ASSUME NEW m \in Mains, AcceptError(m) PROVE Locked'
  BY <1>7 DEF AcceptError, Started, Early
<1>8. ASSUME NEW m \in Mains, StopDBServer(m) PROVE Locked'
  <2>1. mutex = None /\ mutex' = m /\ sp' = sp /\ mp' = [mp EXCEPT ![m] = "close"]
    BY <1>8 DEF StopDBServer
  <2>2. ASSUME NEW d \in Clients PROVE sp'[d] \notin Holding /\ mutex' # d
    BY <2>1
  <2>3. ASSUME NEW n \in Mains PROVE mutex' = n /\ mp'[n] = "close"
    BY <2>1
  <2> QED BY <2>2, <2>3
<1>9. ASSUME NEW m \in Mains, CloseDBServer(m) PROVE Locked'
  BY <1>9 DEF CloseDBServer, Started, Early
<1>10. ASSUME NEW m \in Mains, Kill(m) PROVE Locked'
  BY <1>10 DEF Kill, Started, Early
<1>11. ASSUME NEW m \in Mains, ExecDBServer(m) PROVE Locked'
  <2>1. mutex' = mutex /\ sp' = sp /\ (mp' = mp \/ mp' = [mp EXCEPT ![m] = "killed"])
    BY <1>11 DEF ExecDBServer
  <2>2. ASSUME NEW n \in Mains
        PROVE  /\ mutex' = n => mp'[n] \in {"close", "over", "killed"}
               /\ mp'[n] = "close" => mutex' = n
    BY <2>1
  <2> QED BY <2>1, <2>2
<1>12. ASSUME NEW m \in Mains, ServeRequest(m) PROVE Locked'
  BY <1>12 DEF ServeRequest, Started, Early
<1>13. ASSUME NEW m \in Mains, NEW c \in Clients, Accept(m, c) PROVE Locked'
  BY <1>13 DEF Accept, Started, Early
<1>14. ASSUME NEW m \in Mains, NEW c \in Clients, CreateForkedServer(m, c) PROVE Locked'
  BY <1>14 DEF CreateForkedServer, Started, Early
<1>15. ASSUME NEW c \in Clients, Connect(c) PROVE Locked'
  BY <1>15 DEF Connect, Started, Early
<1>16. ASSUME NEW c \in Clients, Request(c) PROVE Locked'
  BY <1>16 DEF Request, Started, Early
<1>17. ASSUME NEW c \in Clients, OpenConnection(c) PROVE Locked'
  <2>1. mutex = None /\ mutex' = c /\ mp' = mp /\ sp' = [sp EXCEPT ![c] = "ask"]
    BY <1>17 DEF OpenConnection, Step, mainVars
  <2>2. ASSUME NEW d \in Clients
        PROVE  /\ sp'[d] \in Holding => mutex' = d
               /\ mutex' = d => sp'[d] \in Holding
    <3>1. CASE d = c
      BY <2>1, <3>1
    <3>2. CASE d # c
      BY <2>1, <3>2
    <3> QED BY <3>1, <3>2
  <2>3. ASSUME NEW m \in Mains PROVE mutex' # m /\ mp'[m] # "close"
    BY <2>1
  <2> QED BY <2>2, <2>3
<1>18. ASSUME NEW c \in Clients, Ask(c) PROVE Locked'
  BY <1>18 DEF Ask, Started, Early
<1>19. ASSUME NEW c \in Clients, ReadAnswer(c) PROVE Locked'
  BY <1>19 DEF ReadAnswer, Started, Early
<1>20. ASSUME NEW c \in Clients, CloseConnection(c) PROVE Locked'
  BY <1>20 DEF CloseConnection, Started, Early
<1>21. ASSUME NEW c \in Clients, Leave(c) PROVE Locked'
  BY <1>21 DEF Leave, Started, Early
<1>22. ASSUME NEW m \in Mains, NEW c \in Clients, AcceptGone(m, c) PROVE Locked'
  <2>1. /\ mutex' = mutex /\ sp' = [sp EXCEPT ![c] = "gone"] /\ sp[c] = "queued" /\ mp[m] = "accept"
        /\ \E place \in {"blocked", "killed"} : mp' = [mp EXCEPT ![m] = place]
    BY <1>22 DEF AcceptGone
  <2>2. ASSUME NEW d \in Clients
        PROVE  /\ sp'[d] \in Holding => mutex' = d
               /\ mutex' = d => sp'[d] \in Holding \cup {"idle", "lock", "over"}
    BY <2>1
  <2>3. ASSUME NEW n \in Mains
        PROVE  /\ mutex' = n => mp'[n] \in {"close", "over", "killed"}
               /\ mp'[n] = "close" => mutex' = n
    BY <2>1
  <2> QED BY <2>2, <2>3
<1>23. ASSUME NEW c \in Clients, BrokenPipe(c) PROVE Locked'
  BY <1>23 DEF BrokenPipe, Started, Early
<1>24. CASE UNCHANGED vars
  BY <1>24 DEF vars
<1> QED BY <1>1, <1>2, <1>3, <1>4, <1>5, <1>6, <1>7, <1>8, <1>9, <1>10, <1>11, <1>12,
     <1>13, <1>14, <1>15, <1>16, <1>17, <1>18, <1>19, <1>20, <1>21, <1>22,
     <1>23, <1>24
  DEF Next, MainStep, DbStep, SessionStep

\* Each main server keeps its pipes and its database server.
LEMMA DbTypesKept ==
  ASSUME Types, DbTypes, Started, Locked, [Next]_vars
  PROVE  DbTypes'
<1> USE DEF Types, DbTypes, Started, Locked, Holding,
            Go, Step, mainVars, pipeVars, sessionVars
<1>1. CASE ReadConfig
  BY <1>1 DEF ReadConfig
<1>2. ASSUME NEW m \in Mains, Setup(m) PROVE DbTypes'
  BY <1>2 DEF Setup
<1>3. ASSUME NEW m \in Mains, StartDBServer(m) PROVE DbTypes'
  BY <1>3 DEF StartDBServer
<1>4. ASSUME NEW m \in Mains, ForkDBServer(m) PROVE DbTypes'
  BY <1>4 DEF ForkDBServer
<1>5. ASSUME NEW m \in Mains, Listen(m) PROVE DbTypes'
  BY <1>5 DEF Listen
<1>6. ASSUME NEW m \in Mains, AcceptFails(m) PROVE DbTypes'
  BY <1>6 DEF AcceptFails
<1>7. ASSUME NEW m \in Mains, AcceptError(m) PROVE DbTypes'
  BY <1>7 DEF AcceptError
<1>8. ASSUME NEW m \in Mains, StopDBServer(m) PROVE DbTypes'
  BY <1>8 DEF StopDBServer
<1>9. ASSUME NEW m \in Mains, CloseDBServer(m) PROVE DbTypes'
  BY <1>9 DEF CloseDBServer
<1>10. ASSUME NEW m \in Mains, Kill(m) PROVE DbTypes'
  BY <1>10 DEF Kill
<1>11. ASSUME NEW m \in Mains, ExecDBServer(m) PROVE DbTypes'
  BY <1>11 DEF ExecDBServer
<1>12. ASSUME NEW m \in Mains, ServeRequest(m) PROVE DbTypes'
  BY <1>12 DEF ServeRequest
<1>13. ASSUME NEW m \in Mains, NEW c \in Clients, Accept(m, c) PROVE DbTypes'
  BY <1>13 DEF Accept
<1>14. ASSUME NEW m \in Mains, NEW c \in Clients, CreateForkedServer(m, c) PROVE DbTypes'
  BY <1>14 DEF CreateForkedServer
<1>15. ASSUME NEW c \in Clients, Connect(c) PROVE DbTypes'
  BY <1>15 DEF Connect
<1>16. ASSUME NEW c \in Clients, Request(c) PROVE DbTypes'
  BY <1>16 DEF Request
<1>17. ASSUME NEW c \in Clients, OpenConnection(c) PROVE DbTypes'
  BY <1>17 DEF OpenConnection
<1>18. ASSUME NEW c \in Clients, Ask(c) PROVE DbTypes'
  BY <1>18 DEF Ask
<1>19. ASSUME NEW c \in Clients, ReadAnswer(c) PROVE DbTypes'
  BY <1>19 DEF ReadAnswer
<1>20. ASSUME NEW c \in Clients, CloseConnection(c) PROVE DbTypes'
  BY <1>20 DEF CloseConnection
<1>21. ASSUME NEW c \in Clients, Leave(c) PROVE DbTypes'
  BY <1>21 DEF Leave
<1>22. ASSUME NEW m \in Mains, NEW c \in Clients, AcceptGone(m, c) PROVE DbTypes'
  BY <1>22 DEF AcceptGone
<1>23. ASSUME NEW c \in Clients, BrokenPipe(c) PROVE DbTypes'
  BY <1>23 DEF BrokenPipe
<1>24. CASE UNCHANGED vars
  BY <1>24 DEF vars
<1> QED BY <1>1, <1>2, <1>3, <1>4, <1>5, <1>6, <1>7, <1>8, <1>9, <1>10, <1>11, <1>12,
     <1>13, <1>14, <1>15, <1>16, <1>17, <1>18, <1>19, <1>20, <1>21, <1>22,
     <1>23, <1>24
  DEF Next, MainStep, DbStep, SessionStep

-----------------------------------------------------------------------------
(* Sequences of none and one message, the only ones on the pipes.          *)

\* A message written to an empty pipe.
LEMMA AppendToNone ==
  ASSUME NEW x
  PROVE  Append(<<>>, x) = <<x>>
  OBVIOUS

\* Reading the only message of a pipe.
LEMMA OfOne ==
  ASSUME NEW x
  PROVE  Head(<<x>>) = x /\ Tail(<<x>>) = <<>> /\ <<x>> # <<>>
  OBVIOUS

\* What is on a pipe with no message or one.
LEMMA InShort ==
  ASSUME NEW x
  PROVE  /\ Len(<<>>) <= 1 /\ Len(<<x>>) <= 1
         /\ \A y : (\E i \in 1 .. Len(<<x>>) : <<x>>[i] = y) => x = y
         /\ \A y : ~ \E i \in 1 .. Len(<<>>) : <<>>[i] = y
  OBVIOUS

\* What a step has to leave alone for an exchange to go on.
Undisturbed(n) ==
  /\ UNCHANGED <<mutex, toDb, fromDb>>
  /\ mp'[n] = "close" => mp[n] = "close"
  /\ db'[n] # "run" => db[n] # "run" \/ fromDb[n] = <<>>
  /\ \A c \in Clients : mutex = c => (sp'[c] = "await" <=> sp[c] = "await")

\* An exchange goes on through the steps that leave it alone.
LEMMA ExchangeGoesOn ==
  ASSUME NEW n \in Mains, Locked, Exchange(n), Undisturbed(n)
  PROVE  Exchange(n)'
BY DEF Locked, Exchange, Undisturbed, Empty

\* Every step leaves an exchange alone, or takes it one step further.
LEMMA ExchangesKept ==
  ASSUME OneMain, IInv, [Next]_vars
  PROVE  Exchanges'
<1> SUFFICES ASSUME NEW n \in Mains PROVE Exchange(n)'
  BY DEF Exchanges
<1> USE DEF Go, Step, mainVars, pipeVars, sessionVars
<1>a. Types /\ DbTypes /\ Started /\ Locked /\ Exchange(n)
  BY DEF IInv, Exchanges
<1>1. ASSUME NEW m \in Mains, Setup(m) PROVE Undisturbed(n)
  BY <1>a, <1>1 DEF Types, DbTypes, Undisturbed, Holding, Setup
<1>2. ASSUME NEW m \in Mains, ForkDBServer(m) PROVE Undisturbed(n)
  <2>1. mutex = None
    BY <1>a, <1>2, NobodyEarly DEF ForkDBServer, Early
  <2>2. fromDb[n] = <<>>
    BY <1>a, <2>1 DEF Exchange, Empty
  <2> QED BY <1>a, <1>2, <2>2
       DEF Types, Undisturbed, ForkDBServer
<1>3. ASSUME NEW m \in Mains, Listen(m) PROVE Undisturbed(n)
  BY <1>a, <1>3 DEF Types, DbTypes, Undisturbed, Holding, Listen
<1>4. ASSUME NEW m \in Mains, AcceptFails(m) PROVE Undisturbed(n)
  BY <1>a, <1>4 DEF Types, DbTypes, Undisturbed, Holding, AcceptFails
<1>5. ASSUME NEW m \in Mains, AcceptError(m) PROVE Undisturbed(n)
  BY <1>a, <1>5 DEF Types, DbTypes, Undisturbed, Holding, AcceptError
<1>6. ASSUME NEW m \in Mains, Kill(m) PROVE Undisturbed(n)
  BY <1>a, <1>6 DEF Types, DbTypes, Undisturbed, Holding, Kill
<1>7. ASSUME NEW m \in Mains, ExecDBServer(m) PROVE Undisturbed(n)
  BY <1>a, <1>7 DEF Types, DbTypes, Undisturbed, Holding, ExecDBServer
<1>8. ASSUME NEW m \in Mains, NEW c \in Clients, Accept(m, c) PROVE Undisturbed(n)
  BY <1>a, <1>8 DEF Types, DbTypes, Undisturbed, Holding, Accept
<1>9. ASSUME NEW m \in Mains, NEW c \in Clients, CreateForkedServer(m, c) PROVE
     Undisturbed(n)
  BY <1>a, <1>9 DEF Types, DbTypes, Undisturbed, Holding, CreateForkedServer
<1>10. ASSUME NEW c \in Clients, Connect(c) PROVE Undisturbed(n)
  BY <1>a, <1>10 DEF Types, DbTypes, Undisturbed, Holding, Connect
<1>11. ASSUME NEW c \in Clients, Request(c) PROVE Undisturbed(n)
  BY <1>a, <1>11 DEF Types, DbTypes, Undisturbed, Holding, Request
<1>12. ASSUME NEW c \in Clients, Leave(c) PROVE Undisturbed(n)
  BY <1>a, <1>12 DEF Types, DbTypes, Undisturbed, Holding, Leave
<1>13. CASE ReadConfig
  BY <1>a, <1>13, ExchangeGoesOn DEF ReadConfig, Undisturbed
<1>14. CASE UNCHANGED vars
  BY <1>a, <1>14, ExchangeGoesOn DEF vars, Undisturbed
<1>15. ASSUME NEW m \in Mains, StartDBServer(m) PROVE Exchange(n)'
  <2>1. mutex = None
    BY <1>a, <1>15, NobodyEarly DEF StartDBServer, Early
  <2>2. mutex' = None /\ toDb' = toDb /\ fromDb' = fromDb
    BY <1>15, <2>1 DEF StartDBServer
  <2>3. mp'[n] # "close"
    BY <1>a, <1>15 DEF StartDBServer, Types, OneMain
  <2> QED BY <1>a, <2>1, <2>2, <2>3, MainServerAssumption DEF Exchange, Empty
<1>16. ASSUME NEW m \in Mains, StopDBServer(m) PROVE Exchange(n)'
  <2>1. mutex = None /\ mutex' = m /\ toDb' = toDb /\ fromDb' = fromDb
    BY <1>16 DEF StopDBServer
  <2>2. Empty(n) /\ Empty(n)'
    BY <1>a, <2>1 DEF Exchange, Empty
  <2> QED BY <2>1, <2>2, MainServerAssumption DEF Exchange, Empty
<1>17. ASSUME NEW m \in Mains, CloseDBServer(m) PROVE Exchange(n)'
  <2>1. n = m /\ mutex = m /\ mutex' = mutex /\ fromDb' = fromDb /\ mp'[n] # "close"
    BY <1>a, <1>17 DEF OneMain, CloseDBServer, Types, Locked
  <2>2. toDb[n] = <<>> /\ fromDb[n] = <<>>
    BY <1>a, <1>17, <2>1 DEF Exchange, CloseDBServer
  <2>3. toDb'[n] = <<"CLOSE">>
    BY <1>a, <1>17, <2>1, <2>2, AppendToNone DEF CloseDBServer, DbTypes
  <2> QED BY <2>1, <2>2, <2>3, MainServerAssumption DEF Exchange, Empty
<1>18. ASSUME NEW m \in Mains, ServeRequest(m) PROVE Exchange(n)'
  <2>1. n = m /\ mutex' = mutex /\ mp' = mp /\ sp' = sp /\ toDb[n] # <<>> /\ db[n] = "run"
    BY <1>18 DEF OneMain, ServeRequest
  <2>2. mp[n] # "close" /\ toDb'[n] = Tail(toDb[n])
    BY <1>a, <1>18, <2>1 DEF ServeRequest, DbTypes, Exchange
  <2>3. \/ mutex = n /\ toDb[n] = <<"CLOSE">> /\ fromDb[n] = <<>>
        \/ \E c \in Clients :
             mutex = c /\ sp[c] = "await" /\ toDb[n] = <<c>> /\ fromDb[n] = <<>>
    BY <1>a, <2>1 DEF Types, OneMain, Exchange, Empty
  <2>4. CASE mutex = n /\ toDb[n] = <<"CLOSE">> /\ fromDb[n] = <<>>
    <3>1. toDb'[n] = <<>> /\ fromDb' = fromDb
      BY <1>18, <2>1, <2>2, <2>4, OfOne DEF ServeRequest
    <3> QED BY <2>1, <2>2, <2>4, <3>1, MainServerAssumption DEF Exchange, Empty
  <2>5. ASSUME NEW c \in Clients, mutex = c, sp[c] = "await", toDb[n] = <<c>>,
       fromDb[n] = <<>>
        PROVE  Exchange(n)'
    <3>1. Head(toDb[n]) = c /\ c # "CLOSE" /\ toDb'[n] = <<>>
      BY <2>2, <2>5, OfOne, MainServerAssumption
    <3>2. fromDb'[n] = <<c>> /\ db' = db
      BY <1>a, <1>18, <2>1, <2>5, <3>1, AppendToNone DEF ServeRequest, DbTypes
    <3> QED BY <2>1, <2>2, <2>5, <3>1, <3>2, MainServerAssumption DEF Exchange, Empty
  <2> QED BY <2>3, <2>4, <2>5
<1>19. ASSUME NEW c \in Clients, OpenConnection(c) PROVE Exchange(n)'
  <2>1. mutex = None /\ mutex' = c /\ toDb' = toDb /\ fromDb' = fromDb /\ mp' = mp /\
       sp'[c] = "ask"
    BY <1>a, <1>19 DEF OpenConnection, Types
  <2>2. Empty(n) /\ Empty(n)'
    BY <1>a, <2>1 DEF Exchange, Empty
  <2> QED BY <2>1, <2>2, MainServerAssumption DEF Exchange, Empty
<1>20. ASSUME NEW c \in Clients, Ask(c) PROVE Exchange(n)'
  <2>1. n = home[c] /\ mutex = c /\ mutex' = c /\ fromDb' = fromDb /\ mp' = mp /\ db' = db
    BY <1>a, <1>20 DEF OneMain, Ask, Started, Locked, Holding
  <2>2. sp[c] = "ask" /\ sp'[c] = "await"
    BY <1>a, <1>20 DEF Ask, Types
  <2>3. Empty(n) /\ mp[n] # "close"
    BY <1>a, <2>1, <2>2, MainServerAssumption DEF Exchange, Locked
  <2>4. toDb'[n] = <<c>>
    BY <1>a, <1>20, <2>1, <2>3, AppendToNone DEF Ask, DbTypes, Empty
  <2> QED BY <2>1, <2>2, <2>3, <2>4, MainServerAssumption DEF Exchange, Empty
<1>21. ASSUME NEW c \in Clients, ReadAnswer(c) PROVE Exchange(n)'
  <2>1. n = home[c] /\ mutex = c /\ mutex' = c /\ toDb' = toDb /\ mp' = mp /\ db' = db
    BY <1>a, <1>21 DEF OneMain, ReadAnswer, Started, Locked, Holding
  <2>2. sp[c] = "await" /\ sp'[c] # "await" /\ fromDb[n] # <<>>
    BY <1>a, <1>21, <2>1 DEF ReadAnswer, Types
  <2>3. toDb[n] = <<>> /\ fromDb[n] = <<c>> /\ mp[n] # "close"
    BY <1>a, <2>1, <2>2, MainServerAssumption DEF Exchange, Locked
  <2>4. fromDb'[n] = <<>>
    BY <1>a, <1>21, <2>1, <2>3, OfOne DEF ReadAnswer, DbTypes
  <2> QED BY <2>1, <2>2, <2>3, <2>4, MainServerAssumption DEF Exchange, Empty
<1>22. ASSUME NEW c \in Clients, CloseConnection(c) PROVE Exchange(n)'
  BY <1>a, <1>22, MainServerAssumption DEF OneMain, Types, DbTypes, Started, Early,
       Locked, Holding, Exchange, Empty, CloseConnection
<1>23. ASSUME NEW m \in Mains, NEW c \in Clients, AcceptGone(m, c) PROVE Undisturbed(n)
  BY <1>a, <1>23 DEF Types, DbTypes, Undisturbed, Locked, Holding, AcceptGone
<1>24. ASSUME NEW c \in Clients, BrokenPipe(c) PROVE Undisturbed(n)
  BY <1>a, <1>24 DEF Types, DbTypes, Undisturbed, Holding, BrokenPipe
<1> QED BY <1>a, ExchangeGoesOn, <1>1, <1>2, <1>3, <1>4, <1>5, <1>6, <1>7, <1>8, <1>9,
     <1>10, <1>11, <1>12, <1>13, <1>14, <1>15, <1>16, <1>17, <1>18, <1>19, <1>20, <1>21,
     <1>22, <1>23, <1>24
  DEF Next, MainStep, DbStep, SessionStep

\* Nobody has started.
LEMMA InitInv == Init => IInv
<1> SUFFICES ASSUME Init PROVE IInv
  OBVIOUS
<1>1. Types /\ DbTypes
  BY DEF Init, Types, DbTypes, MainPlaces, SessionPlaces
<1>2. Started
  BY DEF Init, Started
<1>3. Locked
  BY MainServerAssumption DEF Init, Locked, Holding
<1>4. Exchanges
  BY MainServerAssumption DEF Init, Exchanges, Exchange, Empty
<1> QED BY <1>1, <1>2, <1>3, <1>4 DEF IInv

\* The parts together are inductive.
LEMMA StepInv ==
  ASSUME OneMain, IInv, [Next]_vars
  PROVE  IInv'
BY TypesKept, DbTypesKept, StartedKept, LockedKept, ExchangesKept DEF IInv

-----------------------------------------------------------------------------
\* With one main server, whichever of the Faults happen: a process between
\* sh_conn_open and sh_conn_close has locked the mutex, so that there is one at most,
\* and the pipes carry nothing but its request and its answer; a session that leaves
\* the mutex locked (forkedServer.c:97, 105, 126) leaves nothing on the pipes.
THEOREM MainInvariance ==
  ASSUME OneMain
  PROVE  Spec => []IInv
<1>1. IInv /\ [Next]_vars => IInv'
  BY StepInv
<1> QED BY InitInv, <1>1, PTL DEF Spec

\* The forked servers of a main server that is started once use the pipes to the
\* database server one at a time, however many clients there are
\* (server/dbConn.h:46).
THEOREM OneServerAtATime ==
  ASSUME OneMain
  PROVE  Spec => []OneAtATime
<1>1. IInv => OneAtATime
  BY DEF IInv, Locked, OneAtATime
<1> QED BY MainInvariance, <1>1, PTL

\* stopDBServer tells the database server to stop between two exchanges, and none
\* is begun after it (mainServer.c:75).
THEOREM StopsInBetween ==
  ASSUME OneMain
  PROVE  Spec => []StopsBetweenExchanges
<1>1. IInv => StopsBetweenExchanges
  <2> SUFFICES ASSUME IInv, NEW m \in Mains,
                      \/ mp[m] = "close" \/ db[m] = "over"
                      \/ \E i \in 1 .. Len(toDb[m]) : toDb[m][i] = "CLOSE"
               PROVE  /\ Len(toDb[m]) <= 1 /\ fromDb[m] = <<>>
                      /\ db[m] = "run" => \A c \in Clients : home[c] = m => sp[c]
                           \notin Holding
    BY DEF StopsBetweenExchanges
  <2>1. Types /\ Locked /\ Exchange(m)
    BY DEF IInv, Exchanges
  <2>2. toDb[m] = <<>> \/ \E x \in Clients \cup {"CLOSE"} : toDb[m] = <<x>>
    BY <2>1 DEF Types, OneMain, Exchange, Empty
  <2>3. Len(toDb[m]) <= 1
    BY <2>2, InShort
  <2>4. CASE db[m] = "over"
    BY <2>1, <2>3, <2>4 DEF Exchange
  <2>5. CASE mutex = m
    <3>1. \A c \in Clients : sp[c] \notin Holding
      BY <2>1, <2>5, MainServerAssumption DEF Locked
    <3> QED BY <2>1, <2>3, <2>5, <3>1 DEF Exchange
  <2>6. CASE mp[m] = "close"
    BY <2>1, <2>5, <2>6 DEF Locked
  <2>7. CASE \E i \in 1 .. Len(toDb[m]) : toDb[m][i] = "CLOSE"
    <3>1. mutex # None
      BY <2>1, <2>7, InShort DEF Exchange, Empty
    <3>2. ASSUME NEW c \in Clients, mutex = c PROVE FALSE
      <4>1. toDb[m] = <<>> \/ toDb[m] = <<c>>
        BY <2>1, <3>2 DEF Exchange, Empty
      <4> QED BY <2>7, <4>1, InShort, MainServerAssumption
    <3> QED BY <2>1, <2>5, <3>1, <3>2 DEF Types, OneMain
  <2> QED BY <2>4, <2>6, <2>7
<1> QED BY MainInvariance, <1>1, PTL

-----------------------------------------------------------------------------
(* The configuration file.  While it is read the automaton is in q1        *)
(* exactly inside a section, has found nothing yet that does not belong    *)
(* where it is, and has stored the last value of each key (Follows).  The  *)
(* rest is that a line does not change what is true of the lines before it *)
(* (LinesBefore).                                                          *)


\* A line that belongs where it is, and the lines that give a key its value.
Admitted(i) == text[i].kind \in IF Inside(i) THEN {"param", "end", ""} ELSE {"[addresses]", ""}
Written(key) == {i \in 1 .. Len(text) : text[i].kind = "param" /\ text[i].key = key}

\* What is stored of a key is what its last line says.
HasLast(key) ==
  \/ Written(key) = {} /\ config[key] = Unset
  \/ \E i \in Written(key) : config[key] = text[i].value /\ \A j \in Written(key) : j <= i

FileTypes ==
  /\ q \in {"q0", "q1"} /\ setup \in {"reading", "config", "NULL"}
  /\ text \in Seq(Lines)
  /\ config = [k \in Keys |-> config[k]]

Follows ==
  /\ q = "q1" <=> Inside(Len(text) + 1)
  /\ \A i \in 1 .. Len(text) : Admitted(i)
  /\ \A k \in Keys : HasLast(k)

\* The inductive invariant.
FileInv == FileTypes /\ (setup = "reading" => Follows) /\ ParsedAsWritten

-----------------------------------------------------------------------------
\* A line more: it comes last, and the others are where they were.
LEMMA LineMore ==
  ASSUME text \in Seq(Lines), NEW line \in Lines, text' = Append(text, line)
  PROVE  /\ text' \in Seq(Lines) /\ text' # <<>>
         /\ Len(text) \in Nat /\ Len(text') = Len(text) + 1
         /\ text'[Len(text) + 1] = line
         /\ \A i \in 1 .. Len(text) : text'[i] = text[i]
OBVIOUS

\* What a line is inside of depends on the lines before it.
LEMMA LinesBefore ==
  ASSUME text \in Seq(Lines), NEW line \in Lines, text' = Append(text, line)
  PROVE  /\ \A i \in 1 .. Len(text) + 1 : Inside(i)' <=> Inside(i)
         /\ \A i \in 1 .. Len(text) : Admitted(i)' <=> Admitted(i)
<1>1. /\ Len(text) \in Nat /\ Len(text') = Len(text) + 1
      /\ \A i \in 1 .. Len(text) : text'[i] = text[i]
  BY LineMore
<1>2. \A i \in 1 .. Len(text) : EndsSection(i)' <=> EndsSection(i)
  BY <1>1 DEF EndsSection
<1>3. ASSUME NEW i \in 1 .. Len(text) + 1 PROVE Inside(i)' <=> Inside(i)
  <2>1. \A j \in 1 .. i - 1 :
          /\ j \in 1 .. Len(text)
          /\ \A k \in j + 1 .. i - 1 : k \in 1 .. Len(text)
    BY <1>1
  <2>2. Inside(i) <=> \E j \in 1 .. i - 1 :
          text[j].kind = "[addresses]" /\ \A k \in j + 1 .. i - 1 : ~ EndsSection(k)
    BY DEF Inside
  <2>3. Inside(i)' <=> \E j \in 1 .. i - 1 :
          text'[j].kind = "[addresses]" /\ \A k \in j + 1 .. i - 1 : ~ EndsSection(k)'
    BY DEF Inside
  <2> QED BY <1>1, <1>2, <2>1, <2>2, <2>3
<1>4. ASSUME NEW i \in 1 .. Len(text) PROVE Admitted(i)' <=> Admitted(i)
  <2>1. i \in 1 .. Len(text) + 1
    BY <1>1
  <2>2. (Inside(i)' <=> Inside(i)) /\ text'[i] = text[i]
    BY <1>1, <1>3, <2>1
  <2> QED BY <2>2 DEF Admitted
<1> QED BY <1>3, <1>4

\* Where a file goes on: behind a tag, or in the section it was in.
LEMMA InsideNext ==
  ASSUME text \in Seq(Lines), NEW line \in Lines, text' = Append(text, line),
         NEW n \in Nat, n = Len(text)
  PROVE  Inside(n + 2)' <=>
           \/ line.kind = "[addresses]"
           \/ Inside(n + 1)
              /\ ~ (line.kind = "end" \/ (line.kind = "param" /\ line.key = "end"))
<1> DEFINE ends == line.kind = "end" \/ (line.kind = "param" /\ line.key = "end")
<1>1. /\ Len(text') = n + 1 /\ text'[n + 1] = line
      /\ \A i \in 1 .. n : text'[i] = text[i]
  BY LineMore
<1>2. /\ \A i \in 1 .. n : EndsSection(i)' <=> EndsSection(i)
      /\ EndsSection(n + 1)' <=> ends
  BY <1>1 DEF EndsSection
<1>3. Inside(n + 2)' <=>
        \E j \in 1 .. n + 1 : text'[j].kind = "[addresses]" /\ \A k \in j + 1 .. n + 1 : ~ EndsSection(k)'
  BY <1>1 DEF Inside
<1>4. Inside(n + 1) <=>
        \E j \in 1 .. n : text[j].kind = "[addresses]" /\ \A k \in j + 1 .. n : ~ EndsSection(k)
  BY <1>1 DEF Inside
<1>5. ASSUME line.kind = "[addresses]" PROVE Inside(n + 2)'
  BY <1>1, <1>3, <1>5
<1>6. ASSUME Inside(n + 1), ~ ends PROVE Inside(n + 2)'
  <2>1. PICK j \in 1 .. n : text[j].kind = "[addresses]" /\ \A k \in j + 1 .. n : ~ EndsSection(k)
    BY <1>4, <1>6
  <2>2. \A k \in j + 1 .. n + 1 : k \in j + 1 .. n \/ k = n + 1
    BY <1>1
  <2>3. \A k \in j + 1 .. n : k \in 1 .. n
    BY <1>1
  <2>4. \A k \in j + 1 .. n + 1 : ~ EndsSection(k)'
    BY <1>2, <1>6, <2>1, <2>2, <2>3
  <2> QED BY <1>1, <1>3, <2>1, <2>4
<1>7. ASSUME Inside(n + 2)', line.kind # "[addresses]" PROVE Inside(n + 1) /\ ~ ends
  <2>1. PICK j \in 1 .. n + 1 :
          text'[j].kind = "[addresses]" /\ \A k \in j + 1 .. n + 1 : ~ EndsSection(k)'
    BY <1>3, <1>7
  <2>2. j \in 1 .. n /\ n + 1 \in j + 1 .. n + 1
    BY <1>1, <1>7, <2>1
  <2>3. \A k \in j + 1 .. n : k \in 1 .. n /\ k \in j + 1 .. n + 1
    BY <1>1, <2>2
  <2> QED BY <1>1, <1>2, <1>4, <2>1, <2>2, <2>3
<1> QED BY <1>1, <1>5, <1>6, <1>7

\* The lines of a key, but for the new one, are those it had.
LEMMA WrittenNext ==
  ASSUME text \in Seq(Lines), NEW line \in Lines, text' = Append(text, line), NEW key
  PROVE  /\ \A i \in Written(key) : i \in 1 .. Len(text) /\ text'[i] = text[i]
         /\ line.kind = "param" /\ line.key = key =>
              Written(key)' = Written(key) \cup {Len(text) + 1}
         /\ ~ (line.kind = "param" /\ line.key = key) => Written(key)' = Written(key)
<1>1. /\ Len(text) \in Nat /\ Len(text') = Len(text) + 1 /\ text'[Len(text) + 1] = line
      /\ \A i \in 1 .. Len(text) : text'[i] = text[i]
  BY LineMore
<1>2. \A i \in 1 .. Len(text') : i \in 1 .. Len(text) \/ i = Len(text) + 1
  BY <1>1
<1>3. Len(text) + 1 \in 1 .. Len(text') /\ \A i \in 1 .. Len(text) : i \in 1 .. Len(text')
  BY <1>1
<1> QED BY <1>1, <1>2, <1>3 DEF Written

\* A key that a line says nothing of keeps its value.
LEMMA LastStays ==
  ASSUME text \in Seq(Lines), NEW line \in Lines, text' = Append(text, line), NEW key,
         HasLast(key), config'[key] = config[key], ~ (line.kind = "param" /\ line.key = key)
  PROVE  HasLast(key)'
<1>1. Written(key)' = Written(key) /\ \A i \in Written(key) : text'[i] = text[i]
  BY WrittenNext
<1> QED BY <1>1 DEF HasLast

\* q2Action to q5Action store what is the last value now.
LEMMA LastIsNew ==
  ASSUME text \in Seq(Lines), NEW line \in Lines, text' = Append(text, line), NEW key,
         line.kind = "param", line.key = key, config'[key] = line.value
  PROVE  HasLast(key)'
<1>1. /\ Written(key)' = Written(key) \cup {Len(text) + 1}
      /\ \A i \in Written(key) : i \in 1 .. Len(text)
  BY WrittenNext
<1>2. Len(text) \in Nat /\ text'[Len(text) + 1] = line
  BY LineMore
<1>3. \A j \in Written(key)' : j <= Len(text) + 1
  BY <1>1, <1>2
<1> QED BY <1>1, <1>2, <1>3 DEF HasLast

\* The last line of a key is the one that ValueOf chooses.
LEMMA LastIsChosen ==
  ASSUME NEW key, HasLast(key)
  PROVE  config[key] = ValueOf(key)
<1>1. ValueOf(key) = IF Written(key) = {} THEN Unset
                     ELSE text[CHOOSE i \in Written(key) : \A j \in Written(key) : j <= i].value
  BY DEF ValueOf, Written
<1>2. CASE Written(key) = {}
  BY <1>1, <1>2 DEF HasLast
<1>3. CASE Written(key) # {}
  <2>1. PICK i \in Written(key) : config[key] = text[i].value /\ \A j \in Written(key) : j <= i
    BY <1>3 DEF HasLast
  <2> DEFINE c == CHOOSE n \in Written(key) : \A j \in Written(key) : j <= n
  <2>2. c \in Written(key) /\ \A j \in Written(key) : j <= c
    BY <2>1
  <2>3. ValueOf(key) = text[c].value
    BY <1>1, <1>3
  <2> HIDE DEF c
  <2>4. \A j \in Written(key) : j \in Int
    BY DEF Written
  <2>5. c = i
    BY <2>1, <2>2, <2>4
  <2> QED BY <2>1, <2>3, <2>5
<1> QED BY <1>2, <1>3

-----------------------------------------------------------------------------
(* The steps.                                                              *)

\* The last of n + 1 lines.
LEMMA OneMore ==
  ASSUME NEW n \in Nat
  PROVE  /\ n + 1 \in 1 .. n + 1 /\ n + 2 = (n + 1) + 1
         /\ \A i \in 1 .. n + 1 : i \in 1 .. n \/ i = n + 1
OBVIOUS

\* A line that belongs where it is leads to the state that it should lead to.
LEMMA LineFollows ==
  ASSUME FileTypes, Follows, NEW line \in Lines, text' = Append(text, line), FileTypes',
         line.kind \in IF q = "q1" THEN {"param", "end", ""} ELSE {"[addresses]", ""},
         q' = "q1" <=> \/ line.kind = "[addresses]"
                       \/ q = "q1" /\ ~ (line.kind = "end" \/ (line.kind = "param" /\ line.key = "end")),
         \A k \in Keys : HasLast(k)'
  PROVE  Follows'
<1>a. text \in Seq(Lines) /\ Len(text) \in Nat
  BY LineMore DEF FileTypes
<1>b. PICK n \in Nat : n = Len(text)
  BY <1>a
<1>1. n \in Nat /\ n = Len(text) /\ Len(text') = n + 1 /\ text'[n + 1] = line
  BY <1>a, <1>b, LineMore
<1>2. q' = "q1" <=> Inside(n + 2)'
  BY <1>a, <1>1, InsideNext DEF Follows
<1>3. \A i \in 1 .. n : Admitted(i)'
  BY <1>a, <1>1, LinesBefore DEF Follows
<1>4. Inside(n + 1)' <=> q = "q1"
  <2>1. n + 1 \in 1 .. n + 1
    BY <1>b, OneMore
  <2> QED BY <1>a, <1>1, <2>1, LinesBefore DEF Follows
<1>5. Admitted(n + 1)'
  BY <1>1, <1>4 DEF Admitted
<1>6. \A i \in 1 .. n + 1 : i \in 1 .. n \/ i = n + 1
  BY <1>b, OneMore
<1>7. \A i \in 1 .. n + 1 : Admitted(i)'
  BY <1>3, <1>5, <1>6
<1>8. n + 2 = Len(text') + 1
  BY <1>1, OneMore
<1>9. (q = "q1" <=> Inside(Len(text) + 1))'
  BY <1>2, <1>8
<1>10. (\A i \in 1 .. Len(text) : Admitted(i))'
  BY <1>1, <1>7
<1> QED BY <1>9, <1>10 DEF Follows

\* A line that does not belong where it is makes the file ill-formed.
LEMMA LineRejected ==
  ASSUME FileTypes, Follows, NEW line \in Lines, text' = Append(text, line),
         line.kind \notin IF q = "q1" THEN {"param", "end", ""} ELSE {"[addresses]", ""}
  PROVE  ~ WellFormed'
<1>a. text \in Seq(Lines) /\ Len(text) \in Nat
  BY LineMore DEF FileTypes
<1>b. PICK n \in Nat : n = Len(text)
  BY <1>a
<1>1. n \in Nat /\ n = Len(text) /\ Len(text') = n + 1 /\ text'[n + 1] = line
  BY <1>a, <1>b, LineMore
<1>2. n + 1 \in 1 .. n + 1
  BY <1>b, OneMore
<1>3. Inside(n + 1)' <=> q = "q1"
  BY <1>a, <1>1, <1>2, LinesBefore DEF Follows
<1>4. ~ Admitted(n + 1)'
  BY <1>1, <1>3 DEF Admitted
<1> QED BY <1>1, <1>2, <1>4 DEF WellFormed, Admitted

\* While no line is read nothing changes of what is said of the lines.
LEMMA SameFile ==
  ASSUME text' = text, config' = config
  PROVE  /\ WellFormed' <=> WellFormed
         /\ \A k \in Keys : ValueOf(k)' = ValueOf(k)
         /\ q' = q => (Follows' <=> Follows)
<1>1. \A i : EndsSection(i)' <=> EndsSection(i)
  BY DEF EndsSection
<1>2. \A i : Inside(i)' <=> Inside(i)
  BY <1>1 DEF Inside
<1>3. \A i : Admitted(i)' <=> Admitted(i)
  BY <1>2 DEF Admitted
<1>4. \A k : Written(k)' = Written(k)
  BY DEF Written
<1>5. \A k : HasLast(k)' <=> HasLast(k)
  BY <1>4 DEF HasLast
<1>6. \A k : ValueOf(k)' = ValueOf(k)
  BY DEF ValueOf
<1>7. WellFormed' <=> WellFormed
  <2>1. Inside(Len(text) + 1)' <=> Inside(Len(text) + 1)
    BY DEF Inside, EndsSection
  <2> QED BY <1>2, <2>1 DEF WellFormed
<1>8. q' = q => (Follows' <=> Follows)
  <2>1. Inside(Len(text) + 1)' <=> Inside(Len(text) + 1)
    BY DEF Inside, EndsSection
  <2> QED BY <1>3, <1>5, <2>1 DEF Follows
<1> QED BY <1>6, <1>7, <1>8

\* A step of the automaton.
LEMMA LineStep ==
  ASSUME FileInv, NEW line \in Lines, q0Action(line) \/ q1Action(line)
  PROVE  FileInv'
<1>1. /\ FileTypes /\ Follows /\ setup = "reading"
      /\ text' = Append(text, line) /\ text \in Seq(Lines)
  BY DEF FileInv, FileTypes, q0Action, q1Action, ReadLine
<1>2. text' \in Seq(Lines) /\ text' # <<>>
  BY <1>1, LineMore
<1>3. CASE Reject /\ line.kind \notin IF q = "q1" THEN {"param", "end", ""} ELSE {"[addresses]", ""}
  <2>1. ~ WellFormed'
    BY <1>1, <1>3, LineRejected
  <2>2. setup' = "NULL" /\ q' = q /\ config' = config
    BY <1>3 DEF Reject
  <2>3. FileTypes'
    BY <1>1, <1>2, <2>2 DEF FileTypes
  <2> QED BY <2>1, <2>2, <2>3 DEF FileInv, ParsedAsWritten
<1>4. ASSUME setup' = "reading", FileTypes',
             line.kind \in IF q = "q1" THEN {"param", "end", ""} ELSE {"[addresses]", ""},
             q' = "q1" <=> \/ line.kind = "[addresses]"
                           \/ q = "q1" /\ ~ (line.kind = "end" \/ (line.kind = "param" /\ line.key = "end")),
             \A k \in Keys : HasLast(k)'
      PROVE  FileInv'
  <2>1. Follows'
    BY <1>1, <1>4, LineFollows
  <2> QED BY <1>4, <2>1 DEF FileInv, ParsedAsWritten
<1>5. ASSUME config' = config, ~ (line.kind = "param" /\ line.key \in Keys)
      PROVE  \A k \in Keys : HasLast(k)'
  BY <1>1, <1>5, LastStays DEF Follows
<1>6. CASE moveTo("q1") /\ q = "q0" /\ line.kind = "[addresses]"
  <2>1. FileTypes' /\ setup' = "reading" /\ q' = "q1" /\ config' = config
    BY <1>1, <1>2, <1>6 DEF moveTo, FileTypes
  <2>2. \A k \in Keys : HasLast(k)'
    BY <1>5, <1>6, <2>1
  <2> QED BY <1>4, <1>6, <2>1, <2>2
<1>7. CASE /\ moveTo("q0") /\ q = "q1"
           /\ line.kind = "end" \/ (line.kind = "param" /\ line.key = "end")
  <2>1. FileTypes' /\ setup' = "reading" /\ q' = "q0" /\ config' = config
    BY <1>1, <1>2, <1>7 DEF moveTo, FileTypes
  <2>2. \A k \in Keys : HasLast(k)'
    BY <1>5, <1>7, <2>1, ConfigAssumption
  <2> QED BY <1>4, <1>7, <2>1, <2>2
<1>8. CASE /\ Stay
           /\ line.kind = "" \/ (q = "q1" /\ line.kind = "param" /\ line.key \notin Keys \cup {"end"})
  <2>1. FileTypes' /\ setup' = "reading" /\ q' = q /\ config' = config
    BY <1>1, <1>2, <1>8 DEF Stay, FileTypes
  <2>2. \A k \in Keys : HasLast(k)'
    BY <1>5, <1>8, <2>1
  <2> QED BY <1>4, <1>8, <2>1, <2>2
<1>9. CASE StoreValue(line.key, line.value) /\ q = "q1" /\ line.kind = "param" /\ line.key \in Keys
  <2>1. /\ setup' = "reading" /\ q' = q
        /\ config' = [config EXCEPT ![line.key] = line.value]
    BY <1>1, <1>9 DEF StoreValue
  <2>2. FileTypes'
    BY <1>1, <1>2, <2>1 DEF FileTypes
  <2>3. ASSUME NEW k \in Keys PROVE HasLast(k)'
    <3>1. CASE line.key = k
      <4>1. config'[k] = line.value
        BY <1>1, <2>1, <3>1 DEF FileTypes
      <4> QED BY <1>1, <1>9, <3>1, <4>1, LastIsNew
    <3>2. CASE line.key # k
      <4>1. config'[k] = config[k] /\ HasLast(k)
        BY <1>1, <2>1, <3>2 DEF FileTypes, Follows
      <4> QED BY <1>1, <3>2, <4>1, LastStays
    <3> QED BY <3>1, <3>2
  <2>4. line.key # "end"
    BY <1>9, ConfigAssumption
  <2> QED BY <1>4, <1>9, <2>1, <2>2, <2>3, <2>4
<1>10. CASE q0Action(line)
  <2>1. q = "q0"
    BY <1>10 DEF q0Action
  <2> QED BY <1>3, <1>6, <1>8, <1>10, <2>1 DEF q0Action
<1>11. CASE q1Action(line)
  <2>1. q = "q1"
    BY <1>11 DEF q1Action
  <2> QED BY <1>3, <1>7, <1>8, <1>9, <1>11, <2>1 DEF q1Action
<1> QED BY <1>10, <1>11

\* At the end of the file setup() looks at the state of the automaton only.
LEMMA EndStep ==
  ASSUME FileInv, EndOfFile
  PROVE  FileInv'
<1>1. /\ FileTypes /\ Follows /\ text' = text /\ q' = q /\ config' = config
      /\ setup' = IF q = "q0" THEN "config" ELSE "NULL"
  BY DEF FileInv, EndOfFile
<1>2. FileTypes' /\ setup' # "reading"
  BY <1>1 DEF FileTypes
<1>3. q = "q0" <=> WellFormed
  BY <1>1 DEF FileTypes, Follows, WellFormed, Admitted
<1>4. \A k \in Keys : config[k] = ValueOf(k)
  BY <1>1, LastIsChosen DEF Follows
<1>5. ParsedAsWritten'
  BY <1>1, <1>3, <1>4, SameFile DEF ParsedAsWritten
<1> QED BY <1>2, <1>5 DEF FileInv

\* Before the first line.
LEMMA FileInit == Init => FileInv
<1> SUFFICES ASSUME Init PROVE FileInv
  OBVIOUS
<1>1. /\ q = "q0" /\ text = <<>> /\ setup = "reading" /\ config = [k \in Keys |-> Unset]
      /\ Len(text) = 0
  BY DEF Init, ConfigInit
<1>2. FileTypes /\ ParsedAsWritten
  BY <1>1 DEF FileTypes, ParsedAsWritten
<1>3. Follows
  BY <1>1 DEF Follows, Inside, HasLast, Written
<1> QED BY <1>2, <1>3 DEF FileInv

\* Nobody else reads the file; Setup only forgets what it said.
LEMMA FileStep == FileInv /\ [Next]_vars => FileInv'
<1> SUFFICES ASSUME FileInv, [Next]_vars PROVE FileInv'
  OBVIOUS
<1> USE DEF settings, configVars
<1>1. ASSUME UNCHANGED <<q, config, text, setup>> PROVE FileInv'
  BY <1>1, SameFile DEF FileInv, FileTypes, ParsedAsWritten
<1>2. CASE ConfigNext
  <2>1. CASE OpenFails
    BY <2>1 DEF OpenFails, FileInv, FileTypes, ParsedAsWritten
  <2>2. CASE EndOfFile
    BY <2>2, EndStep
  <2>3. ASSUME NEW line \in Lines, q0Action(line) \/ q1Action(line) PROVE FileInv'
    BY <2>3, LineStep
  <2> QED BY <1>2, <2>1, <2>2, <2>3 DEF ConfigNext
<1>3. ASSUME NEW m \in Mains, Setup(m) PROVE FileInv'
  <2>1. text' = <<>> /\ q' = "q0" /\ setup # "reading" /\ UNCHANGED <<config, setup>>
    BY <1>3 DEF Setup
  <2> QED BY <2>1 DEF FileInv, FileTypes, ParsedAsWritten
<1>4. ASSUME NEW m \in Mains, NEW c \in Clients,
             Accept(m, c) \/ AcceptGone(m, c) \/ CreateForkedServer(m, c) PROVE FileInv'
  BY <1>1, <1>4 DEF Accept, AcceptGone, CreateForkedServer
<1>5. ASSUME NEW m \in Mains,
             \/ StartDBServer(m) \/ ForkDBServer(m) \/ Listen(m) \/ AcceptFails(m)
             \/ StopDBServer(m) \/ CloseDBServer(m) \/ AcceptError(m) \/ Kill(m)
      PROVE  UNCHANGED <<q, config, text, setup>>
  BY <1>5 DEF StartDBServer, ForkDBServer, Listen, AcceptFails, StopDBServer, CloseDBServer,
              AcceptError, Kill
<1>6. ASSUME NEW m \in Mains, DbStep(m) PROVE UNCHANGED <<q, config, text, setup>>
  BY <1>6 DEF DbStep, ExecDBServer, ServeRequest
<1>7. ASSUME NEW c \in Clients, Connect(c) \/ Request(c) \/ SessionStep(c) \/ BrokenPipe(c) \/ Leave(c)
      PROVE  UNCHANGED <<q, config, text, setup>>
  BY <1>7 DEF Connect, Request, SessionStep, OpenConnection, Ask, ReadAnswer, CloseConnection,
              BrokenPipe, Leave
<1>8. CASE UNCHANGED vars
  BY <1>1, <1>8 DEF vars
<1> QED BY <1>1, <1>2, <1>3, <1>4, <1>5, <1>6, <1>7, <1>8 DEF Next, ReadConfig, MainStep

-----------------------------------------------------------------------------
\* setup() accepts a file exactly if it is a series of sections, and then has stored
\* the last value of every key (common/config.c), for files of every length.
THEOREM SetupReadsTheFile == Spec => []ParsedAsWritten
<1>1. FileInv => ParsedAsWritten
  BY DEF FileInv
<1> QED BY <1>1, FileInit, FileStep, PTL DEF Spec
==============================================================================
