# Inter-Alcohol Communication, in TLA+

Models, model-checking runs and proofs about the shop of this repository: a
client (`client/`), a server that forks once per client (`server/`), a database
server with one database file (`database/`), the transports and data types they
share (`common/`) and the logging daemon (`logging/`).

## 1. Inventory

| Component | Sources | State | Operations | Talks to |
|---|---|---|---|---|
| Client | `client/client.c` | its copy of the product list, the order, the connection | request products, add to the order, submit, quit, SIGINT handler | its forked server: messages over one connection |
| Forked server | `server/forkedServer.c` | the command it is executing, the message in its hands | `sendProducts`/`getProducts`, `processOrder`, `shut_down` | client (connection), database server (pipes behind a mutex) |
| Shared connection | `server/dbConn.c` | process-shared mutex and two descriptors in shared memory | create, destroy, open, close | every forked server, main server |
| Database server | `database/databaseServer.c` | three tables, the request it is executing | list products, place order, close | forked servers and main server (pipes), other users of the file (SQLite locks) |
| Database command line | `database/dbCommandLine.c` | a transaction, if one is open | any statement | the database file |
| Main server | `server/mainServer.c` | database pid, shared connection, listening address | start and stop the database server, accept, fork | all of them |
| Socket transport | `common/commWithSockets.c` | sockets | open, close, send, receive, listen, accept | client, main server, forked server |
| FIFO transport | `common/commWithFIFOs.c` | FIFOs named after the client's pid | the same | the same |
| Framing | `common/lib.c`, `common/comm.h` | none | `ensureRead`, `ensureWrite`, `select_wrapper` | everything that reads and writes |
| Data | `common/order.c`, `common/product.c` | entries, at most 16 products each with a quantity and a price | `orderAdd`, serialise, unserialise | client, database server |
| Configuration | `common/config.c` | automaton state | read a line, move | client and main server at start |
| Logging | `logging/` | a System V message queue, its id in each process | send, receive, remove | everybody |

Not compiled or not ours: `database/dbConn.c` (superseded by `server/dbConn.c`),
`client/dummyClient.c` (scripted input for the client), `database/SQLite/`.

**What is hard here.** Several forked servers share one pair of pipes, and an
answer may have one part or two; what keeps them apart is a mutex that is not
robust, held across writes to clients that may be gone. Clients end by quitting,
by a signal handler that sends a message wherever the program is, or without a
word. Products are listed once and ordered from that list later. An order is
stored by several statements without a transaction, while another process may
lock or change the file. `PROJECT.json` lists each hazard at its line.

**What makes each component correct.**

- *Shared connection*: one exchange at a time; nothing of it is left behind.
- *Forked server and client*: they never get out of step; the client reads
  answers to its own requests; each request is answered; a server ends after its
  client.
- *Database server*: a request is one indivisible step to whoever looks at the
  tables between requests; only verified orders are stored; stock never goes
  below zero; every request gets an answer.
- *All together*: what customers were told is what the tables say.
- *Main server*: the database server is told to stop between two exchanges, and
  whenever the main server cannot listen or accept; whoever waits is served as
  long as there is somebody to serve.
- *FIFO handshake*: the ends of a connection that `conn_open` returns belong to one
  connection of the main server's and to one forked server; `conn_open` and `conn_accept`
  return. (The code keeps the first part; the rest only where nothing fails.)
- *Framing*: the messages received are the messages sent, whole and in order.
- *Data*: products, orders and sub-orders arrive as they were sent; an order lists a
  product once; the text of a query is what its pieces say.
- *Configuration*: `setup()` returns what the file says.
- *Logging*: a message is printed once at most and in order, is lost only with a
  daemon, and holds up nobody.

## 2. Modules

    OrderDesk  <---- Shop <---- ShopProperties <---- MCShop
        ^                             ^------------- ShopProofs <---- ReceiptProofs
        |
        `----------- Database <---- DatabaseProperties <---- MCDatabase
                                      |  ^------------------ DatabaseProofs
                                      |
                                      `-- INSTANCE OrderDesk WITH ... (refinement)

    FifoHandshake <---- FifoProofs   (what comes before Connect of Shop, over FIFOs)

    Config, Addresses <---- MainServer <---- MCMainServer
                                  ^--------- MainServerProofs

    OrderData <---- Query <------------- Wire <---- MCWire
        ^                                  |  ^---- WireProofs ----.
        `---------- Framing <--------------'                       |
                       |  ^---------------- FramingProofs <--------'
                       `-- INSTANCE Channel WITH ... (refinement)

    Logging <---- MCLogging
        ^-------- LoggingProofs

Arrows point at the module that is extended. Four modules look at the whole
system, each at another scale. `MainServer` has processes from the first start to
the last end and sees of a session only its exchanges with the database server.
`Shop` has whole sessions, in messages, once the processes are there. `Database`
has one request, in SQL statements. `Wire` has the messages of a session, in
bytes. What one of them takes as a step another one takes apart: the order desk of
`Shop` is `Database` (refinement), the `Connect` of `Shop` is `FifoHandshake`, its
queues are the channels that `Framing` implements (refinement).

**OrderDesk** is the abstract specification of the database server: requests
answered in one step each. `stock`, `sold` and `placed` are what the properties
need of the tables `products`, `orderEntry` and `orders`; `fromDb` is the pipe
the answers leave on. `Accept`, `Refuse` and `Fail` are the three outcomes of
`place_order`, `ListProducts` and `ListFails` those of `send_products`. `Fail`
says what an order that could not be stored completely may leave behind, because
there is no transaction: the row of the order with some of its entries, or all of
them with some of the updates.

**Shop** is the system as its users see it: any number of clients, a forked
server for each, the mutex, the pipes, and the database server as an OrderDesk.
One variable holds the place of each client (`cpc`) and of each server (`spc`);
the places are the points where another process can get in between: messages sent
and awaited, and the mutex. `up` and `down` are the two directions of a
connection.

| Code | Action of Shop |
|---|---|
| `main` of the client, `conn_open`/`conn_accept`/fork | `Connect`, `Quit`, `Disconnect` |
| `requestProducts` | `RequestProducts`, `ReceiveProducts` |
| `addToOrder`, `orderAdd` | `AddToOrder` |
| `submitOrder` | `SubmitCommand`, `SubmitOrder`, `ReceiveReply`, `ReceiveSubOrder` |
| `disconnect`, `conn_close` | `SayGoodbye` |
| `shutDown` (SIGINT); a client that is killed | `Interrupt`; `Kill` |
| `forkedServer` | `ReceiveCode`; `ReadEndOfFile` when the client is gone |
| `getProducts`, `sendProducts` | `OpenConnection`, `AskForProducts`, `ReadProducts`, `SendProducts` |
| `processOrder` | `ReceiveOrder`, `OpenConnection`, `ForwardCommand`, `ForwardOrder`, `ReadAnswer`, `SendAnswer`, `CloseConnection` |
| `shut_down`, `exit(0)` | `ShutDown` |
| `main` and `place_order` of the database server | `DbReadCode`, `DbReadOrder`; `DbReadJunk` when the order is something else |

The transport is a constant. The two differ where a client is gone: a FIFO
without a reader raises SIGPIPE, a socket may swallow one message first; and the
sockets' `conn_close` sends `MESSAGE_CLOSE` a second time. Undefined behaviour is
a choice: an order that is not one is some order or a crash, a pointer that
`conn_receive` did not set ends the server.

**Database** is the database server one SQL statement at a time, together with
the command line working on the same file: locks (`BEGIN IMMEDIATE`,
`BEGIN EXCLUSIVE`) and single statements that restock, add and remove products,
between any two statements of the server. `pc` is the statement about to be
executed, `todo` the entries its loop has still to visit.

| Code | Action of Database |
|---|---|
| `main` | `Dispatch` |
| `get_products`, `send_products` | `CountProducts`, `SelectProducts` |
| `place_order`, `verifyOrderStock`, `get_stock` | `ReadOrder`, `VerifyEntry` with `GetStock` |
| `store_verified_order` | `InsertOrder`, `InsertEntry` |
| `update_stock`, the CHECK of the table | `UpdateStock` with `Shortage`, `TakeStock` |
| whoever holds the shared connection, `stopDBServer` | `AskProducts`, `AskOrder`, `AskClose`, `ReadAnswer` |
| `dbCommandLine.c` | `CliBegin`, `CliCommit`, `CliUpdate`, `CliInsert`, `CliDelete` |

One detail of the code shows in `Taken`: subtracting a negative quantity writes
`quantity--1 WHERE ...`, SQL takes the rest for a comment, and the statement
changes nothing. Such an order exists: `get_stock` returns -1 when its query
fails, the client gets it in a sub-order and may submit it.

**FifoHandshake** is how a client and the main server find each other over FIFOs:
`conn_open` in any number of clients against the main server's loop of
`conn_accept` and fork, which may fail, in a main server that may be killed. `files` are
the FIFOs under `/tmp`; `readers`, `own` and `heirs` those that clients, `main()` and
forked servers have open for reading: a FIFO that is in one of them has a reader, which
is what the blocking opens wait for, and what a write needs not to raise SIGPIPE. A child
inherits all of `main()`'s. `requests` is the main server's FIFO, with room for `Room`
names; its elements are names, or `Torn` for a length without its name. `servers` are the
connections handed to forked servers, `unserved` those acknowledged with nobody forked,
`hungUp` the FIFOs whose writer has gone without a word.

| Code | Action of FifoHandshake |
|---|---|
| `createProcessFIFOs` | `MakeOut`, `MakeIn`, which fail on a FIFO left behind |
| `conn_open`: the opens, `select` and MESSAGE_OK; the ten seconds | `OpenIn`, `Receive`, `OpenOut`; `TimeOut` |
| `ensureRead` at the end of the file, after `select` | `ReceiveEndOfFile` |
| `sendFIFOPaths` | `TakeLock`, `SendOut`, `SendIn`, which wait for room; `NobodyListens` when open or write fails |
| a client killed, or interrupted before it installs its handler | `Kill`; `Leave` is what the kernel does |
| `conn_listen` | `Listen` |
| `conn_accept` | `ReadFirstName`, `ReadSecondName`, `OpenRead`, `OpenWrite`, `Acknowledge`; `ReadTorn` when a name is missing; `AcknowledgeNobody` for SIGPIPE |
| `createForkedServer`, whose result `main()` drops | `Fork`, which may fork nobody |
| `shut_down`; a main server that is killed; what the kernel closes then | `Stop`; `KillMain`; `MainEnds` |
| forked servers that outlive `main()` and end | `ServersEnd` |

Its properties stand at its end. Shop's `Connect` is the step this module takes
apart where nothing fails: `EndsMatch` is what makes it right to give every client of Shop
a server of its own and a channel nobody else writes to. When fork() fails the main server
has the other ends (`unserved`) and nobody reads them; Shop is about clients that have been
forked for.

**Config** is `common/config.c`: the automaton of `setup()`, whose states decide
line by line what the file is. A line is what the regular expressions and
comparisons of the automaton tell apart: the section tag, another tag, a
parameter with its key and value, `end`, an empty line, anything else.

| Code | Action of Config |
|---|---|
| `openConfigFile` failing; end of file, `setup` | `OpenFails`; `EndOfFile` |
| `q0Action`, `q1Action` | `q0Action`, `q1Action` |
| `q2Action` ... `q5Action` and the arc back | `StoreValue`, part of `q1Action` |

**Addresses** holds the functions of `commWithSockets.c` on addresses and ports, with
the 16 bits of `in_port_t`: `checkIP`, `checkPort`, `isValidAddress`,
`inet_pton`, and which client address reaches which listening port.

**MainServer** composes both with `mainServer.c` and `server/dbConn.c`. Any number of
main servers may be started with one configuration file and one shared memory.
`mp` is the place of each, `db` that of its database server, `sp` that of each
client and its forked server, `fds` the connections the main server never closes,
`address` who has the listening address, and `mutex` the process-shared mutex,
which `sh_conn_create` initialises whoever is using it.

| Code | Action of MainServer |
|---|---|
| `main` up to `startDBServer` | actions of Config, `Setup` |
| `startDBServer`, `sh_conn_create`; fork | `StartDBServer`; `ForkDBServer` |
| execve, which kills the parent when it fails | `ExecDBServer` |
| `conn_listen`, `getListeningPort` | `Listen` with `CanListen` |
| `conn_accept` and its errors | `Accept`, `AcceptFails`, `AcceptError` |
| `conn_accept` over FIFOs for a client that has gone: blocked in `open`, or SIGPIPE | `AcceptGone` |
| `createForkedServer` | `CreateForkedServer` |
| `stopDBServer` | `StopDBServer`, `CloseDBServer` |
| main loop of the database server | `ServeRequest` |
| `conn_open` of a client | `Connect` with `GetsThrough` |
| `processOrder`, `getProducts` and the mutex | `Request`, `OpenConnection`, `Ask`, `ReadAnswer`, `CloseConnection`, `Leave` |
| `getProducts` returning early on MESSAGE_ERROR, the mutex locked | `ReadAnswer` with the fault "busy" |
| SIGPIPE in `processOrder`, the mutex locked | `BrokenPipe` |
| a main server that is killed | `Kill` |

**OrderData** has the functions of `order.c` and `product.c` under their names, on
bytes each of which knows which value it is part of: a reader that is off by one
gets bytes that do not belong together. A float is a whole number of units of 1/`Scale`, and
only some such numbers are floats: `ToFloat` rounds to the nearest, and `orderGetTotal` rounds
each product and each sum, as the code does. **Query** has `countDigits` and the positions
at which `store_verified_order` prints the pieces of its INSERTs, with what `printf`
really makes of each. **Framing** is `ensureWrite`, `ensureRead` and the length before
each message, on streams of bounded capacity that take and give as little as they like;
**Channel** is what it promises, one message at a time. **Wire** sends a session through all four:

| Code | Action of Wire |
|---|---|
| `send_products`; `getProducts`; `sendProducts`; `requestProducts` | `DbSendProduct`; `ReadProduct`; `SendProduct`; `ReceiveProduct` |
| `addToOrder` | `AddToOrder` |
| `submitOrder` | `SubmitOrder`, `ReceiveSubOrder` |
| `processOrder` | `ForwardOrder`, `ForwardSubOrder` |
| `place_order`, `verifyOrderStock`, `get_stock` | `PlaceOrder` |
| `ensureWrite`, `ensureRead` | `Transfer`, with `Write` and `Read` |
| a client that is killed, also half way through a message | `Kill` |

**Logging** is `logging.c` in every process and `loggingDaemon.c`, over message queues
of the kernel (external: a key leads to one queue at a time, an identifier to one
queue for ever). A message is its process and the number of the call.

| Code | Action of Logging |
|---|---|
| fork, which copies `msqid` | `Fork` |
| `logMessage`: `connectToMsgQueue`, `msgsnd` | `LogMessage`, `ConnectToMsgQueue`, `Msgsnd` |
| `main` of the daemon | `Start`, `Msgget`, `Msgrcv` or `MsgrcvFails`, `PrettyPrintMessage` |
| `msgqueue_cleanup` on SIGINT; SIGKILL | `Cleanup`, or `CleanupFails` when there is nothing to remove; `Kill` |

The daemon is linked with `logging.o` (logging/Makefile:18-19), whose `int msqid = -1`
(logging.c:12) is the object that `int msqid;` in loggingDaemon.c:13 names: before `msgget` it
is -1, and `msgctl` fails.

**ShopProperties** and **DatabaseProperties** state what must hold; the other modules
have their properties at the end. Modules whose names begin with **MC** give
constants their values; those that end in **Proofs** hold the theorems, and say at
their top what the argument is. Definitions named as mutants are plausible bugs in one action: each
property listed in `PROJECT.json` fails when its mutant takes the action's place.

## 3. What the runs show

| Run | Checks | Result |
|---|---|---|
| `ShopSales` | `ReceiptsMatchTables`, `RowsAreTheHolders`, `RequestsAnswered`, `SessionsEnd` | hold: FIFOs, no faults, two clients, two products |
| `ShopFaults` | `TypeOK`, `ExchangeDiscipline`, `SessionDiscipline`, `CartFits`, `AnswersAreMine`, `OneOrderPerReceipt` | hold: sockets, clients interrupted and killed anywhere, database file locked by others |
| `ShopPipeBreaks` | `BusyConnectionFreesUp` | violated: SIGPIPE kills a server that holds the mutex |
| `ShopEndOfFile` | `EnsureReadReturns` | violated: `ensureRead` never returns at end of file |
| `DbLocked` | `VerifiedHasStock`, `ImplementsOrderDesk`, `EveryRequestAnswered` | hold with other processes locking the file at any time |
| `DbEdited` | `TypeOK`, `StockGoesToEditsOnly` | hold while products are added, removed and restocked |
| `FifoMeeting` | `RequestsInPairs`, `EndsMatch`, `WaitsOnlyForTheGone`, `ConnOpenReturns` | hold: three clients that die or time out anywhere, FIFOs left behind, a full FIFO, forks that fail, a main server killed anywhere |
| `FifoAcceptBlocks` | `ConnAcceptReturns` | violated: a client ends before its FIFO is opened, and the main server waits for ever |
| `MainServerLife` | `ParsedAsWritten`, `OneAtATime`, `StopsBetweenExchanges`, `DatabaseEndsToo`, `ServedWhileOpen` | hold: one main server from its configuration file to its end, either transport; pipes, forks, execve, accepts and queries that fail, a kill, clients that go away |
| `MainTwice` | `OneAtATime` | violated: a second start initialises the mutex that the first one's forked servers use |
| `Wire` | `LinksAreChannels`, `ProductsArrive`, `OrderArrives`, `SubOrderArrives`, `EntriesOnce`, `QueriesWhole`, `DataGetThrough` | hold: transfers in any pieces, a client killed half way through a message |
| `Logging` | `PrintedOnce`, `LostWithDaemonOnly`, `ShownInOrder`, `LoggingReturns`, `AcceptedAreShown` | hold: daemons started late, twice or again, killed and interrupted |

The properties that carry most. `ExchangeDiscipline`, under every fault: the pipes
carry nothing but the exchange of the mutex's holder and are empty when it is free.
`ImplementsOrderDesk`: the database server, failing statements included, does
nothing to the tables and answers nothing that the one-step desk would not; the
first is what lets Shop use the second. `LinksAreChannels`: the byte streams are the
message queues that Shop is built on. `ParsedAsWritten` compares the automaton with a
definition of its own of what a configuration file says, as a series of sections.

`ReceiptsMatchTables` is checked without faults only, since with them it is not
true: an order may be half stored with an error reported, and the receipt of a client
that was killed is lost. `OneOrderPerReceipt` is the part of it that survives.
`VerifiedHasStock` is checked with locks but without edits: an edit between verifying
and storing makes it false, and `StockGoesToEditsOnly` and the CHECK are what remains.
`QueriesWhole` says exactly which totals spoil a query: those that `%.2f` rounds up to
one more digit before the point, and those it writes as minus zero. The total is the one
that float arithmetic comes to, and what is rounded is that float: in the run, two
bottles at 4.69 and one at 0.62, which are 10 in decimals, make 9.998 and spoil the query,
and one at 9.995, a float just below that, does not.
`EndsMatch` says that a connection `conn_open` returns is one of the main server's and of no
other client. It does not say that somebody has been forked for it: MESSAGE_OK is sent before
the fork, whose failure `main()` does not notice, in spite of "Server forked and listening"
(commWithFIFOs.c:119).

Three liveness properties have exceptions, which are what the code does and no weaker than
needed. `ConnOpenReturns` excepts a client whose main server goes in the middle of its request
(`Abandoned`) and a FIFO that is full and nobody going to read it (`Jammed`); everybody
else returns, the main server being stuck or dead included. `DatabaseEndsToo` and
`ServedWhileOpen` except a mutex left locked by a session that went on or ended without
unlocking it (`Stuck`; `ShopPipeBreaks` shows one way, the early return at forkedServer.c:126 is
the other), a main server without a database server (`Unattended`), and one blocked in
`conn_accept` (`FifoAcceptBlocks`).
`SubOrderArrives` includes the -1 that `get_stock` returns when its query fails, which
arrives as a quantity like any other.

**Findings.** `PROJECT.json` gives each of the four with the line of the code and the
sentence of the documentation it contradicts: a mutex held by a process that
SIGPIPE ended; `ensureRead` at end of file; `conn_accept` blocked by a client that is gone;
and `sh_conn_create` on a mutex in use.

The models have more of the kind as outcomes, without a run of their own.

- `getProducts` returns with the mutex locked when the database answers MESSAGE_ERROR
  (forkedServer.c:126), and its session and every other wait for ever: "busy" in Shop and in
  MainServer.
- A client whose main server is killed before MESSAGE_OK (commWithFIFOs.c:217) reads the end of
  the file for ever, and one killed after it waits for a reader: "mainkill" in FifoHandshake.
- A client for which fork() failed has a connection that nobody reads: "fork" there.
- `startDBServer` returns 1 when fork() fails (mainServer.c:55), and the main server listens
  without a database server.
- `checkPort` cuts a port to sixteen bits before it compares it with 65535
  (commWithSockets.c:282), and takes ports beyond that.
- The products are counted by one statement and listed by another (databaseServer.c:90).
- Over FIFOs a main server without descriptors hands out connections to nobody.
- A process keeps the identifier of a queue that has been removed, so that after an interrupted
  daemon it never logs to another (logging.c:19).

**Bounds.** *Shop*: two clients, since one can be overtaken by the other at every
step and the mutex has one holder and one waiter; what a third could do is
covered by the proofs. Two submissions per client (`MaxTries`): one that is refused
and one of the sub-order, changed or not. One or two bottles of one or two products:
enough to satisfy both clients, one of them, or one in part. `ShopFaults` has one
product because the faults multiply the states; which products an order lists
does not matter to the properties it checks. *Database*: `MaxRequests` = 2, a refusal and the
sub-order submitted again; `MaxEdits` = 2 rows changed from the command line.
*FifoHandshake*: three clients, so that one can die half way through its request and
two others run into what it left; each connects once, and the initial states range
over all the sets of FIFOs left behind. `Room` = 3 names, so that the FIFO is full with
half a request at its end. The runs that end in a violation need one client that dies or
is left, and one that waits; in theirs there is room for all.
*MainServer*: three clients and two descriptors, so that the third finds none left;
one request each; files of four lines, enough for a section with both addresses;
addresses and ports that are missing, cut short or of one digit, or the same only modulo 2^16.
The one request of a client suffices for a mutex left locked: another client finds it so.
`MainTwice` needs the second main server and two clients of the first. *Wire*:
lengths of two bytes and integers of one, so that a transfer can stop inside either;
streams of two bytes, less than any message; three products for orders of at most
`ORDER_MAX_SIZE` = 2 entries, so that one does not fit; floats of 13 bits (`MantissaLimit`,
with `Scale` = 8192 units in 1, where IEEE single precision has 2^24 and 2^149) and prices
chosen so that sums and hundredths are rounded either way across a power of ten; `INT_MAX` is
the real one; two submissions. *Logging*: `main()` and one forked process with two
messages each, a queue of two, so that it fills; two starts of the daemon, one after
the other or at the same time; what more would do is covered by the proofs.

**Deadlock** is not checked in any run: once all sessions are over nothing
happens, the database server stops when told to, the main server waits for
clients that need not come, and nobody has to log anything.

**Fairness.** Processes are scheduled by the kernel, and every call they block in
returns once its condition holds: weak fairness of the steps of each process.
Users owe nothing, and nothing has to fail. In `Shop`, each client program, each
forked server and the database server; weak fairness of a server at the mutex is
enough because each client asks a bounded number of times, so nobody is overtaken
for ever. In `Database`, the server alone: without a busy timeout none of its
statements waits for a lock. In `FifoHandshake`, each client once it has begun (the
timer of its `select` included) and the main server's loop, but not `stopDBServer`, which may
have to wait for ever, nor the end of forked servers; `flock` needs no more,
since a client asks for it once. In `MainServer`, each main server after `setup()`,
each database server and each session between its request and its end;
requests, errors and kills are not fair. In `Wire`, the two directions of each stream and
the reading and writing loops of the three programs; not what the customer does. In
`Logging`, each process inside `logMessage` and each daemon once it is started.

## 4. What is proved

By TLAPS, for every value of the constants that the modules' assumptions allow.

`ShopProofs`, for every set of clients, products and addresses, any stock, either
transport and any of the faults:

| Theorem | Statement |
|---|---|
| `Invariance` | `Spec => []IInv` |
| `TypeCorrectness` | `Spec => []TypeOK` |
| `ExchangesAreDisciplined` | `Spec => []ExchangeDiscipline` |
| `SessionsStayInStep` | `Spec => []SessionDiscipline` |
| `CartsFit` | `Spec => []CartFits` |
| `AnswersBelong` | `Spec => []AnswersAreMine` |

The inductive invariant is `IInv == TypeOK /\ ExchangeDiscipline /\
SessionDiscipline /\ CartFits`; `ShopFaults` checks all of it. None of the parts
is inductive by itself. `ExchangeDiscipline` says, place by place, what is on the
pipes while a server holds the mutex; without it a server might read anything from
the database. With it, `SessionDiscipline` (at each place of the client exactly one
command or answer is under way, in one of a few places) survives the server's
steps: the sub-order a server reads is cut down from the order it forwarded.
`CartFits` (ordered and still shown never exceed what was on the shelf) needs that
a sub-order is a cut down order, and `TypeOK` needs `CartFits` for the bound on
quantities. `AnswersAreMine` follows from `SessionDiscipline`. The module has one
lemma per part and process (`ClientKeepsSession`, `ServerKeepsExchange`, ...), each
with one step per action.

`ReceiptProofs` goes on from there, to what customers are told:

| Theorem | Statement |
|---|---|
| `OneOrderEach` | `Spec => []OneOrderPerReceipt` |
| `RowsForTheHolder` | `"sigint" \notin Faults`, so `Spec => RowsAreTheHolders` |
| `SalesMatchReceipts` | `Faults = {}` and `IsFiniteSet(Clients)`, so `Spec => []ReceiptsMatchTables` |

`IInv` speaks of the sessions of connected clients. A client that has gone leaves a
forked server that reads on, and an order already sent is still placed, so
`Receipts` follows the one order of each session, whoever is left: it is its own
client's (`Named`), it is in one of the socket, the server's hands and the tables
(`Sole`), and MESSAGE_OK is under way or received only if it is in the tables
(`Receipt`). It is inductive together with `IInv` (`ReceiptsInitially`, `ReceiptsStep`).
`RowsAreTheHolders` needs that what follows a command to place an order is the order
(`WholeOrders`). SIGINT is excluded because it is false with it: `shutDown` sends
MESSAGE_CLOSE wherever the client is, and in the place of an order the server forwards it.

The books come on top: no quantity is negative (`OrdersNonNegative`), a client that
left in peace has heard its answer (`Parted`, `Acknowledged`), and the entries sold are
the sum of the stored orders (`BooksBalance`). With faults the theorem would be
false: a client that was killed does not hear, and a statement that fails leaves
behind those before it. `Clients` has to be finite because a sum is taken over
it. That sum is recursive (`MapThenSumSet`), and the rules for it (it exists; changing one
summand changes it by as much) are proved without an induction rule, from a smallest
subset of `Clients` for which they fail: strict inclusion is well founded on finite
sets.

`DatabaseProofs`, for every finite set of products, any addresses and any number of requests:

| Theorem | Statement |
|---|---|
| `TypeSafe` | `Spec => []TypeOK` |
| `OnlyEditsTakeStock` | `Spec => StockGoesToEditsOnly` |
| `StoredOrdersHaveStock` | `LockersOnly`, so `Spec => []VerifiedHasStock` |
| `IsOrderDesk` | `LockersOnly`, so `Spec => ImplementsOrderDesk` |

`ServerInv` holds whatever is edited from the command line: the tables
(`TablesTyped`), the server's place in its loops (`WorkTyped`), one request or one answer
on the pipes (`PipesFit`), and one row of orders for each request at most
(`RequestsBound`). `LockersOnly == Cli \subseteq {"reserved", "exclusive"}` says that
the command line locks the file and changes nothing. Without it, `VerifiedHasStock` and
the refinement are false: whoever takes stock between `verifyOrderStock` and
`store_verified_order` leaves a verified order without its stock, and an edit is
no step of the desk. With it, `LockedInv` says that
an entry not yet taken from the shelf has its stock (`Stocked`). The refinement
shows the tables as they were before the request until the statement that ends it, and
so maps every other statement to a stutter. What the desk does at the end
depends on the order as it came in, which the loop of `verifyOrderStock` has
overwritten with what there is; `Remembered` says that there is an order, and a set of failed
queries, of which the present one is the cut down form. Products are finite because the
server counts them, and there is an address because a message has one.

`FifoProofs`, for any clients, any FIFOs left behind, any room in the main server's FIFO, and
any deaths, time-outs and forks that fail, the death of the main server included:

| Theorem | Statement |
|---|---|
| `NamesInPairs` | `Spec => []RequestsInPairs` |
| `EndsMeet` | `Spec => []EndsMatch` |
| `WaitsForNoLiveClient` | `Spec => []WaitsOnlyForTheGone` |

`conn_accept` reads two names without knowing whose they are, and a client that dies
between its two writes leaves one. So the main server may join that name with the first of
the next client (`Crossed`), and what saves the others is what it does next: it opens
the second FIFO for writing, which only the main server itself would ever open for
reading, and waits for ever. Until that happens (`Aligned`) every name stands where
its client has put it (`InPlace`), and a connection that is made is of one client
(`Making`, `Answered`). Names are written and read once (`Once`). After a request that is torn,
and after its end, the main server reads no name any more (`Halted`), so what clients may
rely on is what it has made before. `Made` has the connections for which nobody was forked
as well: `EndsMeet` says whose the other ends are, not that somebody is there.

`MainServerProofs`, for any clients, descriptors, configuration files, either transport
and any of the module's `Faults`, but for one main server (`OneMain`):

| Theorem | Statement |
|---|---|
| `MainInvariance` | `OneMain`, so `Spec => []IInv` |
| `OneServerAtATime` | `OneMain`, so `Spec => []OneAtATime` |
| `StopsInBetween` | `OneMain`, so `Spec => []StopsBetweenExchanges` |

`OneMain` is not a convenience: `MainTwice` shows that with two starts the mutex is no
mutex. The invariant joins the types (`Types`, `DbTypes`), that nobody is at the mutex
before there is one (`Started`), that whoever is between `sh_conn_open` and
`sh_conn_close` has locked it (`Locked`; the converse is false, since a session may go on or
end with the mutex locked), and what the pipes hold at each place of
the one who has (`Exchanges`). `Locked` alone is not inductive: `CloseConnection` unlocks
without asking who locked, and `StartDBServer` initialises the mutex; `Started` says
that no session exists when it does.

The second part of the module, for files of every length, any keys and any parameters:

| Theorem | Statement |
|---|---|
| `SetupReadsTheFile` | `Spec => []ParsedAsWritten` |

As long as the file is read (`Follows`) the automaton is in q1 exactly if the next line is
inside a section, every line so far belongs where it is, and what is stored for a key is
its last value. The step rests on `LinesBefore`: whether a line is inside a section
depends on the lines before it only.

`LoggingProofs`, for any processes forked from any, any number of daemons, any capacity
and any number of messages:

| Theorem | Statement |
|---|---|
| `LoggingInvariance` | `Spec => []IInv` |
| `NothingPrintedTwice` | `Spec => []PrintedOnce` |
| `MessagesInOrder` | `Spec => []ShownInOrder` |
| `LossesHaveReasons` | `IsFiniteSet(Daemons)`, so `Spec => []LostWithDaemonOnly` |

The invariant follows a message from the queue through a daemon's hands to its
screen. That it is in one place only (`Apart`) and comes after the earlier ones of its
process in each (`InOrder`) depends on both: a message taken from a queue is not
left in it because the queue is ascending. Both need that a new message has a number
beyond all those accepted (`Recorded`, `OneCall`), and that a daemon which gets its queue
has printed nothing (`Fresh`). Steps that move no message are disposed of by one lemma,
`QuietKeeps`; the three that do have one each. `LossesHaveReasons` goes the other way: a
message accepted is in some queue, on some screen or in some daemon's hands from the call
of `msgsnd` up to the first interruption (`Lossless`); a new queue takes nobody's place
because identifiers ascend (`Numbered`). What is lost is therefore in the hands of killed
daemons, which hold one message each.

`FramingProofs` and `WireProofs`, for any catalogue, addresses, stock and number of
submissions, streams of any capacity, a `size_t` and an `int` of any size, floats of any
precision, texts of any length, and a client that may be killed anywhere. The assumptions are types: the names and
descriptions of products and the addresses are texts without a NUL, as C strings are, and
what `get_stock` returns are integers.

| Theorem | Statement |
|---|---|
| `ProductSurvives` | `productUnserialize(productSerialize(p)) = p` for every product |
| `OrderSurvives` | `orderUnserialize(orderSerialize(o)) = o` for every order, with or without address |
| `Always` | `Spec => []IInv` |
| `WireRefinesChannel` | `Spec => LinksAreChannels` |
| `ListArrives` | `Spec => []ProductsArrive` |
| `OrdersArrive` | `Spec => []OrderArrives` |
| `EntriesAreOnce` | `Spec => []EntriesOnce` |
| `SubOrdersArrive` | `Spec => SubOrderArrives` |
| `QueriesAreWhole` | `Spec => []QueriesWhole` |

*Framing.* `Messages`, the reading of a stream as messages, and `FlattenSeq` are
recursive. No induction rule is used: a function that satisfies the recursion up to some
length exists, and two of them agree, because there is no shortest sequence for which they
do not (`LeastNumber`, `MessagesAt`, `FlattenSeqIs`). The rest is cancellation: whole
messages at the front are read as such whatever comes after them (`MessagesCancel`), and
what comes after them is read as if it stood alone. A link is `Framed` if what is on it is
whole messages followed by the part already written of the one that `ensureWrite` is
writing. One lemma per action says what it does to the queue of a link: `conn_send` puts a
message at its end (`SendAction`), `conn_receive` takes the first (`TakeAction`),
`ensureWrite` and `ensureRead` change nothing (`WriteAction`, `ReadAction`), and a writer
that ends loses the message it was writing and no other (`BreakAction`). `Framed` is not
kept by the last, which is why `LinkInv` has an exception for the link of a client that is
over. `WireRefinesChannel` puts them together.

*Data.* Bytes say which value they belong to, so a number that is read from the wrong
place is not the number written. `Starts` and `InPlace` say what is where; the
lengths that precede the texts, the address and the entries lead `productUnserialize` and
`orderUnserialize` to it.

*A session.* `ListInv` and `ClientInv`: between two arrays, the products are on the link,
in order. `OrdersInv`: an order lists a product of the catalogue once and fits in
`items`, which `orderUnserialize` does not check. `WhereInv`: an order is nowhere, on
`up`, on `toDb` or in the tables, its sub-order is on `fromDb` or on `down`, and nothing else is on these
links; so the next message that a program reads is the one it takes it for. Once the
client is over, the order it has left behind still goes its way.

*Queries.* `store_verified_order` is right if each of its four pieces takes as many
characters as it is counted for. Only the total, the second piece of the order's query, can
fail to, and is counted too short, never too long (`FourPieces`). `TotalCounted` says when: `printf` rounds the
total to hundredths and `countDigits` sees its integer part, so the two differ where a
power of ten lies in between, and `(int)` drops the sign of what is between -1 and 0. This is
so for whatever float the additions come to (`TotalIsInt`): the nearest hundredth of it
reaches a power of ten exactly if it is no more than half a hundredth below
(`NearestAtLeast`, `Against`). It rests
on recursive functions again (`DigitsFrom`, `Ulp`, powers of ten, `FoldLeft` in `orderGetTotal`
and `QueryOf`); `Recursion` and `Descent` state once what `FramingProofs` shows for `Messages`:
a recursion that descends in a rank has a solution, and only one.

Each of these invariants was model-checked before it was proved: the parts of `IInv`
of Shop by `ShopFaults`, the others on the instances of the runs of their modules.

Every safety property that a passing run checks is thus a theorem, under the conditions
the tables give. Only model-checked is whatever holds eventually: `RequestsAnswered`,
`SessionsEnd`, `EveryRequestAnswered`, `ConnOpenReturns`, `DatabaseEndsToo`, `ServedWhileOpen`,
`DataGetThrough`, `LoggingReturns` and `AcceptedAreShown`. Liveness under fairness and ENABLED are
out of the prover's reach.

## 5. Not modelled, and the plan

- *SQLite* is vendored and makes up four fifths of the repository's lines. It enters as
  what its statements do, as `databaseServer.c` uses them. What it does inside, and its
  shell, is not this program's logic.
- *Memory*: `requestProducts` allocates too little, and `store_verified_order` prints an
  address of up to 1022 characters into 1024 with the rest of the query; both
  overflow whenever they happen, and the layout of memory is below these models.
- *The database file removed* at each start of the database server (databaseServer.c:346),
  also under a server that is still running: the program never reads its orders again.
- *Floats too large*: none is infinite, and `QueriesWhole` says nothing of totals that an
  `int` cannot hold, whose conversion is undefined (databaseServer.c:160).
- *Failing initialisation*: the statements of `init` in the database server; errors of
  `socket()`; memory that is exhausted.
- *FIFOs removed by `conn_close`*, which matters when a pid is used again. No pid is used
  twice in `FifoHandshake`.
- *Signals*: messages cut in two by one, except by the end of the process (`Wire`).
- SIGPIPE in the database server cannot happen while `main()` and the forked servers keep
  the ends of its pipes. A list of products is one message in `Shop`, because the loops that write
  and read it have nothing in between; `Wire` has its products one by one.
- Transactions of the command line that are rolled back; orders of no entries, which
  clients do not send; the text of menus and what the user types.
- The *earlier database connection* is not compiled, the *scripted client* adds no
  behaviour to the client's.

Next: the removal of FIFOs, with pids that are used again; and the liveness of each module
for any number of processes, once there are tools for it.
