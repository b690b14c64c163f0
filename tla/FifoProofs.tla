------------------------------ MODULE FifoProofs ----------------------------
(***************************************************************************)
(* For any number of clients, any room in the main server's FIFO, whatever *)
(* FIFOs earlier processes have left behind, and whether clients die or    *)
(* time out, forks fail or the main server is killed: the names of a       *)
(* request arrive together unless a client has died between its writes,    *)
(* the other ends of a connection that conn_open returns are in one        *)
(* connection that conn_accept has made, and conn_accept waits for nobody  *)
(* but the gone.                                                           *)
(*                                                                         *)
(* A client that dies leaves half a request behind, so the main server may *)
(* take the first name of the next client for the second name of a dead    *)
(* one.  The proof rests on what happens then: it waits for a reader of a  *)
(* FIFO that only itself would open for reading, and so reads no further   *)
(* name at the wrong place.  Until then (Aligned) each name it has still   *)
(* to read stands where its client put it.                                 *)
(***************************************************************************)
EXTENDS FifoHandshake, SequenceTheorems, TLAPS

-----------------------------------------------------------------------------
(* The inductive invariant.                                                *)

Fifos  == [pid : Pids, end : {"out", "in"}]
Tokens == Fifos \cup {Torn}

\* The connections between a client and the server made for it.
Pairs == {Pair(p) : p \in Pids}

\* After these, the main server reads no name.
Halted == {"stop"} \cup Ended

Types ==
  /\ cp \in [Pids -> {"start", "makeOut", "makeIn", "openIn", "lock", "sendOut", "sendIn", "wait",
                      "spin", "openOut", "connected", "gone"}]
  /\ sp \in {"start", "select", "name", "openRead", "openWrite", "ack", "fork"} \cup Halted
  /\ requests \in Seq(Tokens)

\* Who writes holds the lock, and a client has its FIFO open for reading from
\* before it asks for as long as it lives.
Clients ==
  \A p \in Pids :
    /\ lock = p <=> cp[p] \in {"sendOut", "sendIn"}
    /\ cp[p] \in {"lock", "sendOut", "sendIn", "wait", "spin", "openOut", "connected"} =>
         In(p) \in readers

\* The FIFOs whose names the main server has read, for good or not.
Past == servers \cup unserved
Read == {f \in Fifos : \E c \in Past \cup {conn} : f = c.in \/ f = c.out}

\* A name is written once, by its client, and read once.
Waiting(f) == \E i \in 1 .. Len(requests) : requests[i] = f

Once ==
  /\ \A p \in Pids :
       /\ Waiting(Out(p)) \/ Out(p) \in Read =>
            cp[p] \in {"sendIn", "wait", "spin", "openOut", "connected", "gone"}
       /\ Waiting(In(p)) \/ In(p) \in Read =>
            cp[p] \in {"wait", "spin", "openOut", "connected", "gone"}
  /\ \A i, j \in 1 .. Len(requests) : requests[i] = requests[j] /\ i # j => requests[i] = Torn
  /\ \A f \in Read : ~Waiting(f)

\* The connection being made is that of one client, or it joins what a dead one
\* has left with the next one's first name: then nobody will ever read where it
\* is to be written.
Crossed ==
  \E p, q \in Pids : /\ conn = [in |-> Out(p), out |-> Out(q)] /\ p # q
                     /\ cp[p] = "gone" /\ ~HasReader(Out(q))

Making ==
  /\ sp \in {"start", "select"} => conn = NoConn
  /\ sp = "name" => \E p \in Pids : conn = [in |-> Out(p), out |-> NoFifo]
  /\ sp \in {"openRead", "openWrite"} => conn \in Pairs \/ Crossed
  /\ sp \in {"ack", "fork"} => conn \in Pairs
  /\ sp \notin Halted => Past \subseteq Pairs /\ \A c \in Past : c.in # conn.in
  /\ \A p \in Pids : HasReader(Out(p)) => Out(p) \in Read
  /\ \A c, d \in Past : c.in = d.in \/ c.out = d.out => c = d
  /\ servers \cap unserved = {}

\* An acknowledgement is for a connection that has been made.
Answered ==
  \A p \in Pids : In(p) \in acks \/ cp[p] \in {"openOut", "connected"} => Pair(p) \in Made

\* The main server has not taken a name for another.
Aligned == sp \notin Halted /\ (sp \in {"openRead", "openWrite"} => conn \in Pairs)

\* The names in s stand as the clients, at these places, have written them.
Ordered(s, place) ==
  /\ \A p \in Pids : place[p] = "sendIn" => s # <<>> /\ s[Len(s)] = Out(p)
  /\ \A i \in 1 .. Len(s) : \A p \in Pids :
       /\ s[i] = In(p) => i > 1 /\ s[i - 1] = Out(p)
       /\ s[i] = Out(p) => IF i = Len(s) THEN place[p] \in {"sendIn", "gone"}
                                         ELSE s[i + 1] = In(p) \/ place[p] = "gone"

InPlace == Aligned => Ordered(Names, cp)

\* The same when nobody has died: the names come in pairs (RequestsInPairs).
InPairs(s, place) ==
  \A i \in 1 .. Len(s) :
    IF i % 2 = 1
      THEN /\ s[i].end = "out"
           /\ i = Len(s) => place[s[i].pid] = "sendIn"
      ELSE s[i] = In(s[i - 1].pid)

\* Nothing is torn, and the main server does not shut down, without a death.
SomeGone == \E p \in Pids : cp[p] = "gone"
Deaths   == sp = "stop" \/ Waiting(Torn) => SomeGone

IInv == Types /\ Clients /\ Once /\ Making /\ Answered /\ InPlace /\ Deaths /\ RequestsInPairs

-----------------------------------------------------------------------------
(* FIFOs and their names.                                                  *)

\* No two FIFOs have the same name, and neither is a torn name one.
LEMMA FifoNames ==
  /\ \A p \in Pids : Out(p) \in Fifos /\ In(p) \in Fifos
  /\ \A p, q \in Pids : Out(p) # In(q) /\ (Out(p) = Out(q) => p = q) /\ (In(p) = In(q) => p = q)
  /\ \A f \in Fifos : \E p \in Pids : f = Out(p) \/ f = In(p)
  /\ Torn \notin Fifos /\ NoFifo \notin Fifos /\ Torn # NoFifo
BY HandshakeAssumption DEF Out, In, Fifos, Torn, NoFifo

\* A pair knows its client.
LEMMA PairParts ==
  /\ \A p \in Pids : Pair(p).in = Out(p) /\ Pair(p).out = In(p) /\ Pair(p) \in Pairs
  /\ \A c, d \in Pairs : c.in = d.in \/ c.out = d.out => c = d
<1>1. \A p \in Pids : Pair(p).in = Out(p) /\ Pair(p).out = In(p) /\ Pair(p) \in Pairs
  BY DEF Pair, Pairs
<1>2. ASSUME NEW c \in Pairs, NEW d \in Pairs, c.in = d.in \/ c.out = d.out
      PROVE  c = d
  <2>1. PICK p \in Pids, q \in Pids : c = Pair(p) /\ d = Pair(q)
    BY <1>2 DEF Pairs
  <2>2. p = q
    BY <1>1, <1>2, <2>1, FifoNames
  <2> QED BY <2>1, <2>2
<1> QED BY <1>1, <1>2

\* A connection nobody has been read for is of no FIFO.
LEMMA NoConnParts == NoConn.in = NoFifo /\ NoConn.out = NoFifo
BY DEF NoConn

\* The first name still waiting, and the others.
LEMMA FirstName ==
  ASSUME Types, requests # <<>>
  PROVE  /\ Head(requests) = requests[1] /\ Head(requests) \in Tokens
         /\ Len(requests) \in Nat \ {0}
         /\ Tail(requests) \in Seq(Tokens) /\ Len(Tail(requests)) = Len(requests) - 1
         /\ \A i \in 1 .. Len(requests) - 1 : Tail(requests)[i] = requests[i + 1]
BY HeadTailProperties, EmptySeq DEF Types

\* A name added to those waiting.
LEMMA OneMoreName ==
  ASSUME Types, NEW x \in Tokens, requests' = Append(requests, x)
  PROVE  /\ requests' \in Seq(Tokens) /\ Len(requests) \in Nat /\ Len(requests') = Len(requests) + 1
         /\ \A i \in 1 .. Len(requests) : requests'[i] = requests[i]
         /\ requests'[Len(requests) + 1] = x
BY AppendProperties DEF Types

\* The names of a request begin with the one the main server has read already.
LEMMA NamesWhole ==
  Types /\ Making =>
    /\ Names \in Seq(Tokens) /\ Len(Names) \in Nat
    /\ sp # "name" => Names = requests
    /\ sp = "name" => /\ Len(Names) = Len(requests) + 1 /\ Names[1] = conn.in
                      /\ \A i \in 1 .. Len(requests) : Names[i + 1] = requests[i]
<1> SUFFICES ASSUME Types, Making
             PROVE  /\ Names \in Seq(Tokens) /\ Len(Names) \in Nat
                    /\ sp # "name" => Names = requests
                    /\ sp = "name" => /\ Len(Names) = Len(requests) + 1 /\ Names[1] = conn.in
                                      /\ \A i \in 1 .. Len(requests) : Names[i + 1] = requests[i]
  OBVIOUS
<1>1. requests \in Seq(Tokens) /\ Len(requests) \in Nat
  BY LenProperties DEF Types
<1>2. CASE sp # "name"
  <2>1. Names = requests
    BY <1>1, <1>2, ConcatEmptySeq DEF Names
  <2> QED BY <1>1, <1>2, <2>1
<1>3. CASE sp = "name"
  <2>1. conn.in \in Tokens
    BY <1>3, FifoNames DEF Making, Tokens
  <2>2. <<conn.in>> \in Seq(Tokens) /\ Len(<<conn.in>>) = 1 /\ <<conn.in>>[1] = conn.in
    BY <2>1
  <2>3. Names = <<conn.in>> \o requests
    BY <1>3 DEF Names
  <2>4. /\ Names \in Seq(Tokens) /\ Len(Names) = 1 + Len(requests)
        /\ \A i \in 1 .. 1 + Len(requests) : Names[i] = IF i <= 1 THEN <<conn.in>>[i] ELSE requests[i - 1]
    BY <1>1, <2>2, <2>3, ConcatProperties
  <2> QED BY <1>1, <1>3, <2>2, <2>4
<1> QED BY <1>2, <1>3

\* The same after a step.
LEMMA NamesWholeNext ==
  ASSUME Types', Making'
  PROVE  /\ Names' \in Seq(Tokens) /\ Len(Names') \in Nat
         /\ sp' # "name" => Names' = requests'
         /\ sp' = "name" => /\ Len(Names') = Len(requests') + 1 /\ Names'[1] = conn'.in
                            /\ \A i \in 1 .. Len(requests') : Names'[i + 1] = requests'[i]
<1>1. (Types /\ Making =>
         /\ Names \in Seq(Tokens) /\ Len(Names) \in Nat
         /\ sp # "name" => Names = requests
         /\ sp = "name" => /\ Len(Names) = Len(requests) + 1 /\ Names[1] = conn.in
                           /\ \A i \in 1 .. Len(requests) : Names[i + 1] = requests[i])'
  BY NamesWhole, PTL
<1> QED BY <1>1

-----------------------------------------------------------------------------
(* The invariant, part by part.                                            *)

\* The main server and its forked servers leave the clients where they are.
LEMMA MainLeavesClients ==
  ASSUME Listen \/ MainStep \/ Stop \/ KillMain \/ ServersEnd
  PROVE  UNCHANGED clientVars
BY DEF Listen, MainStep, ReadFirstName, ReadSecondName, ReadName, ReadTorn, OpenRead, OpenWrite, Acknowledge,
       AcknowledgeNobody, MainEnds, Fork, Stop, KillMain, ServersEnd

\* Every place is one of conn_open's or of conn_accept's, and only names are
\* written to the main server.
LEMMA TypesStep ==
  ASSUME Types, [Next]_vars
  PROVE  Types'
<1> USE DEF clientVars, fifoVars, serverVars, Move, Leave, MakeFifo, MakeOut, MakeIn, Tokens, Halted, Ended
<1>1. ASSUME NEW p \in Pids, Begin(p) \/ MakeOut(p) \/ MakeIn(p) \/ OpenIn(p) \/ TakeLock(p)
      PROVE  Types'
  BY <1>1 DEF Begin, OpenIn, TakeLock, Types
<1>2. ASSUME NEW p \in Pids, Receive(p) \/ ReceiveEndOfFile(p) \/ OpenOut(p) \/ TimeOut(p) \/ NobodyListens(p)
      PROVE  Types'
  BY <1>2 DEF Receive, ReceiveEndOfFile, OpenOut, TimeOut, NobodyListens, Types
<1>3. ASSUME NEW p \in Pids, SendOut(p) \/ SendIn(p)
      PROVE  Types'
  BY <1>3, OneMoreName, FifoNames DEF SendOut, SendIn, Types
<1>4. ASSUME NEW p \in Pids, Kill(p)
      PROVE  Types'
  BY <1>4, OneMoreName DEF Kill, Types
<1>5. CASE Listen \/ OpenRead \/ OpenWrite \/ Acknowledge \/ Fork
  BY <1>5 DEF Listen, OpenRead, OpenWrite, Acknowledge, Fork, Types
<1>6. CASE ReadFirstName \/ ReadSecondName \/ ReadTorn
  BY <1>6, FirstName DEF ReadFirstName, ReadSecondName, ReadName, ReadTorn, Types
<1>7. CASE Stop \/ AcknowledgeNobody \/ KillMain \/ ServersEnd
  BY <1>7 DEF Stop, AcknowledgeNobody, KillMain, MainEnds, ServersEnd, Types
<1>8. CASE UNCHANGED vars
  BY <1>8 DEF vars, Types
<1> QED BY <1>1, <1>2, <1>3, <1>4, <1>5, <1>6, <1>7, <1>8 DEF Next, ClientStep, MainStep

\* The lock changes hands with the place of its holder, and a FIFO stays open as
\* long as the client that reads it.
LEMMA ClientsStep ==
  ASSUME Types, Clients, [Next]_vars
  PROVE  Clients'
<1> USE HandshakeAssumption, FifoNames DEF clientVars, Move, Leave, MakeFifo, MakeOut, MakeIn
<1>1. ASSUME NEW p \in Pids, Begin(p) \/ MakeOut(p) \/ MakeIn(p) \/ OpenIn(p)
      PROVE  Clients'
  BY <1>1 DEF Begin, OpenIn, Types, Clients
<1>2. ASSUME NEW p \in Pids, TakeLock(p) \/ SendOut(p) \/ SendIn(p)
      PROVE  Clients'
  BY <1>2 DEF TakeLock, SendOut, SendIn, Types, Clients
<1>3. ASSUME NEW p \in Pids, Receive(p) \/ ReceiveEndOfFile(p) \/ OpenOut(p)
      PROVE  Clients'
  BY <1>3 DEF Receive, ReceiveEndOfFile, OpenOut, Types, Clients
<1>4. ASSUME NEW p \in Pids, Leave(p)
      PROVE  Clients'
  BY <1>4 DEF Types, Clients
<1>5. CASE UNCHANGED clientVars
  BY <1>5 DEF Clients
<1> QED BY <1>1, <1>2, <1>3, <1>4, <1>5, MainLeavesClients
       DEF Next, ClientStep, TimeOut, NobodyListens, Kill, vars

-----------------------------------------------------------------------------
(* Names in their places.                                                  *)

\* Clients that move on without writing leave the names in their places.
LEMMA OrderedMove ==
  ASSUME NEW s, NEW c, NEW d, Ordered(s, c),
         \A p \in Pids : /\ d[p] = "sendIn" => c[p] = "sendIn"
                         /\ c[p] = "gone" => d[p] = "gone"
                         /\ c[p] = "sendIn" => d[p] \in {"sendIn", "gone"}
  PROVE  Ordered(s, d)
BY DEF Ordered

\* A first name may follow whatever there is: whoever wrote the last one and did
\* not complete its request has gone, as it no longer holds the lock.
LEMMA OrderedThenOut ==
  ASSUME NEW s \in Seq(Tokens), NEW t \in Seq(Tokens), NEW c, NEW d, NEW p \in Pids, Ordered(s, c),
         Len(t) = Len(s) + 1, \A i \in 1 .. Len(s) : t[i] = s[i], t[Len(s) + 1] = Out(p),
         c[p] = "sendOut", d[p] = "sendIn", \A q \in Pids \ {p} : d[q] = c[q] /\ c[q] # "sendIn"
  PROVE  Ordered(t, d)
<1>1. Len(s) \in Nat
  BY LenProperties
<1>2. t # <<>> /\ t[Len(t)] = Out(p)
  BY <1>1, EmptySeq
<1>3. ASSUME NEW i \in 1 .. Len(t), NEW q \in Pids, t[i] = In(q)
      PROVE  i > 1 /\ t[i - 1] = Out(q)
  <2>1. i \in 1 .. Len(s)
    BY <1>1, <1>3, FifoNames
  <2> QED BY <1>1, <1>3, <2>1 DEF Ordered
<1>4. ASSUME NEW i \in 1 .. Len(t), NEW q \in Pids, t[i] = Out(q)
      PROVE  IF i = Len(t) THEN d[q] \in {"sendIn", "gone"} ELSE t[i + 1] = In(q) \/ d[q] = "gone"
  <2>1. CASE i = Len(t)
    BY <1>1, <1>4, <2>1, FifoNames
  <2>2. CASE i = Len(s)
    <3>1. c[q] \in {"sendIn", "gone"}
      BY <1>1, <1>4, <2>2 DEF Ordered
    <3> QED BY <1>1, <2>2, <3>1
  <2>3. CASE i \in 1 .. Len(s) - 1
    <3>1. s[i + 1] = In(q) \/ c[q] = "gone"
      BY <1>1, <1>4, <2>3 DEF Ordered
    <3> QED BY <1>1, <2>3, <3>1
  <2> QED BY <1>1, <2>1, <2>2, <2>3
<1> QED BY <1>2, <1>3, <1>4 DEF Ordered

\* A second name follows the first one of the same client.
LEMMA OrderedThenIn ==
  ASSUME NEW s \in Seq(Tokens), NEW t \in Seq(Tokens), NEW c, NEW d, NEW p \in Pids, Ordered(s, c),
         Len(t) = Len(s) + 1, \A i \in 1 .. Len(s) : t[i] = s[i], t[Len(s) + 1] = In(p),
         c[p] = "sendIn", d[p] = "wait", \A q \in Pids \ {p} : d[q] = c[q] /\ c[q] # "sendIn"
  PROVE  Ordered(t, d)
<1>1. Len(s) \in Nat /\ s # <<>> /\ s[Len(s)] = Out(p)
  BY LenProperties DEF Ordered
<1>2. Len(s) \in Nat \ {0}
  BY <1>1, EmptySeq
<1>3. ASSUME NEW i \in 1 .. Len(t), NEW q \in Pids, t[i] = In(q)
      PROVE  i > 1 /\ t[i - 1] = Out(q)
  <2>1. CASE i = Len(t)
    BY <1>1, <1>2, <1>3, <2>1, FifoNames
  <2>2. CASE i \in 1 .. Len(s)
    BY <1>2, <1>3, <2>2 DEF Ordered
  <2> QED BY <1>2, <2>1, <2>2
<1>4. ASSUME NEW i \in 1 .. Len(t), NEW q \in Pids, t[i] = Out(q)
      PROVE  IF i = Len(t) THEN d[q] \in {"sendIn", "gone"} ELSE t[i + 1] = In(q) \/ d[q] = "gone"
  <2>1. i # Len(t)
    BY <1>2, <1>4, FifoNames
  <2>2. CASE i = Len(s)
    BY <1>1, <1>2, <1>4, <2>2, FifoNames
  <2>3. CASE i \in 1 .. Len(s) - 1
    <3>1. s[i + 1] = In(q) \/ c[q] = "gone"
      BY <1>2, <1>4, <2>3 DEF Ordered
    <3> QED BY <1>2, <2>3, <3>1
  <2> QED BY <1>2, <2>1, <2>2, <2>3
<1>5. \A q \in Pids : d[q] # "sendIn"
  OBVIOUS
<1> QED BY <1>3, <1>4, <1>5 DEF Ordered

\* A torn name is behind the first name of a dead client, or in the place of one.
LEMMA OrderedThenTorn ==
  ASSUME NEW s \in Seq(Tokens), NEW t \in Seq(Tokens), NEW c, NEW d, NEW p \in Pids, Ordered(s, c),
         Len(t) = Len(s) + 1, \A i \in 1 .. Len(s) : t[i] = s[i], t[Len(s) + 1] = Torn,
         d[p] = "gone", \A q \in Pids \ {p} : d[q] = c[q] /\ c[q] # "sendIn"
  PROVE  Ordered(t, d)
<1>1. Len(s) \in Nat
  BY LenProperties
<1>2. ASSUME NEW i \in 1 .. Len(t), NEW q \in Pids, t[i] \in {In(q), Out(q)}
      PROVE  i \in 1 .. Len(s) /\ s[i] = t[i]
  BY <1>1, <1>2, FifoNames
<1>3. ASSUME NEW i \in 1 .. Len(t), NEW q \in Pids, t[i] = In(q)
      PROVE  i > 1 /\ t[i - 1] = Out(q)
  BY <1>1, <1>2, <1>3 DEF Ordered
<1>4. ASSUME NEW i \in 1 .. Len(t), NEW q \in Pids, t[i] = Out(q)
      PROVE  IF i = Len(t) THEN d[q] \in {"sendIn", "gone"} ELSE t[i + 1] = In(q) \/ d[q] = "gone"
  <2>1. i \in 1 .. Len(s) /\ s[i] = Out(q)
    BY <1>2, <1>4
  <2>2. CASE i = Len(s)
    <3>1. c[q] \in {"sendIn", "gone"}
      BY <2>1, <2>2 DEF Ordered
    <3> QED BY <1>1, <2>2, <3>1
  <2>3. CASE i \in 1 .. Len(s) - 1
    <3>1. s[i + 1] = In(q) \/ c[q] = "gone"
      BY <1>1, <2>1, <2>3 DEF Ordered
    <3> QED BY <1>1, <2>3, <3>1
  <2> QED BY <1>1, <2>1, <2>2, <2>3
<1>5. \A q \in Pids : d[q] # "sendIn"
  OBVIOUS
<1> QED BY <1>3, <1>4, <1>5 DEF Ordered

\* With a whole request read, the names behind it are still in their places.
LEMMA OrderedDropPair ==
  ASSUME NEW s \in Seq(Tokens), NEW t \in Seq(Tokens), NEW c, NEW p \in Pids, Ordered(s, c),
         Len(s) >= 2, Len(t) = Len(s) - 2, \A i \in 1 .. Len(t) : t[i] = s[i + 2], s[2] = In(p)
  PROVE  Ordered(t, c)
<1>1. Len(s) \in Nat /\ Len(t) \in Nat
  BY LenProperties
<1>2. ASSUME NEW q \in Pids, c[q] = "sendIn"
      PROVE  t # <<>> /\ t[Len(t)] = Out(q)
  <2>1. s[Len(s)] = Out(q)
    BY <1>2 DEF Ordered
  <2>2. Len(s) # 2
    BY <2>1, FifoNames
  <2>3. Len(t) > 0 /\ Len(t) + 2 = Len(s)
    BY <1>1, <2>2
  <2> QED BY <1>1, <2>1, <2>3, EmptySeq
<1>3. ASSUME NEW i \in 1 .. Len(t), NEW q \in Pids, t[i] = In(q)
      PROVE  i > 1 /\ t[i - 1] = Out(q)
  <2>1. i + 2 \in 1 .. Len(s) /\ s[i + 2] = In(q)
    BY <1>1, <1>3
  <2>2. s[i + 1] = Out(q)
    BY <1>1, <2>1 DEF Ordered
  <2>3. i # 1
    BY <2>2, FifoNames
  <2> QED BY <1>1, <2>2, <2>3
<1>4. ASSUME NEW i \in 1 .. Len(t), NEW q \in Pids, t[i] = Out(q)
      PROVE  IF i = Len(t) THEN c[q] \in {"sendIn", "gone"} ELSE t[i + 1] = In(q) \/ c[q] = "gone"
  <2>1. i + 2 \in 1 .. Len(s) /\ s[i + 2] = Out(q)
    BY <1>1, <1>4
  <2>2. IF i + 2 = Len(s) THEN c[q] \in {"sendIn", "gone"} ELSE s[i + 3] = In(q) \/ c[q] = "gone"
    BY <1>1, <2>1 DEF Ordered
  <2> QED BY <1>1, <2>2
<1> QED BY <1>2, <1>3, <1>4 DEF Ordered

-----------------------------------------------------------------------------
(* Names in pairs.                                                         *)

\* A first name begins a pair: had another client written half a pair, it would
\* hold the lock.
LEMMA PairsThenOut ==
  ASSUME NEW s \in Seq(Tokens), NEW t \in Seq(Tokens), NEW c, NEW d, NEW p \in Pids, InPairs(s, c),
         Len(t) = Len(s) + 1, \A i \in 1 .. Len(s) : t[i] = s[i], t[Len(s) + 1] = Out(p),
         d[p] = "sendIn", \A q \in Pids : c[q] # "sendIn"
  PROVE  InPairs(t, d)
<1>1. Len(s) \in Nat
  BY LenProperties
<1>2. Out(p).end = "out" /\ Out(p).pid = p
  BY DEF Out
<1>3. Len(s) % 2 # 1
  <2> SUFFICES ASSUME Len(s) % 2 = 1
               PROVE  FALSE
    OBVIOUS
  <2>1. Len(s) \in 1 .. Len(s)
    BY <1>1
  <2>2. s[Len(s)].end = "out" /\ c[s[Len(s)].pid] = "sendIn"
    BY <2>1 DEF InPairs
  <2>3. s[Len(s)].pid \in Pids
    <3>1. s[Len(s)] \in Tokens
      BY <2>1, ElementOfSeq
    <3> QED BY <2>2, <3>1 DEF Tokens, Fifos, Torn
  <2> QED BY <2>2, <2>3
<1>4. ASSUME NEW i \in 1 .. Len(t)
      PROVE  IF i % 2 = 1 THEN t[i].end = "out" /\ (i = Len(t) => d[t[i].pid] = "sendIn")
                          ELSE t[i] = In(t[i - 1].pid)
  <2>1. CASE i = Len(s) + 1
    BY <1>1, <1>2, <1>3, <2>1
  <2>2. CASE i \in 1 .. Len(s)
    <3>1. t[i] = s[i] /\ i # Len(t) /\ (i % 2 # 1 => t[i - 1] = s[i - 1])
      BY <1>1, <2>2
    <3> QED BY <2>2, <3>1 DEF InPairs
  <2> QED BY <1>1, <2>1, <2>2
<1> QED BY <1>4 DEF InPairs

\* The second name completes the pair.
LEMMA PairsThenIn ==
  ASSUME NEW s \in Seq(Tokens), NEW t \in Seq(Tokens), NEW c, NEW d, NEW p \in Pids, InPairs(s, c),
         Len(t) = Len(s) + 1, \A i \in 1 .. Len(s) : t[i] = s[i], t[Len(s) + 1] = In(p),
         s # <<>>, s[Len(s)] = Out(p)
  PROVE  InPairs(t, d)
<1>1. Len(s) \in Nat \ {0}
  BY EmptySeq
<1>2. Out(p).end = "out" /\ Out(p).pid = p /\ \A q : In(q).end = "in"
  BY DEF Out, In
<1>3. Len(s) % 2 = 1
  BY <1>1, <1>2 DEF InPairs
<1>4. ASSUME NEW i \in 1 .. Len(t)
      PROVE  IF i % 2 = 1 THEN t[i].end = "out" /\ (i = Len(t) => d[t[i].pid] = "sendIn")
                          ELSE t[i] = In(t[i - 1].pid)
  <2>1. CASE i = Len(s) + 1
    BY <1>1, <1>2, <1>3, <2>1
  <2>2. CASE i \in 1 .. Len(s)
    <3>1. t[i] = s[i] /\ i # Len(t) /\ (i % 2 # 1 => t[i - 1] = s[i - 1])
      BY <1>1, <2>2
    <3> QED BY <2>2, <3>1 DEF InPairs
  <2> QED BY <1>1, <2>1, <2>2
<1> QED BY <1>4 DEF InPairs

\* Without the pair at their head, the names still come in pairs.
LEMMA PairsDropPair ==
  ASSUME NEW s \in Seq(Tokens), NEW t \in Seq(Tokens), NEW c, InPairs(s, c),
         Len(s) >= 2, Len(t) = Len(s) - 2, \A i \in 1 .. Len(t) : t[i] = s[i + 2]
  PROVE  InPairs(t, c)
<1>1. Len(s) \in Nat /\ Len(t) \in Nat
  BY LenProperties
<1>2. ASSUME NEW i \in 1 .. Len(t)
      PROVE  IF i % 2 = 1 THEN t[i].end = "out" /\ (i = Len(t) => c[t[i].pid] = "sendIn")
                          ELSE t[i] = In(t[i - 1].pid)
  <2>1. i + 2 \in 1 .. Len(s) /\ t[i] = s[i + 2] /\ (i + 2) % 2 = i % 2 /\ i \in Nat
    BY <1>1
  <2>2. CASE i % 2 = 1
    BY <1>1, <2>1, <2>2 DEF InPairs
  <2>3. CASE i % 2 # 1
    <3>1. i - 1 \in 1 .. Len(t) /\ t[i - 1] = s[i + 1]
      BY <1>1, <2>3
    <3>2. s[i + 2] = In(s[(i + 2) - 1].pid)
      BY <2>1, <2>3 DEF InPairs
    <3>3. (i + 2) - 1 = i + 1
      BY <2>1
    <3> QED BY <2>1, <2>3, <3>1, <3>2, <3>3
  <2> QED BY <2>2, <2>3
<1> QED BY <1>2 DEF InPairs

-----------------------------------------------------------------------------
(* What a step can change.                                                 *)

\* The main server's steps that read no name, and those with which it stops reading.
OtherMain == Listen \/ OpenRead \/ OpenWrite \/ Acknowledge \/ Fork
Halts     == ReadTorn \/ Stop \/ AcknowledgeNobody \/ KillMain \/ ServersEnd

\* A client's steps that write no name, and those that end it.
Moves(p) == \/ Begin(p) \/ MakeOut(p) \/ MakeIn(p) \/ OpenIn(p) \/ TakeLock(p)
            \/ Receive(p) \/ ReceiveEndOfFile(p) \/ OpenOut(p)
Ends(p)  == TimeOut(p) \/ NobodyListens(p) \/ Kill(p)

\* Every step is one of these.
LEMMA StepKinds ==
  ASSUME [Next]_vars
  PROVE  \/ \E p \in Pids : Moves(p) \/ Ends(p) \/ SendOut(p) \/ SendIn(p)
         \/ ReadFirstName \/ ReadSecondName \/ OtherMain \/ Halts \/ UNCHANGED vars
BY DEF Next, ClientStep, MainStep, Moves, Ends, OtherMain, Halts

\* A client that moves leaves the main server and the names alone, and goes from
\* no place where it has written a name to one where it has not.
LEMMA MovesOnly ==
  ASSUME Types, NEW p \in Pids, Moves(p)
  PROVE  /\ UNCHANGED requests /\ UNCHANGED serverVars
         /\ cp[p] \notin {"sendOut", "sendIn", "spin", "connected", "gone"}
         /\ cp'[p] # "sendIn"
         /\ cp[p] \in {"wait", "openOut"} => cp'[p] \in {"spin", "openOut", "connected"}
         /\ \A q \in Pids \ {p} : cp'[q] = cp[q]
         /\ \A q \in Pids : Out(q) \in readers' => Out(q) \in readers
<1> USE FifoNames DEF fifoVars, clientVars, Move, MakeFifo, Types
<1>1. CASE Begin(p) \/ MakeOut(p) \/ MakeIn(p)
  BY <1>1 DEF Begin, MakeOut, MakeIn
<1>2. CASE OpenIn(p) \/ TakeLock(p) \/ Receive(p) \/ ReceiveEndOfFile(p) \/ OpenOut(p)
  BY <1>2 DEF OpenIn, TakeLock, Receive, ReceiveEndOfFile, OpenOut
<1> QED BY <1>1, <1>2 DEF Moves

\* A client that ends may leave a torn name, if it was writing.
LEMMA EndsOnly ==
  ASSUME Types, NEW p \in Pids, Ends(p)
  PROVE  /\ UNCHANGED acks /\ UNCHANGED serverVars
         /\ cp[p] \notin {"connected", "gone"} /\ cp'[p] = "gone"
         /\ \A q \in Pids \ {p} : cp'[q] = cp[q]
         /\ \A q \in Pids : Out(q) \in readers' => Out(q) \in readers
         /\ \/ UNCHANGED requests
            \/ cp[p] \in {"sendOut", "sendIn"} /\ requests' = Append(requests, Torn)
BY DEF Ends, TimeOut, NobodyListens, Kill, Leave, Move, Types

\* The main server stops for good, except that it shuts down after a torn name,
\* which somebody has left.
LEMMA HaltsOnly ==
  ASSUME Halts
  PROVE  /\ UNCHANGED clientVars /\ UNCHANGED <<acks, conn>>
         /\ sp' \in Halted /\ (sp' = "stop" => ReadTorn)
         /\ \/ UNCHANGED requests
            \/ requests # <<>> /\ Head(requests) = Torn /\ requests' = Tail(requests)
         /\ ReadTorn => requests # <<>> /\ Head(requests) = Torn
         /\ own' \cup heirs' \subseteq own \cup heirs
         /\ \/ UNCHANGED <<servers, unserved>>
            \/ sp = "fork" /\ unserved' = unserved \cup {conn} /\ servers' = servers
            \/ /\ sp = "name" /\ unserved' = unserved
               /\ servers' = servers \cup {[conn EXCEPT !.out = Torn]}
         /\ sp = "fork" => unserved' = unserved \cup {conn} /\ servers' = servers
<1> USE DEF Halted, Ended, fifoVars
<1>1. CASE ReadTorn
  BY <1>1 DEF ReadTorn, ForkFor
<1>2. CASE Stop \/ AcknowledgeNobody \/ KillMain
  BY <1>2 DEF Stop, AcknowledgeNobody, KillMain, MainEnds, ReadTorn
<1>3. CASE ServersEnd
  BY <1>3 DEF ServersEnd, ReadTorn
<1> QED BY <1>1, <1>2, <1>3 DEF Halts

\* Whoever writes is alone in doing so.
LEMMA OneWriter ==
  ASSUME Clients, NEW p \in Pids, cp[p] \in {"sendOut", "sendIn"}
  PROVE  \A q \in Pids \ {p} : cp[q] \notin {"sendOut", "sendIn"}
BY DEF Clients

\* The dead stay dead.
LEMMA GoneStays ==
  ASSUME Types, [Next]_vars, NEW p \in Pids, cp[p] = "gone"
  PROVE  cp'[p] = "gone"
<1>1. ASSUME NEW q \in Pids, Moves(q) \/ Ends(q)
      PROVE  cp'[p] = "gone"
  BY <1>1, MovesOnly, EndsOnly
<1>2. ASSUME NEW q \in Pids, SendOut(q) \/ SendIn(q)
      PROVE  cp'[p] = "gone"
  BY <1>2 DEF SendOut, SendIn, Move, Types
<1>3. CASE UNCHANGED clientVars
  BY <1>3 DEF clientVars
<1> QED BY <1>1, <1>2, <1>3, StepKinds, MainLeavesClients DEF OtherMain, Halts, MainStep, vars

\* What the main server has read it has read; only reading adds to it.
LEMMA ReadKept ==
  ASSUME Types, Making, [Next]_vars
  PROVE  \/ Read' = Read /\ ~ReadFirstName /\ ~ReadSecondName
         \/ /\ ReadFirstName \/ ReadSecondName
            /\ Read \subseteq Read' /\ Read' \subseteq Read \cup {Head(requests)}
<1> USE DEF Past
<1>1. CASE ReadFirstName
  <2>1. conn = NoConn /\ UNCHANGED <<servers, unserved>> /\ conn' = [conn EXCEPT !.in = Head(requests)]
    BY <1>1 DEF ReadFirstName, ReadName, Making
  <2>2. conn' = [in |-> Head(requests), out |-> NoFifo]
    BY <2>1 DEF NoConn
  <2>3. NoFifo \notin Fifos /\ conn.in = NoFifo /\ conn.out = NoFifo
    BY <2>1, NoConnParts, FifoNames
  <2> QED BY <1>1, <2>1, <2>2, <2>3 DEF Read
<1>2. CASE ReadSecondName
  <2>1. PICK p \in Pids : conn = [in |-> Out(p), out |-> NoFifo]
    BY <1>2 DEF ReadSecondName, ReadName, Making
  <2>2. conn' = [conn EXCEPT !.out = Head(requests)] /\ UNCHANGED <<servers, unserved>>
    BY <1>2 DEF ReadSecondName, ReadName
  <2>3. conn'.in = conn.in /\ conn'.out = Head(requests) /\ conn.out = NoFifo /\ NoFifo \notin Fifos
    BY <2>1, <2>2, FifoNames
  <2> QED BY <1>2, <2>2, <2>3 DEF Read
<1>3. CASE Fork
  <2>1. Past' = Past \cup {conn} /\ conn' = NoConn
    BY <1>3 DEF Fork, ForkFor
  <2>2. NoConn.in \notin Fifos /\ NoConn.out \notin Fifos
    BY NoConnParts, FifoNames
  <2>3. ~ReadFirstName /\ ~ReadSecondName
    BY <1>3 DEF Fork, ReadFirstName, ReadSecondName, ReadName
  <2> QED BY <2>1, <2>2, <2>3 DEF Read
<1>4. CASE Halts
  <2>1. ~ReadFirstName /\ ~ReadSecondName
    BY <1>4, HaltsOnly DEF ReadFirstName, ReadSecondName, ReadName, Halted, Ended
  <2>2. conn' = conn
    BY <1>4, HaltsOnly
  <2>3. CASE UNCHANGED <<servers, unserved>> \/ Past' = Past \cup {conn}
    BY <2>1, <2>2, <2>3 DEF Read
  <2>4. CASE sp = "name" /\ Past' = Past \cup {[conn EXCEPT !.out = Torn]}
    <3>1. PICK p \in Pids : conn = [in |-> Out(p), out |-> NoFifo]
      BY <2>4 DEF Making
    <3> DEFINE torn == [conn EXCEPT !.out = Torn]
    <3>2. torn.in = conn.in /\ torn.out \notin Fifos
      BY <3>1, FifoNames
    <3> HIDE DEF torn
    <3> QED BY <2>1, <2>2, <2>4, <3>2 DEF Read, torn
  <2> QED BY <1>4, <2>3, <2>4, HaltsOnly DEF Past
<1>5. CASE ~ReadFirstName /\ ~ReadSecondName /\ ~Fork /\ ~Halts
  <2>1. UNCHANGED <<conn, servers, unserved>>
    <3>1. ASSUME NEW p \in Pids, Moves(p) \/ Ends(p) \/ SendOut(p) \/ SendIn(p)
          PROVE  UNCHANGED <<conn, servers, unserved>>
      BY <3>1, MovesOnly, EndsOnly DEF SendOut, SendIn, serverVars
    <3>2. CASE OtherMain \/ UNCHANGED vars
      BY <1>5, <3>2 DEF OtherMain, Listen, OpenRead, OpenWrite, Acknowledge, vars, serverVars
    <3> QED BY <1>5, <3>1, <3>2, StepKinds
  <2> QED BY <1>5, <2>1 DEF Read
<1> QED BY <1>1, <1>2, <1>3, <1>4, <1>5

\* No name is written or read twice.
LEMMA OnceStep ==
  ASSUME Types, Clients, Once, Making, [Next]_vars
  PROVE  Once'
<1> DEFINE Wrote(place) == place \in {"sendIn", "wait", "spin", "openOut", "connected", "gone"}
           Done(place)  == place \in {"wait", "spin", "openOut", "connected", "gone"}
<1>1. ASSUME NEW p \in Pids, Moves(p) \/ Ends(p)
      PROVE  Once'
  <2>1. \A q \in Pids : (Wrote(cp[q]) => Wrote(cp'[q])) /\ (Done(cp[q]) => Done(cp'[q]))
    BY <1>1, MovesOnly, EndsOnly DEF Types
  <2>2. Read' = Read
    <3>1. UNCHANGED <<conn, servers, unserved>>
      BY <1>1, MovesOnly, EndsOnly DEF serverVars
    <3> QED BY <3>1 DEF Read, Past
  <2>3. CASE UNCHANGED requests
    BY <2>1, <2>2, <2>3 DEF Once, Waiting
  <2>4. CASE requests' = Append(requests, Torn)
    <3>1. /\ Len(requests) \in Nat /\ Len(requests') = Len(requests) + 1
          /\ \A i \in 1 .. Len(requests) : requests'[i] = requests[i]
          /\ requests'[Len(requests) + 1] = Torn
      BY <2>4, OneMoreName DEF Tokens
    <3>2. \A f \in Fifos : Waiting(f)' => Waiting(f)
      BY <3>1, FifoNames DEF Waiting
    <3>3. \A i, j \in 1 .. Len(requests') :
            requests'[i] = requests'[j] /\ i # j => requests'[i] = Torn
      BY <3>1 DEF Once
    <3>4. \A f \in Read' : ~Waiting(f)'
      BY <2>2, <3>2 DEF Once, Read
    <3> QED BY <2>1, <2>2, <3>2, <3>3, <3>4, FifoNames DEF Once
  <2> QED BY <1>1, <2>3, <2>4, MovesOnly, EndsOnly
<1>2. ASSUME NEW p \in Pids, NEW x \in {Out(p), In(p)}, requests' = Append(requests, x),
             ~Waiting(x), x \notin Read, UNCHANGED <<conn, servers, unserved>>,
             x = Out(p) => Wrote(cp'[p]), x = In(p) => Done(cp'[p]),
             \A q \in Pids : (Wrote(cp[q]) => Wrote(cp'[q])) /\ (Done(cp[q]) => Done(cp'[q]))
      PROVE  Once'
  <2>1. /\ Len(requests) \in Nat /\ Len(requests') = Len(requests) + 1
        /\ \A i \in 1 .. Len(requests) : requests'[i] = requests[i]
        /\ requests'[Len(requests) + 1] = x
    BY <1>2, OneMoreName, FifoNames DEF Tokens
  <2>2. Read' = Read
    BY <1>2 DEF Read, Past
  <2>3. \A f : Waiting(f)' => Waiting(f) \/ f = x
    BY <2>1 DEF Waiting
  <2>4. \A i, j \in 1 .. Len(requests') : requests'[i] = requests'[j] /\ i # j => requests'[i] = Torn
    <3>1. \A i \in 1 .. Len(requests) : requests'[i] # x
      BY <1>2, <2>1 DEF Waiting
    <3> QED BY <2>1, <3>1 DEF Once
  <2>5. \A f \in Read' : ~Waiting(f)'
    BY <1>2, <2>2, <2>3 DEF Once
  <2>6. ASSUME NEW q \in Pids
        PROVE  /\ Waiting(Out(q))' \/ Out(q) \in Read' => Wrote(cp'[q])
               /\ Waiting(In(q))' \/ In(q) \in Read' => Done(cp'[q])
    BY <1>2, <2>2, <2>3, FifoNames DEF Once
  <2> QED BY <2>4, <2>5, <2>6 DEF Once
<1>3. ASSUME NEW p \in Pids, SendOut(p)
      PROVE  Once'
  <2>1. cp[p] = "sendOut" /\ cp' = [cp EXCEPT ![p] = "sendIn"] /\ requests' = Append(requests, Out(p))
    BY <1>3 DEF SendOut, Move
  <2>2. ~Waiting(Out(p)) /\ Out(p) \notin Read
    BY <2>1 DEF Once
  <2>3. UNCHANGED <<conn, servers, unserved>> /\ cp'[p] = "sendIn" /\ \A q \in Pids \ {p} : cp'[q] = cp[q]
    BY <1>3, <2>1 DEF SendOut, serverVars, Types
  <2>4. \A q \in Pids : (Wrote(cp[q]) => Wrote(cp'[q])) /\ (Done(cp[q]) => Done(cp'[q]))
    BY <2>1, <2>3
  <2>5. Out(p) # In(p)
    BY FifoNames
  <2> QED BY <1>2, <2>1, <2>2, <2>3, <2>4, <2>5
<1>4. ASSUME NEW p \in Pids, SendIn(p)
      PROVE  Once'
  <2>1. cp[p] = "sendIn" /\ cp' = [cp EXCEPT ![p] = "wait"] /\ requests' = Append(requests, In(p))
    BY <1>4 DEF SendIn, Move
  <2>2. ~Waiting(In(p)) /\ In(p) \notin Read
    BY <2>1 DEF Once
  <2>3. UNCHANGED <<conn, servers, unserved>> /\ cp'[p] = "wait" /\ \A q \in Pids \ {p} : cp'[q] = cp[q]
    BY <1>4, <2>1 DEF SendIn, serverVars, Types
  <2>4. \A q \in Pids : (Wrote(cp[q]) => Wrote(cp'[q])) /\ (Done(cp[q]) => Done(cp'[q]))
    BY <2>1, <2>3
  <2>5. Out(p) # In(p)
    BY FifoNames
  <2> QED BY <1>2, <2>1, <2>2, <2>3, <2>4, <2>5
<1>5. CASE ReadFirstName \/ ReadSecondName
  <2>1. requests # <<>> /\ requests' = Tail(requests) /\ cp' = cp
    BY <1>5 DEF ReadFirstName, ReadSecondName, ReadName, clientVars
  <2>2. /\ Head(requests) = requests[1] /\ Len(requests) \in Nat \ {0} /\ Len(requests') = Len(requests) - 1
        /\ \A i \in 1 .. Len(requests) - 1 : requests'[i] = requests[i + 1]
    BY <2>1, FirstName
  <2>3. Read' \subseteq Read \cup {Head(requests)}
    BY <1>5, ReadKept
  <2>4. \A f : Waiting(f)' => Waiting(f)
    BY <2>2 DEF Waiting
  <2>5. Waiting(Head(requests))
    BY <2>2 DEF Waiting
  <2>6. \A i, j \in 1 .. Len(requests') : requests'[i] = requests'[j] /\ i # j => requests'[i] = Torn
    <3>1. \A i \in 1 .. Len(requests') : i + 1 \in 1 .. Len(requests) /\ requests'[i] = requests[i + 1]
      BY <2>2
    <3>2. \A i, j \in 1 .. Len(requests') : i # j => i + 1 # j + 1
      BY <2>2
    <3> QED BY <3>1, <3>2 DEF Once
  <2>7. ASSUME NEW f \in Fifos, f = Head(requests), Waiting(f)'
        PROVE  FALSE
    <3> PICK i \in 1 .. Len(requests') : requests'[i] = Head(requests)
      BY <2>7 DEF Waiting
    <3>1. i + 1 \in 1 .. Len(requests) /\ i + 1 # 1 /\ requests[i + 1] = requests[1] /\ 1 \in 1 .. Len(requests)
      BY <2>2
    <3> QED BY <2>2, <2>7, <3>1, FifoNames DEF Once
  <2>8. \A f \in Read' : ~Waiting(f)'
    <3>1. Read' \subseteq Fifos
      BY DEF Read
    <3> QED BY <2>3, <2>4, <2>7, <3>1 DEF Once
  <2>9. ASSUME NEW q \in Pids
        PROVE  /\ Waiting(Out(q))' \/ Out(q) \in Read' => Wrote(cp'[q])
               /\ Waiting(In(q))' \/ In(q) \in Read' => Done(cp'[q])
    BY <2>1, <2>3, <2>4, <2>5 DEF Once
  <2> QED BY <2>6, <2>8, <2>9 DEF Once
<1>6. CASE OtherMain \/ UNCHANGED vars
  <2>1. UNCHANGED <<cp, requests>>
    BY <1>6 DEF OtherMain, Listen, OpenRead, OpenWrite, Acknowledge, Fork, clientVars, fifoVars, vars
  <2>2. Read' = Read
    <3>1. ~ReadFirstName /\ ~ReadSecondName
      <4>1. requests # <<>> /\ (ReadFirstName \/ ReadSecondName) => Len(Tail(requests)) # Len(requests)
        BY FirstName
      <4> QED BY <2>1, <4>1 DEF ReadFirstName, ReadSecondName, ReadName
    <3> QED BY <3>1, ReadKept
  <2> QED BY <2>1, <2>2 DEF Once, Waiting
<1>7. CASE Halts
  <2>1. cp' = cp /\ Read' = Read
    <3>1. ~ReadFirstName /\ ~ReadSecondName
      BY <1>7, HaltsOnly DEF ReadFirstName, ReadSecondName, ReadName, Halted, Ended
    <3> QED BY <1>7, <3>1, HaltsOnly, ReadKept DEF clientVars
  <2>2. CASE UNCHANGED requests
    BY <2>1, <2>2 DEF Once, Waiting
  <2>3. CASE requests # <<>> /\ requests' = Tail(requests)
    <3>1. /\ Len(requests) \in Nat \ {0} /\ Len(requests') = Len(requests) - 1
          /\ \A i \in 1 .. Len(requests) - 1 : requests'[i] = requests[i + 1]
      BY <2>3, FirstName
    <3>2. \A f : Waiting(f)' => Waiting(f)
      BY <3>1 DEF Waiting
    <3>3. \A i, j \in 1 .. Len(requests') : requests'[i] = requests'[j] /\ i # j => requests'[i] = Torn
      <4>1. \A i \in 1 .. Len(requests') : i + 1 \in 1 .. Len(requests) /\ requests'[i] = requests[i + 1]
        BY <3>1
      <4>2. \A i, j \in 1 .. Len(requests') : i # j => i + 1 # j + 1
        BY <3>1
      <4> QED BY <4>1, <4>2 DEF Once
    <3> QED BY <2>1, <3>2, <3>3 DEF Once
  <2> QED BY <1>7, <2>2, <2>3, HaltsOnly
<1> QED BY <1>1, <1>3, <1>4, <1>5, <1>6, <1>7, StepKinds

\* The connection being made is a client's own, or nobody will ever read it.
LEMMA MakingStep ==
  ASSUME Types, Clients, Once, Making, InPlace, [Next]_vars
  PROVE  Making'
<1> USE FifoNames, NoConnParts, PairParts DEF Halted, Ended
<1>1. ASSUME NEW p \in Pids, Moves(p) \/ Ends(p) \/ SendOut(p) \/ SendIn(p)
      PROVE  Making'
  <2>1. UNCHANGED serverVars /\ \A q \in Pids : Out(q) \in readers' => Out(q) \in readers
    BY <1>1, MovesOnly, EndsOnly DEF SendOut, SendIn
  <2>2. \A q \in Pids : cp[q] = "gone" => cp'[q] = "gone"
    BY GoneStays
  <2>3. Read' = Read
    BY <2>1 DEF Read, Past, serverVars
  <2>4. \A q \in Pids : HasReader(Out(q))' => HasReader(Out(q))
    BY <2>1 DEF HasReader, serverVars
  <2>5. Crossed => Crossed'
    BY <2>1, <2>2, <2>4 DEF Crossed, serverVars
  <2> QED BY <2>1, <2>3, <2>4, <2>5 DEF Making, Past, serverVars
<1>2. CASE ReadFirstName
  <2>1. /\ sp = "select" /\ sp' = "name" /\ conn = NoConn /\ requests # <<>> /\ UNCHANGED clientVars
        /\ UNCHANGED <<own, heirs, servers, unserved>> /\ Past \subseteq Pairs
    BY <1>2 DEF ReadFirstName, ReadName, Making
  <2>2. Read \subseteq Read'
    BY <1>2, ReadKept
  <2>3. \A q \in Pids : HasReader(Out(q))' => Out(q) \in Read'
    BY <2>1, <2>2 DEF Making, HasReader, clientVars
  <2>4. Head(requests) # Torn /\ conn' = [conn EXCEPT !.in = Head(requests)]
    BY <1>2 DEF ReadFirstName, ReadName
  <2>5. Head(requests) = requests[1] /\ Head(requests) \in Fifos /\ 1 \in 1 .. Len(requests)
    BY <2>1, <2>4, FirstName DEF Tokens
  <2>6. Ordered(requests, cp)
    BY <2>1, NamesWhole DEF InPlace, Aligned
  <2>7. PICK p \in Pids : Head(requests) = Out(p)
    BY <2>5, <2>6 DEF Ordered
  <2>8. conn' = [in |-> Out(p), out |-> NoFifo]
    BY <2>1, <2>4, <2>7 DEF NoConn
  <2>9. ASSUME NEW c \in Past
        PROVE  c.in # conn'.in
    <3>1. c.in \in Fifos => c.in \in Read
      BY DEF Read
    <3>2. c.in \in Fifos
      BY <2>1 DEF Pairs
    <3>3. Waiting(Out(p))
      BY <2>5, <2>7 DEF Waiting
    <3> QED BY <2>8, <3>1, <3>2, <3>3 DEF Once
  <2> QED BY <2>1, <2>3, <2>8, <2>9 DEF Making, Past
<1>3. CASE ReadSecondName
  <2>1. /\ sp = "name" /\ sp' = "openRead" /\ requests # <<>> /\ UNCHANGED clientVars
        /\ UNCHANGED <<own, heirs, servers, unserved>>
        /\ Past \subseteq Pairs /\ \A c \in Past : c.in # conn.in
    BY <1>3 DEF ReadSecondName, ReadName, Making
  <2>2. PICK p \in Pids : conn = [in |-> Out(p), out |-> NoFifo]
    BY <2>1 DEF Making
  <2>3. Read \subseteq Read'
    BY <1>3, ReadKept
  <2>4. \A q \in Pids : HasReader(Out(q))' => Out(q) \in Read'
    BY <2>1, <2>3 DEF Making, HasReader, clientVars
  <2>5. Head(requests) # Torn /\ conn' = [conn EXCEPT !.out = Head(requests)]
    BY <1>3 DEF ReadSecondName, ReadName
  <2>6. conn' = [in |-> Out(p), out |-> Head(requests)] /\ conn'.in = Out(p) /\ conn.in = Out(p)
    BY <2>2, <2>5
  <2>7. /\ Head(requests) = requests[1] /\ Head(requests) \in Fifos
        /\ Len(requests) \in Nat \ {0} /\ 1 \in 1 .. Len(requests)
    BY <2>1, <2>5, FirstName DEF Tokens
  <2>8. /\ Ordered(Names, cp) /\ Len(Names) = Len(requests) + 1 /\ Names[1] = Out(p)
        /\ Names[2] = Head(requests)
    <3>1. Ordered(Names, cp)
      BY <2>1 DEF InPlace, Aligned
    <3>2. \A i \in 1 .. Len(requests) : Names[i + 1] = requests[i]
      BY <2>1, NamesWhole
    <3>3. Names[1 + 1] = requests[1] /\ 1 + 1 = 2
      BY <2>7, <3>2
    <3> QED BY <2>1, <2>6, <2>7, <3>1, <3>3, NamesWhole
  <2>9. 1 \in 1 .. Len(Names) /\ 2 \in 1 .. Len(Names) /\ 1 # Len(Names) /\ 1 + 1 = 2 /\ 2 - 1 = 1
    BY <2>7, <2>8
  <2>10. CASE \E q \in Pids : Head(requests) = In(q)
    <3>1. PICK q \in Pids : Head(requests) = In(q)
      BY <2>10
    <3>2. Out(q) = Out(p)
      BY <2>8, <2>9, <3>1 DEF Ordered
    <3>3. conn' = Pair(p)
      BY <2>6, <3>1, <3>2 DEF Pair
    <3> QED BY <2>1, <2>4, <2>6, <3>3 DEF Making, Past
  <2>11. CASE \E q \in Pids : Head(requests) = Out(q)
    <3>1. PICK q \in Pids : Head(requests) = Out(q)
      BY <2>11
    <3>2. cp[p] = "gone"
      <4>1. Names[2] = In(p) \/ cp[p] = "gone"
        BY <2>8, <2>9 DEF Ordered
      <4> QED BY <2>8, <3>1, <4>1
    <3>3. Waiting(Out(q))
      BY <2>7, <3>1 DEF Waiting
    <3>4. Out(q) \notin Read
      BY <3>3 DEF Once
    <3>5. ~HasReader(Out(q)) /\ ~HasReader(Out(q))'
      BY <2>1, <3>4 DEF Making, HasReader, clientVars
    <3>6. Out(p) \in Read
      BY <2>6 DEF Read
    <3>7. Crossed'
      BY <2>1, <2>6, <3>1, <3>2, <3>4, <3>5, <3>6 DEF Crossed, clientVars
    <3> QED BY <2>1, <2>4, <2>6, <3>7 DEF Making, Past
  <2> QED BY <2>7, <2>10, <2>11
<1>4. CASE Listen
  BY <1>4 DEF Listen, Making, Read, Past, HasReader, clientVars
<1>5. CASE OpenRead
  <2>1. /\ sp = "openRead" /\ sp' = "openWrite" /\ own' = own \cup {conn.in}
        /\ UNCHANGED <<cp, readers, conn, heirs, servers, unserved>>
    BY <1>5 DEF OpenRead, clientVars
  <2>2. PICK p \in Pids : conn.in = Out(p)
    BY <2>1 DEF Making, Pairs, Crossed
  <2>3. conn.in \in Read /\ Read' = Read
    BY <2>1, <2>2 DEF Read, Past
  <2>4. \A q \in Pids : HasReader(Out(q))' => Out(q) \in Read'
    BY <2>1, <2>3 DEF Making, HasReader
  <2>5. Crossed => Crossed'
    <3> SUFFICES ASSUME NEW q \in Pids, NEW r \in Pids, conn = [in |-> Out(q), out |-> Out(r)], q # r,
                        cp[q] = "gone", ~HasReader(Out(r))
                 PROVE  Crossed'
      BY DEF Crossed
    <3>1. conn.in = Out(q) /\ conn.in # Out(r)
      OBVIOUS
    <3>2. ~HasReader(Out(r))'
      BY <2>1, <3>1 DEF HasReader
    <3> QED BY <2>1, <3>2 DEF Crossed
  <2> QED BY <2>1, <2>4, <2>5 DEF Making, Past
<1>6. CASE OpenWrite
  <2>1. /\ sp = "openWrite" /\ sp' = "ack" /\ HasReader(conn.out)
        /\ UNCHANGED <<conn, servers, unserved, own, heirs, readers>>
    BY <1>6 DEF OpenWrite, clientVars
  <2>2. conn \in Pairs
    <3>1. ~Crossed
      BY <2>1 DEF Crossed
    <3> QED BY <2>1, <3>1 DEF Making
  <2>3. Read' = Read
    BY <2>1 DEF Read, Past
  <2> QED BY <2>1, <2>2, <2>3 DEF Making, Past, HasReader
<1>7. CASE Acknowledge
  <2>1. /\ sp = "ack" /\ sp' = "fork" /\ UNCHANGED <<conn, servers, unserved, own, heirs, readers>>
    BY <1>7 DEF Acknowledge, clientVars
  <2>2. Read' = Read
    BY <2>1 DEF Read, Past
  <2> QED BY <2>1, <2>2 DEF Making, Past, HasReader
<1>8. CASE Fork
  <2>1. /\ sp = "fork" /\ sp' = "select" /\ conn' = NoConn /\ own' = own /\ heirs' \subseteq heirs \cup own
        /\ readers' = readers
        /\ \/ servers' = servers \cup {conn} /\ unserved' = unserved
           \/ servers' = servers /\ unserved' = unserved \cup {conn}
    BY <1>8 DEF Fork, ForkFor, clientVars
  <2>2. Read \subseteq Read'
    BY ReadKept
  <2>3. conn \in Pairs /\ Past \subseteq Pairs /\ \A c \in Past : c.in # conn.in
    BY <2>1 DEF Making
  <2>4. Past' = Past \cup {conn} /\ servers' \cap unserved' = {}
    BY <2>1, <2>3 DEF Making, Past
  <2>5. \A c \in Past' : c \in Pairs /\ c.in # NoFifo
    BY <2>3, <2>4 DEF Pairs
  <2>6. \A q \in Pids : HasReader(Out(q))' => Out(q) \in Read'
    BY <2>1, <2>2 DEF Making, HasReader
  <2> QED BY <2>1, <2>4, <2>5, <2>6 DEF Making
<1>9. CASE Halts
  <2>1. sp' \in Halted /\ readers' = readers /\ own' \cup heirs' \subseteq own \cup heirs
    BY <1>9, HaltsOnly DEF clientVars
  <2>2. Read \subseteq Read'
    BY ReadKept
  <2>3. \A q \in Pids : HasReader(Out(q))' => Out(q) \in Read'
    BY <2>1, <2>2 DEF Making, HasReader
  <2>4. CASE UNCHANGED <<servers, unserved>>
    BY <2>1, <2>3, <2>4 DEF Making, Past
  <2>5. CASE sp = "fork" /\ unserved' = unserved \cup {conn} /\ servers' = servers
    <3>1. conn \in Pairs /\ Past \subseteq Pairs /\ \A c \in Past : c.in # conn.in
      BY <2>5 DEF Making
    <3>2. Past' = Past \cup {conn} /\ servers' \cap unserved' = {}
      BY <2>5, <3>1 DEF Making, Past
    <3>3. \A c, d \in Past' : c.in = d.in \/ c.out = d.out => c = d
      BY <3>1, <3>2
    <3> QED BY <2>1, <2>3, <3>2, <3>3 DEF Making
  <2>6. CASE /\ sp = "name" /\ unserved' = unserved
             /\ servers' = servers \cup {[conn EXCEPT !.out = Torn]}
    <3>1. PICK p \in Pids : conn = [in |-> Out(p), out |-> NoFifo]
      BY <2>6 DEF Making
    <3>2. [conn EXCEPT !.out = Torn] = [in |-> Out(p), out |-> Torn] /\ conn.in = Out(p)
      BY <3>1
    <3>3. \A c \in Past : c.in # Out(p) /\ c.out # Torn
      BY <2>6, <3>2 DEF Making, Pairs
    <3>4. Past' = Past \cup {[in |-> Out(p), out |-> Torn]} /\ servers' \cap unserved' = {}
      BY <2>6, <3>2, <3>3 DEF Making, Past
    <3>5. \A c, d \in Past' : c.in = d.in \/ c.out = d.out => c = d
      BY <3>3, <3>4 DEF Making
    <3> QED BY <2>1, <2>3, <3>4, <3>5 DEF Making
  <2> QED BY <1>9, <2>4, <2>5, <2>6, HaltsOnly
<1>10. CASE UNCHANGED vars
  BY <1>10 DEF vars, clientVars, serverVars, Making, Crossed, Read, Past, HasReader
<1> QED BY <1>1, <1>2, <1>3, <1>4, <1>5, <1>6, <1>7, <1>8, <1>9, <1>10, StepKinds DEF OtherMain

\* A connection has been made before its client hears of it, and stays so.
LEMMA AnsweredStep ==
  ASSUME Types, Making, Answered, [Next]_vars
  PROVE  Answered'
<1> USE FifoNames, PairParts DEF Made, Handed
<1>1. ASSUME NEW p \in Pids, Moves(p)
      PROVE  Answered'
  <2>1. Made' = Made
    BY <1>1, MovesOnly DEF serverVars
  <2>2. acks' \subseteq acks /\ (cp'[p] \in {"openOut", "connected"} => In(p) \in acks \/ cp[p] = "openOut")
    BY <1>1 DEF Moves, Begin, MakeOut, MakeIn, MakeFifo, OpenIn, TakeLock, Receive, ReceiveEndOfFile, OpenOut,
                Move, Types, fifoVars
  <2> QED BY <1>1, <2>1, <2>2, MovesOnly DEF Answered
<1>2. ASSUME NEW p \in Pids, Ends(p)
      PROVE  Answered'
  <2>1. Made' = Made
    BY <1>2, EndsOnly DEF serverVars
  <2> QED BY <1>2, <2>1, EndsOnly DEF Answered
<1>3. ASSUME NEW p \in Pids, SendOut(p) \/ SendIn(p)
      PROVE  Answered'
  <2>1. Made' = Made
    BY <1>3 DEF SendOut, SendIn, serverVars
  <2>2. acks' = acks /\ cp'[p] \in {"sendIn", "wait"} /\ \A q \in Pids \ {p} : cp'[q] = cp[q]
    BY <1>3 DEF SendOut, SendIn, Move, Types
  <2> QED BY <2>1, <2>2 DEF Answered
<1>4. CASE Acknowledge
  <2>1. /\ sp = "ack" /\ sp' = "fork" /\ cp' = cp /\ acks' = acks \cup {conn.out}
        /\ UNCHANGED <<conn, servers, unserved>>
    BY <1>4 DEF Acknowledge, clientVars
  <2>2. PICK p \in Pids : conn = Pair(p)
    BY <2>1 DEF Making, Pairs
  <2>3. Made \subseteq Made' /\ Pair(p) \in Made'
    BY <2>1, <2>2
  <2> QED BY <2>1, <2>2, <2>3 DEF Answered
<1>5. CASE ReadFirstName \/ ReadSecondName \/ Listen \/ OpenRead \/ OpenWrite \/ Fork
  <2>1. Made \subseteq Made' /\ UNCHANGED <<cp, acks>>
    BY <1>5 DEF ReadFirstName, ReadSecondName, ReadName, Listen, OpenRead, OpenWrite, Fork, ForkFor,
                clientVars, fifoVars
  <2> QED BY <2>1 DEF Answered
<1>6. CASE Halts
  <2>1. Made \subseteq Made' /\ UNCHANGED <<cp, acks>>
    BY <1>6, HaltsOnly DEF clientVars
  <2> QED BY <2>1 DEF Answered
<1>7. CASE UNCHANGED vars
  BY <1>7 DEF vars, clientVars, fifoVars, serverVars, Answered
<1> QED BY <1>1, <1>2, <1>3, <1>4, <1>5, <1>6, <1>7, StepKinds DEF OtherMain

\* The main server does not shut down while everybody lives, and a torn name is
\* the work of a dead client.
LEMMA DeathsStep ==
  ASSUME Types, Deaths, [Next]_vars
  PROVE  Deaths'
<1> USE FifoNames
<1>1. SomeGone => SomeGone'
  BY GoneStays DEF SomeGone
<1>2. ASSUME NEW p \in Pids, Ends(p)
      PROVE  Deaths'
  BY <1>2, EndsOnly DEF Deaths, SomeGone
<1>3. ASSUME NEW p \in Pids, Moves(p)
      PROVE  Deaths'
  BY <1>1, <1>3, MovesOnly DEF Deaths, Waiting, serverVars
<1>4. ASSUME NEW p \in Pids, SendOut(p) \/ SendIn(p)
      PROVE  Deaths'
  <2>1. PICK x \in Fifos : requests' = Append(requests, x) /\ sp' = sp
    BY <1>4 DEF SendOut, SendIn, serverVars
  <2>2. Waiting(Torn)' => Waiting(Torn)
    BY <2>1, OneMoreName DEF Waiting, Tokens
  <2> QED BY <1>1, <2>1, <2>2 DEF Deaths
<1>5. ASSUME requests # <<>>, requests' = Tail(requests)
      PROVE  (Waiting(Torn)' => Waiting(Torn)) /\ (Head(requests) = Torn => Waiting(Torn))
  <2>1. /\ Head(requests) = requests[1] /\ Len(requests) \in Nat \ {0} /\ Len(requests') = Len(requests) - 1
        /\ \A i \in 1 .. Len(requests) - 1 : requests'[i] = requests[i + 1]
    BY <1>5, FirstName
  <2> QED BY <2>1 DEF Waiting
<1>6. CASE ReadFirstName \/ ReadSecondName
  <2>1. requests # <<>> /\ requests' = Tail(requests) /\ sp' # "stop"
    BY <1>6 DEF ReadFirstName, ReadSecondName, ReadName
  <2> QED BY <1>1, <1>5, <2>1 DEF Deaths
<1>7. CASE OtherMain
  <2>1. requests' = requests /\ sp' # "stop"
    BY <1>7 DEF OtherMain, Listen, OpenRead, OpenWrite, Acknowledge, Fork, fifoVars
  <2> QED BY <1>1, <2>1 DEF Deaths, Waiting
<1>8. CASE Halts
  <2>1. CASE UNCHANGED requests
    <3>1. sp' # "stop" \/ Waiting(Torn)
      <4>1. ReadTorn => requests' = Tail(requests) /\ requests # <<>>
        BY DEF ReadTorn
      <4>2. requests # <<>> => Len(Tail(requests)) # Len(requests)
        BY FirstName
      <4> QED BY <1>8, <2>1, <4>1, <4>2, HaltsOnly
    <3> QED BY <1>1, <2>1, <3>1 DEF Deaths, Waiting
  <2>2. CASE requests # <<>> /\ Head(requests) = Torn /\ requests' = Tail(requests)
    BY <1>1, <1>5, <2>2 DEF Deaths
  <2> QED BY <1>8, <2>1, <2>2, HaltsOnly
<1>9. CASE UNCHANGED vars
  BY <1>9 DEF vars, clientVars, fifoVars, serverVars, Deaths, SomeGone, Waiting
<1> QED BY <1>2, <1>3, <1>4, <1>6, <1>7, <1>8, <1>9, StepKinds

\* x has been written behind the names.
Grown(x) ==
  /\ Len(Names') = Len(Names) + 1 /\ Names'[Len(Names) + 1] = x
  /\ \A i \in 1 .. Len(Names) : Names'[i] = Names[i]

\* What a step does to the names that have not been read as a whole request.
LEMMA NamesChange ==
  ASSUME Types, Making, Types', Making', [Next]_vars
  PROVE  /\ (\E p \in Pids : Moves(p)) \/ OtherMain \/ UNCHANGED vars => Names' = Names
         /\ \A p \in Pids : Ends(p) => Names' = Names \/ (cp[p] \in {"sendOut", "sendIn"} /\ Grown(Torn))
         /\ \A p \in Pids : (SendOut(p) => Grown(Out(p))) /\ (SendIn(p) => Grown(In(p)))
         /\ ReadFirstName => Names' = Names
         /\ ReadSecondName =>
              /\ Len(Names) >= 2 /\ Len(Names') = Len(Names) - 2 /\ Names[2] = conn'.out
              /\ \A i \in 1 .. Len(Names') : Names'[i] = Names[i + 2]
<1>1. ASSUME (\E p \in Pids : Moves(p)) \/ OtherMain \/ UNCHANGED vars
      PROVE  Names' = Names
  <2>1. ASSUME NEW p \in Pids, Moves(p)
        PROVE  Names' = Names
    BY <2>1, MovesOnly DEF Names, serverVars
  <2>2. CASE OtherMain
    BY <2>2 DEF OtherMain, Listen, OpenRead, OpenWrite, Acknowledge, Fork, Names, fifoVars
  <2>3. CASE UNCHANGED vars
    BY <2>3 DEF vars, fifoVars, serverVars, Names
  <2> QED BY <1>1, <2>1, <2>2, <2>3
<1>2. ASSUME NEW p \in Pids, NEW x \in Tokens, requests' = Append(requests, x), UNCHANGED <<sp, conn>>
      PROVE  Grown(x)
  <2>1. /\ Len(requests) \in Nat /\ Len(requests') = Len(requests) + 1
        /\ \A i \in 1 .. Len(requests) : requests'[i] = requests[i]
        /\ requests'[Len(requests) + 1] = x
    BY <1>2, OneMoreName
  <2>2. CASE sp # "name"
    <3>1. Names = requests /\ Names' = requests'
      BY <1>2, <2>2, NamesWhole, NamesWholeNext
    <3> QED BY <2>1, <3>1 DEF Grown
  <2>3. CASE sp = "name"
    <3>1. /\ Len(Names) = Len(requests) + 1 /\ Names[1] = conn.in
          /\ \A i \in 1 .. Len(requests) : Names[i + 1] = requests[i]
      BY <2>3, NamesWhole
    <3>2. /\ Len(Names') = Len(requests') + 1 /\ Names'[1] = conn.in
          /\ \A i \in 1 .. Len(requests') : Names'[i + 1] = requests'[i]
      BY <1>2, <2>3, NamesWholeNext
    <3>3. Names'[Len(Names) + 1] = x
      BY <2>1, <3>1, <3>2
    <3>4. ASSUME NEW i \in 1 .. Len(Names)
          PROVE  Names'[i] = Names[i]
      <4>1. CASE i = 1
        BY <3>1, <3>2, <4>1
      <4>2. CASE i # 1
        <5>1. i - 1 \in 1 .. Len(requests) /\ i - 1 \in 1 .. Len(requests') /\ (i - 1) + 1 = i
          BY <2>1, <3>1, <4>2
        <5>2. Names[(i - 1) + 1] = requests[i - 1] /\ Names'[(i - 1) + 1] = requests'[i - 1]
          BY <3>1, <3>2, <5>1
        <5> QED BY <2>1, <5>1, <5>2
      <4> QED BY <4>1, <4>2
    <3> QED BY <2>1, <3>1, <3>2, <3>3, <3>4 DEF Grown
  <2> QED BY <2>2, <2>3
<1>3. ASSUME NEW p \in Pids, Ends(p)
      PROVE  Names' = Names \/ (cp[p] \in {"sendOut", "sendIn"} /\ Grown(Torn))
  <2>1. CASE UNCHANGED requests
    BY <1>3, <2>1, EndsOnly DEF Names, serverVars
  <2>2. CASE requests' = Append(requests, Torn) /\ cp[p] \in {"sendOut", "sendIn"}
    BY <1>2, <1>3, <2>2, EndsOnly DEF Tokens, serverVars
  <2> QED BY <1>3, <2>1, <2>2, EndsOnly
<1>4. ASSUME NEW p \in Pids, SendOut(p)
      PROVE  Grown(Out(p))
  BY <1>2, <1>4, FifoNames DEF SendOut, serverVars, Tokens
<1>5. ASSUME NEW p \in Pids, SendIn(p)
      PROVE  Grown(In(p))
  BY <1>2, <1>5, FifoNames DEF SendIn, serverVars, Tokens
<1>6. ASSUME ReadFirstName
      PROVE  Names' = Names
  <2>1. /\ sp = "select" /\ sp' = "name" /\ requests # <<>> /\ requests' = Tail(requests)
        /\ conn'.in = Head(requests)
    BY <1>6 DEF ReadFirstName, ReadName, Making, NoConn
  <2>2. /\ Head(requests) = requests[1] /\ Len(requests) \in Nat \ {0} /\ Len(requests') = Len(requests) - 1
        /\ \A i \in 1 .. Len(requests) - 1 : requests'[i] = requests[i + 1]
    BY <2>1, FirstName
  <2>3. Names = requests /\ Names \in Seq(Tokens)
    BY <2>1, NamesWhole
  <2>4. /\ Names' \in Seq(Tokens) /\ Len(Names') = Len(requests') + 1 /\ Names'[1] = conn'.in
        /\ \A i \in 1 .. Len(requests') : Names'[i + 1] = requests'[i]
    BY <2>1, NamesWholeNext
  <2>5. ASSUME NEW i \in 1 .. Len(Names)
        PROVE  Names'[i] = Names[i]
    <3>1. CASE i = 1
      BY <2>1, <2>2, <2>3, <2>4, <3>1
    <3>2. CASE i # 1
      <4>1. i - 1 \in 1 .. Len(requests') /\ (i - 1) + 1 = i
        BY <2>2, <2>3, <3>2
      <4>2. Names'[(i - 1) + 1] = requests'[i - 1] /\ requests'[i - 1] = requests[(i - 1) + 1]
        BY <2>2, <2>4, <4>1
      <4> QED BY <2>3, <4>1, <4>2
    <3> QED BY <3>1, <3>2
  <2>6. Len(Names') = Len(Names)
    BY <2>2, <2>3, <2>4
  <2> QED BY <2>3, <2>4, <2>5, <2>6, SeqEqual
<1>7. ASSUME ReadSecondName
      PROVE  /\ Len(Names) >= 2 /\ Len(Names') = Len(Names) - 2 /\ Names[2] = conn'.out
             /\ \A i \in 1 .. Len(Names') : Names'[i] = Names[i + 2]
  <2>1. /\ sp = "name" /\ sp' = "openRead" /\ requests # <<>> /\ requests' = Tail(requests)
        /\ conn'.out = Head(requests)
    BY <1>7 DEF ReadSecondName, ReadName, Making
  <2>2. /\ Head(requests) = requests[1] /\ Len(requests) \in Nat \ {0} /\ Len(requests') = Len(requests) - 1
        /\ \A i \in 1 .. Len(requests) - 1 : requests'[i] = requests[i + 1]
    BY <2>1, FirstName
  <2>3. Len(Names) = Len(requests) + 1 /\ \A i \in 1 .. Len(requests) : Names[i + 1] = requests[i]
    BY <2>1, NamesWhole
  <2>4. Names' = requests'
    BY <2>1, NamesWholeNext
  <2>5. Names[2] = conn'.out
    <3>1. Names[1 + 1] = requests[1] /\ 1 + 1 = 2
      BY <2>2, <2>3
    <3> QED BY <2>1, <2>2, <3>1
  <2>6. ASSUME NEW i \in 1 .. Len(Names')
        PROVE  Names'[i] = Names[i + 2]
    <3>1. i + 1 \in 1 .. Len(requests) /\ (i + 1) + 1 = i + 2
      BY <2>2, <2>4
    <3>2. Names[(i + 1) + 1] = requests[i + 1]
      BY <2>3, <3>1
    <3> QED BY <2>2, <2>4, <3>1, <3>2
  <2> QED BY <2>2, <2>3, <2>4, <2>5, <2>6
<1>8. \A p \in Pids : Ends(p) => Names' = Names \/ (cp[p] \in {"sendOut", "sendIn"} /\ Grown(Torn))
  BY <1>3
<1>9. \A p \in Pids : (SendOut(p) => Grown(Out(p))) /\ (SendIn(p) => Grown(In(p)))
  BY <1>4, <1>5
<1> QED BY <1>1, <1>6, <1>7, <1>8, <1>9

\* As long as the main server has not taken a name for another, the names it has
\* still to read stand as they were written.
LEMMA InPlaceStep ==
  ASSUME Types, Clients, Once, Making, InPlace, Types', Making', [Next]_vars
  PROVE  InPlace'
<1> SUFFICES ASSUME Aligned'
             PROVE  Ordered(Names', cp')
  BY DEF InPlace
<1>1. Names \in Seq(Tokens) /\ Names' \in Seq(Tokens)
  BY NamesWhole, NamesWholeNext
<1>2. ASSUME Aligned, NEW p \in Pids, Moves(p) \/ Ends(p) \/ SendOut(p) \/ SendIn(p)
      PROVE  Ordered(Names', cp')
  <2>1. Ordered(Names, cp)
    BY <1>2 DEF InPlace
  <2>2. CASE Moves(p)
    <3>1. Names' = Names
      BY <2>2, NamesChange
    <3> QED BY <2>1, <2>2, <3>1, MovesOnly, OrderedMove
  <2>3. CASE Ends(p)
    <3>1. CASE Names' = Names
      BY <2>1, <2>3, <3>1, EndsOnly, OrderedMove
    <3>2. CASE cp[p] \in {"sendOut", "sendIn"} /\ Grown(Torn)
      <4>1. cp'[p] = "gone" /\ \A q \in Pids \ {p} : cp'[q] = cp[q] /\ cp[q] # "sendIn"
        BY <2>3, <3>2, EndsOnly, OneWriter
      <4> QED BY <1>1, <2>1, <3>2, <4>1, OrderedThenTorn DEF Grown
    <3> QED BY <2>3, <3>1, <3>2, NamesChange
  <2>4. CASE SendOut(p)
    <3>1. cp[p] = "sendOut" /\ cp'[p] = "sendIn" /\ \A q \in Pids \ {p} : cp'[q] = cp[q]
      BY <2>4 DEF SendOut, Move, Types
    <3>2. Grown(Out(p))
      BY <2>4, NamesChange
    <3> QED BY <1>1, <2>1, <3>1, <3>2, OneWriter, OrderedThenOut DEF Grown
  <2>5. CASE SendIn(p)
    <3>1. cp[p] = "sendIn" /\ cp'[p] = "wait" /\ \A q \in Pids \ {p} : cp'[q] = cp[q]
      BY <2>5 DEF SendIn, Move, Types
    <3>2. Grown(In(p))
      BY <2>5, NamesChange
    <3> QED BY <1>1, <2>1, <3>1, <3>2, OneWriter, OrderedThenIn DEF Grown
  <2> QED BY <1>2, <2>2, <2>3, <2>4, <2>5
<1>3. ASSUME NEW p \in Pids, Moves(p) \/ Ends(p) \/ SendOut(p) \/ SendIn(p)
      PROVE  Aligned
  <2>1. UNCHANGED <<sp, conn>>
    BY <1>3, MovesOnly, EndsOnly DEF SendOut, SendIn, serverVars
  <2> QED BY <2>1 DEF Aligned
<1>4. CASE ReadFirstName
  <2>1. sp = "select" /\ sp' = "name" /\ cp' = cp
    BY <1>4 DEF ReadFirstName, ReadName, Aligned, clientVars
  <2>2. Names' = Names
    BY <1>4, NamesChange
  <2> QED BY <2>1, <2>2 DEF InPlace, Aligned, Halted, Ended
<1>5. CASE ReadSecondName
  <2>1. sp = "name" /\ sp' = "openRead" /\ cp' = cp
    BY <1>5 DEF ReadSecondName, ReadName, Aligned, clientVars
  <2>2. PICK p \in Pids : conn' = Pair(p)
    BY <2>1 DEF Aligned, Pairs
  <2>3. /\ Len(Names) >= 2 /\ Len(Names') = Len(Names) - 2 /\ Names[2] = In(p)
        /\ \A i \in 1 .. Len(Names') : Names'[i] = Names[i + 2]
    BY <1>5, <2>1, <2>2, NamesChange, PairParts
  <2> QED BY <1>1, <2>1, <2>3, OrderedDropPair DEF InPlace, Aligned, Halted, Ended
<1>6. CASE OtherMain \/ UNCHANGED vars
  <2>1. Names' = Names /\ cp' = cp
    BY <1>6, NamesChange DEF OtherMain, Listen, OpenRead, OpenWrite, Acknowledge, Fork, clientVars, vars
  <2>2. Aligned
    <3>1. CASE Listen \/ Fork \/ Acknowledge
      BY <3>1 DEF Listen, Fork, Acknowledge, Aligned, Halted, Ended
    <3>2. CASE OpenRead \/ UNCHANGED vars
      BY <3>2 DEF OpenRead, Aligned, vars, serverVars, Halted, Ended
    <3>3. CASE OpenWrite
      <4>1. ~Crossed
        BY <3>3 DEF OpenWrite, Crossed
      <4> QED BY <3>3, <4>1 DEF OpenWrite, Aligned, Making, Halted, Ended
    <3> QED BY <1>6, <3>1, <3>2, <3>3 DEF OtherMain
  <2> QED BY <2>1, <2>2 DEF InPlace
<1>7. CASE Halts
  BY <1>7, HaltsOnly DEF Aligned
<1> QED BY <1>2, <1>3, <1>4, <1>5, <1>6, <1>7, StepKinds

\* RequestsInPairs, in the words of InPairs.
LEMMA PairsOfNames == RequestsInPairs <=> (sp \notin Ended /\ ~SomeGone => InPairs(Names, cp))
BY DEF RequestsInPairs, SomeGone, InPairs

\* The same after a step.
LEMMA PairsOfNamesNext == RequestsInPairs' <=> (sp' \notin Ended /\ ~SomeGone' => InPairs(Names', cp'))
BY DEF RequestsInPairs, SomeGone, InPairs

\* While everybody lives, no client writes between the two names of another, and
\* the main server reads them two at a time.
LEMMA PairsStep ==
  ASSUME Types, Clients, Once, Making, InPlace, Deaths, RequestsInPairs, Types', Making', Deaths', [Next]_vars
  PROVE  RequestsInPairs'
<1> SUFFICES ASSUME sp' \notin Ended, ~SomeGone'
             PROVE  InPairs(Names', cp')
  BY PairsOfNamesNext
<1>1. Names \in Seq(Tokens) /\ Names' \in Seq(Tokens)
  BY NamesWhole, NamesWholeNext
<1>2. ~SomeGone
  BY GoneStays DEF SomeGone
<1>3. ~Halts
  BY HaltsOnly DEF Halted, Deaths
<1>4. sp \notin Ended
  <2>1. ASSUME NEW p \in Pids, Moves(p) \/ Ends(p) \/ SendOut(p) \/ SendIn(p)
        PROVE  sp \notin Ended
    BY <2>1, MovesOnly, EndsOnly DEF SendOut, SendIn, serverVars
  <2>2. CASE ReadFirstName \/ ReadSecondName \/ OtherMain \/ UNCHANGED vars
    BY <2>2 DEF ReadFirstName, ReadSecondName, ReadName, OtherMain, Listen, OpenRead, OpenWrite, Acknowledge,
                Fork, Ended, vars, serverVars
  <2> QED BY <1>3, <2>1, <2>2, StepKinds
<1>5. InPairs(Names, cp)
  BY <1>2, <1>4, PairsOfNames
<1>6. Ordered(Names, cp)
  <2>1. Aligned
    BY <1>2, <1>4 DEF Aligned, Deaths, Making, Crossed, SomeGone, Halted
  <2> QED BY <2>1 DEF InPlace
<1>7. \A i \in 1 .. Len(Names) : Names[i].end = "out" => Names[i].pid \in Pids
  BY <1>1, ElementOfSeq DEF Tokens, Fifos, Torn
<1>8. ASSUME NEW p \in Pids, Moves(p)
      PROVE  InPairs(Names', cp')
  <2>1. Names' = Names /\ \A q \in Pids : cp[q] = "sendIn" => cp'[q] = "sendIn"
    BY <1>8, NamesChange, MovesOnly
  <2> QED BY <1>5, <1>7, <2>1 DEF InPairs
<1>9. ASSUME NEW p \in Pids, Ends(p)
      PROVE  FALSE
  BY <1>9, EndsOnly DEF SomeGone
<1>10. ASSUME NEW p \in Pids, SendOut(p)
      PROVE  InPairs(Names', cp')
  <2>1. cp[p] = "sendOut" /\ cp'[p] = "sendIn"
    BY <1>10 DEF SendOut, Move, Types
  <2>2. \A q \in Pids : cp[q] # "sendIn"
    BY <2>1, OneWriter
  <2>3. Grown(Out(p))
    BY <1>10, NamesChange
  <2> QED BY <1>1, <1>5, <2>1, <2>2, <2>3, PairsThenOut DEF Grown
<1>11. ASSUME NEW p \in Pids, SendIn(p)
      PROVE  InPairs(Names', cp')
  <2>1. Names # <<>> /\ Names[Len(Names)] = Out(p)
    BY <1>6, <1>11 DEF SendIn, Ordered
  <2>2. Grown(In(p))
    BY <1>11, NamesChange
  <2> QED BY <1>1, <1>5, <2>1, <2>2, PairsThenIn DEF Grown
<1>12. CASE ReadFirstName
  <2>1. cp' = cp
    BY <1>12 DEF ReadFirstName, ReadName, clientVars
  <2> QED BY <1>5, <1>12, <2>1, NamesChange
<1>13. CASE ReadSecondName
  <2>1. cp' = cp
    BY <1>13 DEF ReadSecondName, ReadName, clientVars
  <2> QED BY <1>1, <1>5, <1>13, <2>1, NamesChange, PairsDropPair
<1>14. CASE OtherMain \/ UNCHANGED vars
  <2>1. Names' = Names /\ cp' = cp
    BY <1>14, NamesChange DEF OtherMain, Listen, OpenRead, OpenWrite, Acknowledge, Fork, clientVars, vars
  <2> QED BY <1>5, <2>1
<1> QED BY <1>3, <1>8, <1>9, <1>10, <1>11, <1>12, <1>13, <1>14, StepKinds

-----------------------------------------------------------------------------
(* The invariant.                                                          *)

\* Nothing has been asked for at the start.
LEMMA InitInv ==
  ASSUME Init
  PROVE  IInv
<1> USE HandshakeAssumption, FifoNames, NoConnParts DEF Init
<1>1. Types
  BY EmptySeq DEF Types
<1>2. Clients
  BY DEF Clients
<1>3. Len(requests) = 0 /\ Names = <<>> /\ Past = {} /\ Read = {}
  BY DEF Names, Past, Read
<1>4. \A f : ~Waiting(f)
  BY <1>3 DEF Waiting
<1>5. Once
  BY <1>3, <1>4 DEF Once
<1>6. Making
  BY <1>3 DEF Making, HasReader
<1>7. Answered
  BY DEF Answered
<1>8. InPlace
  BY <1>3 DEF InPlace, Ordered
<1>9. Deaths
  BY <1>4 DEF Deaths
<1>10. RequestsInPairs
  BY <1>3 DEF RequestsInPairs
<1> QED BY <1>1, <1>2, <1>5, <1>6, <1>7, <1>8, <1>9, <1>10 DEF IInv

\* Every step keeps it.
LEMMA InvStep ==
  ASSUME IInv, [Next]_vars
  PROVE  IInv'
<1>1. Types' /\ Clients'
  BY TypesStep, ClientsStep DEF IInv
<1>2. Making'
  BY MakingStep DEF IInv
<1>3. Once' /\ Answered' /\ Deaths'
  BY OnceStep, AnsweredStep, DeathsStep DEF IInv
<1>4. InPlace'
  BY <1>1, <1>2, InPlaceStep DEF IInv
<1>5. RequestsInPairs'
  BY <1>1, <1>2, <1>3, PairsStep DEF IInv
<1> QED BY <1>1, <1>2, <1>3, <1>4, <1>5 DEF IInv

\* IInv holds in every state.
LEMMA Invariant == Spec => []IInv
<1>1. Init => IInv
  BY InitInv
<1>2. IInv /\ [Next]_vars => IInv'
  BY InvStep
<1> QED BY <1>1, <1>2, PTL DEF Spec

-----------------------------------------------------------------------------
(* Theorems.                                                               *)

\* As long as there is a main server and no client has died, the names come two by
\* two, the second that of the client of the first: flock keeps clients from writing
\* between each other's names, however many there are.
THEOREM NamesInPairs == Spec => []RequestsInPairs
<1>1. IInv => RequestsInPairs
  BY DEF IInv
<1> QED BY <1>1, Invariant, PTL

\* Whoever conn_open gives a connection to, conn_accept has made one with the other
\* ends for, which has been handed to a forked server, is about to be, or to nobody
\* when there was no fork; and no other connection has either of them, even when
\* other clients die while they ask, forks fail or the main server is killed.
THEOREM EndsMeet == Spec => []EndsMatch
<1>1. IInv => EndsMatch
  <2> SUFFICES ASSUME IInv
               PROVE  EndsMatch
    OBVIOUS
  <2>1. \A p \in Pids : cp[p] = "connected" => Pair(p) \in Made
    BY DEF IInv, Answered
  <2>2. servers \cap unserved = {} /\ \A c, d \in Past : c.in = d.in \/ c.out = d.out => c = d
    BY DEF IInv, Making
  <2>3. ASSUME sp = "fork", NEW c \in Past, c.in = conn.in \/ c.out = conn.out
        PROVE  FALSE
    <3>1. conn \in Pairs /\ c \in Pairs /\ c.in # conn.in
      BY <2>3 DEF IInv, Making, Halted, Ended
    <3> QED BY <2>3, <3>1, PairParts
  <2>4. Made = Past \cup (IF sp = "fork" THEN {conn} ELSE {})
    BY DEF Made, Handed, Past
  <2> QED BY <2>1, <2>2, <2>3, <2>4 DEF EndsMatch
<1> QED BY <1>1, Invariant, PTL

\* conn_accept waits for a reader of a FIFO only when one of the clients whose
\* names it has read is dead: for a living one, the FIFO is open already.
THEOREM WaitsForNoLiveClient == Spec => []WaitsOnlyForTheGone
<1>1. IInv => WaitsOnlyForTheGone
  <2> SUFFICES ASSUME IInv, sp = "openWrite", ~HasReader(conn.out)
               PROVE  cp[conn.in.pid] = "gone" \/ cp[conn.out.pid] = "gone"
    BY DEF WaitsOnlyForTheGone
  <2>1. CASE conn \in Pairs
    <3>1. PICK p \in Pids : conn = Pair(p)
      BY <2>1 DEF Pairs
    <3>2. conn.out = In(p) /\ conn.out.pid = p /\ In(p) \in Fifos
      BY <3>1, PairParts, FifoNames DEF In
    <3>3. In(p) \in Read
      BY <3>2 DEF Read
    <3>4. cp[p] \in {"wait", "spin", "openOut", "connected", "gone"}
      BY <3>3 DEF IInv, Once
    <3>5. cp[p] = "gone"
      BY <3>2, <3>4 DEF IInv, Clients, HasReader
    <3> QED BY <3>2, <3>5
  <2>2. CASE Crossed
    <3>1. PICK p \in Pids, q \in Pids : conn = [in |-> Out(p), out |-> Out(q)] /\ cp[p] = "gone"
      BY <2>2 DEF Crossed
    <3>2. conn.in.pid = p
      BY <3>1 DEF Out
    <3> QED BY <3>1, <3>2
  <2> QED BY <2>1, <2>2 DEF IInv, Making
<1> QED BY <1>1, Invariant, PTL
=============================================================================
