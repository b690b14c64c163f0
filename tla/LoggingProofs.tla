---------------------------- MODULE LoggingProofs -----------------------------
(***************************************************************************)
(* For any processes and any starts of the daemon, killed or interrupted   *)
(* wherever they are: no message is printed twice, and each daemon prints  *)
(* the messages of a process in the order in which they were logged.       *)
(*                                                                         *)
(* The inductive invariant follows a message from the queue through the    *)
(* hands of a daemon to its screen: it is in one of these places at most   *)
(* (Apart), and comes in each after the earlier ones of its process        *)
(* (InOrder).  Both hold because a process sends one message at a time,    *)
(* with a number beyond those that have been accepted (Recorded).          *)
(***************************************************************************)
EXTENDS Logging, SequenceTheorems, FiniteSetTheorems, TLAPS

\* A message is its process and the number of the call.
Messages == Processes \X (1 .. MaxLogs)

\* The types; a queue holds messages as long as it exists.
Types ==
  /\ queues = [id \in DOMAIN queues |-> queues[id]]
  /\ \A id \in DOMAIN queues : queues[id] \in Seq(Messages)
  /\ screen \in [Daemons -> Seq(Messages)]
  /\ dmsqid = [d \in Daemons |-> dmsqid[d]]
  /\ currentMsg = [d \in Daemons |-> currentMsg[d]]
  /\ \A d \in Daemons : dpc[d] = "print" => currentMsg[d] \in Messages
  /\ dpc = [d \in Daemons |-> dpc[d]]
  /\ results \in [Processes -> Seq({1, -1})]
  /\ calls \in [Processes -> -1 .. MaxLogs]

\* A process is in one call of logMessage at most.
OneCall == \A p \in Processes : calls[p] <= Len(results[p]) + 1

\* Only messages that were accepted are anywhere.
IsAccepted(m) == m[2] <= Len(results[m[1]]) /\ results[m[1]][m[2]] = 1
Recorded ==
  /\ \A id \in DOMAIN queues : \A m \in ToSet(queues[id]) : IsAccepted(m)
  /\ \A d \in Daemons : \A m \in ToSet(screen[d]) : IsAccepted(m)
  /\ \A d \in Daemons : dpc[d] = "print" => IsAccepted(currentMsg[d])

\* A daemon that has not got its queue yet has printed nothing.
Fresh == \A d \in Daemons : dpc[d] \in {"off", "get"} => screen[d] = <<>>

\* m was logged before n, if they are of the same process.
Before(m, n) == m[1] = n[1] => m[2] < n[2]
Ascending(s) == \A i, j \in 1 .. Len(s) : i < j => Before(s[i], s[j])
InOrder ==
  /\ \A id \in DOMAIN queues : Ascending(queues[id])
  /\ \A d \in Daemons :
       /\ Ascending(screen[d])
       /\ Exists(dmsqid[d]) =>
            \A m \in ToSet(screen[d]), n \in ToSet(queues[dmsqid[d]]) : Before(m, n)
       /\ dpc[d] = "print" => \A m \in ToSet(screen[d]) : Before(m, currentMsg[d])
       /\ dpc[d] = "print" /\ Exists(dmsqid[d]) =>
            \A n \in ToSet(queues[dmsqid[d]]) : Before(currentMsg[d], n)

\* No message is in two places.
Apart ==
  /\ \A i, j \in DOMAIN queues : i # j => ToSet(queues[i]) \cap ToSet(queues[j]) = {}
  /\ \A d, e \in Daemons :
       /\ d # e => ToSet(screen[d]) \cap ToSet(screen[e]) = {}
       /\ d # e /\ dpc[d] = "print" /\ dpc[e] = "print" => currentMsg[d] # currentMsg[e]
       /\ dpc[e] = "print" => currentMsg[e] \notin ToSet(screen[d])
  /\ \A d \in Daemons : \A id \in DOMAIN queues :
       /\ ToSet(screen[d]) \cap ToSet(queues[id]) = {}
       /\ dpc[d] = "print" => currentMsg[d] \notin ToSet(queues[id])

\* The inductive invariant, and what of it is about the places of messages.
IInv == Types /\ OneCall /\ Fresh /\ Recorded /\ InOrder /\ Apart
Parts == Fresh /\ Recorded /\ InOrder /\ Apart

-----------------------------------------------------------------------------
(* Sequences of messages.                                                  *)

\* What a sequence holds after an Append.
LEMMA ToSetAppend ==
  ASSUME NEW s \in Seq(Messages), NEW x \in Messages
  PROVE  ToSet(Append(s, x)) = ToSet(s) \cup {x}
<1>1. /\ Append(s, x) \in Seq(Messages) /\ Len(Append(s, x)) = Len(s) + 1
      /\ \A i \in 1 .. Len(s) : Append(s, x)[i] = s[i]
      /\ Append(s, x)[Len(s) + 1] = x
  BY AppendProperties
<1>2. DOMAIN s = 1 .. Len(s) /\ DOMAIN Append(s, x) = 1 .. Len(s) + 1 /\ Len(s) \in Nat
  BY <1>1
<1>3. ASSUME NEW m \in ToSet(Append(s, x)) PROVE m \in ToSet(s) \cup {x}
  <2>1. PICK i \in 1 .. Len(s) + 1 : m = Append(s, x)[i]
    BY <1>2 DEF ToSet
  <2>2. CASE i \in 1 .. Len(s)
    BY <1>1, <1>2, <2>1, <2>2 DEF ToSet
  <2>3. CASE i = Len(s) + 1
    BY <1>1, <2>1, <2>3
  <2> QED BY <1>2, <2>2, <2>3
<1>4. ASSUME NEW m \in ToSet(s) PROVE m \in ToSet(Append(s, x))
  <2>1. PICK i \in 1 .. Len(s) : m = s[i]
    BY <1>2 DEF ToSet
  <2> QED BY <1>1, <1>2, <2>1 DEF ToSet
<1>5. x \in ToSet(Append(s, x))
  BY <1>1, <1>2 DEF ToSet
<1> QED BY <1>3, <1>4, <1>5

\* What a sequence loses with its head.
LEMMA ToSetTail ==
  ASSUME NEW s \in Seq(Messages), s # <<>>
  PROVE  /\ Head(s) \in Messages /\ Head(s) \in ToSet(s)
         /\ Tail(s) \in Seq(Messages) /\ ToSet(Tail(s)) \subseteq ToSet(s)
<1>1. /\ Head(s) = s[1] /\ Tail(s) \in Seq(Messages) /\ Len(Tail(s)) = Len(s) - 1
      /\ \A i \in 1 .. Len(Tail(s)) : Tail(s)[i] = s[i + 1]
  BY HeadTailProperties
<1>2. Len(s) \in Nat \ {0} /\ DOMAIN s = 1 .. Len(s) /\ DOMAIN Tail(s) = 1 .. Len(s) - 1
  BY <1>1, EmptySeq
<1>3. Head(s) \in Messages /\ Head(s) \in ToSet(s)
  BY <1>1, <1>2 DEF ToSet
<1>4. ASSUME NEW m \in ToSet(Tail(s)) PROVE m \in ToSet(s)
  <2>1. PICK i \in 1 .. Len(s) - 1 : m = Tail(s)[i]
    BY <1>2 DEF ToSet
  <2>2. m = s[i + 1] /\ i + 1 \in 1 .. Len(s)
    BY <1>1, <1>2, <2>1
  <2> QED BY <1>2, <2>2 DEF ToSet
<1> QED BY <1>1, <1>3, <1>4

\* What a sequence holds is its head or in its tail.
LEMMA HeadOrTail ==
  ASSUME NEW s \in Seq(Messages), s # <<>>
  PROVE  ToSet(s) \subseteq {Head(s)} \cup ToSet(Tail(s))
<1> SUFFICES ASSUME NEW m \in ToSet(s), m # Head(s) PROVE m \in ToSet(Tail(s))
  OBVIOUS
<1>1. /\ Head(s) = s[1] /\ Tail(s) \in Seq(Messages) /\ Len(Tail(s)) = Len(s) - 1
      /\ \A i \in 1 .. Len(Tail(s)) : Tail(s)[i] = s[i + 1]
  BY HeadTailProperties
<1>2. Len(s) \in Nat /\ DOMAIN s = 1 .. Len(s) /\ DOMAIN Tail(s) = 1 .. Len(s) - 1
  BY <1>1
<1>3. PICK i \in 1 .. Len(s) : m = s[i]
  BY <1>2 DEF ToSet
<1>4. i - 1 \in 1 .. Len(s) - 1
  BY <1>1, <1>2, <1>3
<1>5. Tail(s)[i - 1] = m
  BY <1>1, <1>3, <1>4
<1> QED BY <1>2, <1>4, <1>5 DEF ToSet

\* A message logged after all the others may follow them.
LEMMA AscendingAppend ==
  ASSUME NEW s \in Seq(Messages), NEW x \in Messages,
         Ascending(s), \A m \in ToSet(s) : Before(m, x)
  PROVE  Ascending(Append(s, x))
<1>1. /\ Append(s, x) \in Seq(Messages) /\ Len(Append(s, x)) = Len(s) + 1
      /\ \A i \in 1 .. Len(s) : Append(s, x)[i] = s[i]
      /\ Append(s, x)[Len(s) + 1] = x
  BY AppendProperties
<1>2. Len(s) \in Nat /\ \A i \in 1 .. Len(s) : s[i] \in ToSet(s)
  BY DEF ToSet
<1>3. ASSUME NEW i \in 1 .. Len(s) + 1, NEW j \in 1 .. Len(s) + 1, i < j
      PROVE  Before(Append(s, x)[i], Append(s, x)[j])
  <2>1. i \in 1 .. Len(s)
    BY <1>2, <1>3
  <2>2. CASE j \in 1 .. Len(s)
    BY <1>1, <1>3, <2>1, <2>2 DEF Ascending
  <2>3. CASE j = Len(s) + 1
    BY <1>1, <1>2, <2>1, <2>3
  <2> QED BY <1>2, <2>2, <2>3
<1> QED BY <1>1, <1>3 DEF Ascending

\* The head of an ascending sequence was logged before the rest of it.
LEMMA AscendingTail ==
  ASSUME NEW s \in Seq(Messages), s # <<>>, Ascending(s)
  PROVE  /\ Ascending(Tail(s))
         /\ \A n \in ToSet(Tail(s)) : Before(Head(s), n)
         /\ Head(s) \notin ToSet(Tail(s))
<1>1. /\ Head(s) = s[1] /\ Tail(s) \in Seq(Messages) /\ Len(Tail(s)) = Len(s) - 1
      /\ \A i \in 1 .. Len(Tail(s)) : Tail(s)[i] = s[i + 1]
  BY HeadTailProperties
<1>2. Len(s) \in Nat \ {0} /\ DOMAIN Tail(s) = 1 .. Len(s) - 1
  BY <1>1, EmptySeq
<1>3. Ascending(Tail(s))
  <2> SUFFICES ASSUME NEW i \in 1 .. Len(s) - 1, NEW j \in 1 .. Len(s) - 1, i < j
               PROVE  Before(Tail(s)[i], Tail(s)[j])
    BY <1>1 DEF Ascending
  <2>1. i + 1 \in 1 .. Len(s) /\ j + 1 \in 1 .. Len(s) /\ i + 1 < j + 1
    BY <1>2
  <2> QED BY <1>1, <2>1 DEF Ascending
<1>4. ASSUME NEW n \in ToSet(Tail(s)) PROVE Before(Head(s), n)
  <2>1. PICK i \in 1 .. Len(s) - 1 : n = Tail(s)[i]
    BY <1>2 DEF ToSet
  <2>2. 1 \in 1 .. Len(s) /\ i + 1 \in 1 .. Len(s) /\ 1 < i + 1
    BY <1>2
  <2> QED BY <1>1, <2>1, <2>2 DEF Ascending
<1>5. ~ Before(Head(s), Head(s))
  <2>1. Head(s) \in Messages
    BY ToSetTail
  <2> QED BY <2>1 DEF Before, Messages
<1> QED BY <1>3, <1>4, <1>5

-----------------------------------------------------------------------------
(* Steps that put no message anywhere.                                     *)

\* Queues are new, unchanged or gone; only a daemon without its queue gets one.
Quiet ==
  /\ \A id \in DOMAIN queues' :
       queues'[id] = <<>> \/ (id \in DOMAIN queues /\ queues'[id] = queues[id])
  /\ UNCHANGED <<screen, currentMsg>>
  /\ \A d \in Daemons :
       /\ dpc'[d] = "print" => dpc[d] = "print"
       /\ dpc'[d] \in {"off", "get"} => dpc[d] \in {"off", "get"}
       /\ dmsqid'[d] = dmsqid[d] \/ dpc[d] = "get"
  /\ \A m \in Messages : IsAccepted(m) => IsAccepted(m)'

\* Nothing is lost of the invariant by a quiet step.
LEMMA QuietKeeps ==
  ASSUME Types, Fresh, Recorded, InOrder, Apart, Quiet
  PROVE  Fresh' /\ Recorded' /\ InOrder' /\ Apart'
<1>1. ToSet(<<>>) = {} /\ Ascending(<<>>)
  BY DEF ToSet, Ascending
<1>2. \A s \in Seq(Messages) : ToSet(s) \subseteq Messages
  BY DEF ToSet
<1>3. Fresh'
  BY DEF Fresh, Quiet
<1>4. Recorded'
  BY <1>1, <1>2 DEF Recorded, Quiet, Types
<1>5. InOrder'
  BY <1>1 DEF InOrder, Quiet, Fresh, Exists
<1>6. Apart'
  BY <1>1 DEF Apart, Quiet
<1> QED BY <1>3, <1>4, <1>5, <1>6

-----------------------------------------------------------------------------
(* The steps.                                                              *)

\* What logMessage has returned stays returned.
LEMMA ReturnsKeeps ==
  ASSUME Types, NEW p \in Processes, NEW r, Returns(p, r)
  PROVE  /\ \A m \in Messages : IsAccepted(m) => IsAccepted(m)'
         /\ Len(results[p]) \in Nat
         /\ Len(results'[p]) = Len(results[p]) + 1
         /\ results'[p][Len(results[p]) + 1] = r
         /\ \A o \in Processes : o # p => results'[o] = results[o]
<1>1. /\ results[p] \in Seq({1, -1}) /\ results'[p] = Append(results[p], r)
      /\ \A o \in Processes : o # p => results'[o] = results[o]
  BY DEF Types, Returns
<1>2. results[p] \in Seq({1, -1} \cup {r})
  BY <1>1
<1>3. /\ Len(results'[p]) = Len(results[p]) + 1 /\ Len(results[p]) \in Nat
      /\ \A i \in 1 .. Len(results[p]) : results'[p][i] = results[p][i]
      /\ results'[p][Len(results[p]) + 1] = r
  BY <1>1, <1>2, AppendProperties
<1>4. ASSUME NEW m \in Messages, IsAccepted(m) PROVE IsAccepted(m)'
  <2>1. m[1] \in Processes /\ m[2] \in Nat /\ m[2] >= 1
    BY LoggingAssumption DEF Messages
  <2>2. CASE m[1] = p
    BY <1>3, <1>4, <2>1, <2>2 DEF IsAccepted
  <2>3. CASE m[1] # p
    BY <1>1, <1>4, <2>1, <2>3 DEF IsAccepted
  <2> QED BY <2>2, <2>3
<1> QED BY <1>1, <1>3, <1>4

\* The types, whatever happens.
LEMMA TypesKept ==
  ASSUME Types, OneCall, [Next]_vars
  PROVE  Types' /\ OneCall'
<1> USE DEF Types, kernelVars, processVars, daemonVars, Go
<1>1. ASSUME NEW p \in Processes, Fork(p) PROVE Types' /\ OneCall'
  <2>1. 0 \in -1 .. MaxLogs /\ Len(results[p]) \in Nat
    BY LoggingAssumption
  <2> QED BY <1>1, <2>1 DEF Fork, OneCall
<1>2. ASSUME NEW p \in Processes, LogMessage(p) PROVE Types' /\ OneCall'
  <2>1. calls[p] + 1 \in -1 .. MaxLogs /\ Len(results[p]) \in Nat
    BY <1>2, LoggingAssumption DEF LogMessage
  <2> QED BY <1>2, <2>1 DEF LogMessage, Logging, OneCall
<1>3. ASSUME NEW p \in Processes, NEW r \in {1, -1}, Returns(p, r), calls' = calls
      PROVE  results' \in [Processes -> Seq({1, -1})] /\ OneCall'
  <2>1. results' \in [Processes -> Seq({1, -1})]
    BY <1>3 DEF Returns
  <2>2. ASSUME NEW o \in Processes PROVE calls'[o] <= Len(results'[o]) + 1
    <3>1. Len(results[o]) \in Nat /\ calls[o] \in Int /\ calls[o] <= Len(results[o]) + 1
      BY DEF OneCall
    <3>2. Len(results'[o]) = Len(results[o]) \/ Len(results'[o]) = Len(results[o]) + 1
      BY <1>3, ReturnsKeeps
    <3> QED BY <1>3, <3>1, <3>2
  <2> QED BY <2>1, <2>2 DEF OneCall
<1>4. ASSUME NEW p \in Processes, ConnectToMsgQueue(p) PROVE Types' /\ OneCall'
  BY <1>3, <1>4 DEF ConnectToMsgQueue, OneCall
<1>5. ASSUME NEW p \in Processes, Msgsnd(p) PROVE Types' /\ OneCall'
  <2>1. OneCall' /\ results' \in [Processes -> Seq({1, -1})]
    BY <1>3, <1>5 DEF Msgsnd
  <2>2. calls[p] \in 1 .. MaxLogs
    BY <1>5 DEF Msgsnd, Logging
  <2>3. <<p, calls[p]>> \in Messages
    BY <2>2 DEF Messages
  <2>4. /\ queues' = [id \in DOMAIN queues' |-> queues'[id]]
        /\ \A id \in DOMAIN queues' : queues'[id] \in Seq(Messages)
    <3>1. CASE queues' = queues
      BY <3>1
    <3>2. CASE Exists(msqid[p])
               /\ queues' = [queues EXCEPT ![msqid[p]] = Append(@, <<p, calls[p]>>)]
      <4>1. Append(queues[msqid[p]], <<p, calls[p]>>) \in Seq(Messages)
        BY <2>3, <3>2 DEF Exists
      <4>2. DOMAIN queues' = DOMAIN queues
        BY <3>2
      <4>3. ASSUME NEW id \in DOMAIN queues
            PROVE  queues'[id] = IF id = msqid[p] THEN Append(queues[msqid[p]], <<p, calls[p]>>)
                                                  ELSE queues[id]
        BY <3>2
      <4>4. queues' = [id \in DOMAIN queues' |-> queues'[id]]
        BY <3>2, <4>2
      <4> QED BY <4>1, <4>2, <4>3, <4>4
    <3> QED BY <1>5, <3>1, <3>2 DEF Msgsnd
  <2> QED BY <1>5, <2>1, <2>4 DEF Msgsnd
<1>6. ASSUME NEW d \in Daemons, Start(d) PROVE Types' /\ OneCall'
  BY <1>6 DEF Start, OneCall
<1>7. ASSUME NEW d \in Daemons, Msgget(d) PROVE Types' /\ OneCall'
  <2>1. <<>> \in Seq(Messages)
    OBVIOUS
  <2>2. CASE key # -1
    BY <1>7, <2>2 DEF Msgget, OneCall
  <2>3. CASE key = -1
    <3>1. queues' = [id \in DOMAIN queues \cup {nextId} |-> IF id = nextId THEN <<>> ELSE queues[id]]
      BY <1>7, <2>3 DEF Msgget
    <3>2. DOMAIN queues' = DOMAIN queues \cup {nextId}
      BY <3>1
    <3>3. \A id \in DOMAIN queues' : queues'[id] \in Seq(Messages)
      BY <2>1, <3>1, <3>2
    <3>4. queues' = [id \in DOMAIN queues' |-> queues'[id]]
      BY <3>1, <3>2
    <3> QED BY <1>7, <3>3, <3>4 DEF Msgget, OneCall
  <2> QED BY <2>2, <2>3
<1>8. ASSUME NEW d \in Daemons, Msgrcv(d) PROVE Types' /\ OneCall'
  <2>1. queues[dmsqid[d]] \in Seq(Messages) /\ queues[dmsqid[d]] # <<>>
    BY <1>8 DEF Msgrcv, Exists
  <2>2. Head(queues[dmsqid[d]]) \in Messages /\ Tail(queues[dmsqid[d]]) \in Seq(Messages)
    BY <2>1, ToSetTail
  <2> QED BY <1>8, <2>2 DEF Msgrcv, OneCall
<1>9. ASSUME NEW d \in Daemons, MsgrcvFails(d) PROVE Types' /\ OneCall'
  BY <1>9 DEF MsgrcvFails, OneCall
<1>10. ASSUME NEW d \in Daemons, PrettyPrintMessage(d) PROVE Types' /\ OneCall'
  <2>1. Append(screen[d], currentMsg[d]) \in Seq(Messages)
    BY <1>10 DEF PrettyPrintMessage
  <2> QED BY <1>10, <2>1 DEF PrettyPrintMessage, OneCall
<1>11. ASSUME NEW d \in Daemons, Kill(d) PROVE Types' /\ OneCall'
  BY <1>11 DEF Kill, OneCall
<1>12. ASSUME NEW d \in Daemons, Cleanup(d) PROVE Types' /\ OneCall'
  BY <1>12 DEF Cleanup, OneCall
<1>13. ASSUME NEW d \in Daemons, CleanupFails(d) PROVE Types' /\ OneCall'
  BY <1>13 DEF CleanupFails, OneCall
<1>14. CASE UNCHANGED vars
  BY <1>14 DEF vars, OneCall
<1> QED BY <1>1, <1>2, <1>4, <1>5, <1>6, <1>7, <1>8, <1>9, <1>10, <1>11, <1>12, <1>13, <1>14
     DEF Next, ProcessStep, DaemonStep

\* A message that is accepted is the newest of its process, and nowhere yet.
LEMMA AcceptedAtTheEnd ==
  ASSUME IInv, NEW p \in Processes, Msgsnd(p), Exists(msqid[p]),
         Returns(p, 1), queues' = [queues EXCEPT ![msqid[p]] = Append(@, <<p, calls[p]>>)]
  PROVE  Parts'
<1> DEFINE id == msqid[p]
           new == <<p, calls[p]>>
<1>a. Types /\ OneCall /\ Fresh /\ Recorded /\ InOrder /\ Apart
  BY DEF IInv
<1>1. /\ UNCHANGED <<screen, currentMsg, dpc, dmsqid>> /\ id \in DOMAIN queues
      /\ DOMAIN queues' = DOMAIN queues
      /\ queues'[id] = Append(queues[id], new)
      /\ \A i \in DOMAIN queues : i # id => queues'[i] = queues[i]
  BY <1>a DEF Msgsnd, daemonVars, Exists, Types
<1>2. calls[p] \in 1 .. MaxLogs /\ calls[p] = Len(results[p]) + 1 /\ Len(results[p]) \in Nat
  BY <1>a DEF Msgsnd, Logging, Types, OneCall
<1>3. new \in Messages /\ ~ IsAccepted(new)
  BY <1>2 DEF Messages, IsAccepted
<1>4. \A m \in Messages : IsAccepted(m) \/ m = new => IsAccepted(m)'
  <2>1. \A m \in Messages : m = new => m[1] = p /\ m[2] = calls[p]
    OBVIOUS
  <2>2. \A m \in Messages : m = new => IsAccepted(m)'
    BY <1>a, <1>2, <2>1, ReturnsKeeps DEF IsAccepted
  <2> QED BY <1>a, <2>2, ReturnsKeeps
<1>5. \A m \in Messages : IsAccepted(m) => Before(m, new) /\ m # new
  BY <1>2, <1>3 DEF Messages, IsAccepted, Before
<1>6. /\ queues[id] \in Seq(Messages) /\ ToSet(queues'[id]) = ToSet(queues[id]) \cup {new}
      /\ \A s \in Seq(Messages) : ToSet(s) \subseteq Messages
  <2>1. queues[id] \in Seq(Messages)
    BY <1>a, <1>1 DEF Types
  <2>2. \A s \in Seq(Messages) : ToSet(s) \subseteq Messages
    BY DEF ToSet
  <2> QED BY <1>1, <1>3, <2>1, <2>2, ToSetAppend
<1>7. /\ \A i \in DOMAIN queues : \A m \in ToSet(queues[i]) : Before(m, new) /\ m # new
      /\ \A d \in Daemons : \A m \in ToSet(screen[d]) : Before(m, new) /\ m # new
      /\ \A d \in Daemons : dpc[d] = "print" => Before(currentMsg[d], new) /\ currentMsg[d] # new
  BY <1>a, <1>5, <1>6 DEF Types, Recorded
<1>8. Ascending(queues'[id])
  BY <1>a, <1>1, <1>3, <1>6, <1>7, AscendingAppend DEF InOrder
<1> HIDE DEF new, id
<1>9. Fresh'
  BY <1>a, <1>1 DEF Fresh
<1>10. Recorded'
  <2>1. ASSUME NEW i \in DOMAIN queues, NEW m \in ToSet(queues'[i]) PROVE IsAccepted(m)'
    <3>1. CASE m \in ToSet(queues[i])
      <4>1. m \in Messages /\ IsAccepted(m)
        BY <1>a, <1>6, <3>1 DEF Recorded, Types
      <4> QED BY <1>4, <4>1
    <3>2. CASE i = id /\ m = new
      BY <1>3, <1>4, <3>2
    <3> QED BY <1>1, <1>6, <2>1, <3>1, <3>2
  <2>2. ASSUME NEW d \in Daemons, NEW m \in ToSet(screen[d]) PROVE IsAccepted(m)'
    <3>1. m \in Messages /\ IsAccepted(m)
      BY <1>a, <1>6, <2>2 DEF Recorded, Types
    <3> QED BY <1>4, <3>1
  <2>3. ASSUME NEW d \in Daemons, dpc[d] = "print" PROVE IsAccepted(currentMsg[d])'
    <3>1. currentMsg[d] \in Messages /\ IsAccepted(currentMsg[d])
      BY <1>a, <2>3 DEF Recorded, Types
    <3>2. IsAccepted(currentMsg[d])' <=> (currentMsg[d][2] <= Len(results'[currentMsg[d][1]])
                                          /\ results'[currentMsg[d][1]][currentMsg[d][2]] = 1)
      BY <1>1 DEF IsAccepted
    <3> QED BY <1>4, <3>1, <3>2 DEF IsAccepted
  <2> QED BY <1>1, <2>1, <2>2, <2>3 DEF Recorded
<1>11. InOrder'
  <2>1. \A i \in DOMAIN queues' : Ascending(queues'[i])
    BY <1>a, <1>1, <1>8 DEF InOrder
  <2>2. ASSUME NEW d \in Daemons, Exists(dmsqid[d])', NEW n \in ToSet(queues'[dmsqid[d]])
        PROVE  /\ \A m \in ToSet(screen[d]) : Before(m, n)
               /\ dpc[d] = "print" => Before(currentMsg[d], n)
    <3>1. Exists(dmsqid[d])
      BY <1>1, <2>2 DEF Exists
    <3>2. CASE n \in ToSet(queues[dmsqid[d]])
      BY <1>a, <3>1, <3>2 DEF InOrder
    <3>3. CASE n = new
      BY <1>7, <3>3
    <3> QED BY <1>1, <1>6, <2>2, <3>1, <3>2, <3>3 DEF Exists
  <2>3. ASSUME NEW d \in Daemons
        PROVE  /\ Ascending(screen[d])
               /\ dpc[d] = "print" => \A m \in ToSet(screen[d]) : Before(m, currentMsg[d])
    BY <1>a DEF InOrder
  <2> QED BY <1>1, <2>1, <2>2, <2>3 DEF InOrder, Exists
<1>12. Apart'
  <2>1. \A i \in DOMAIN queues : \A m \in ToSet(queues'[i]) :
          m \in ToSet(queues[i]) \/ (i = id /\ m = new)
    BY <1>1, <1>6
  <2>2. \A i, j \in DOMAIN queues : i # j => ToSet(queues'[i]) \cap ToSet(queues'[j]) = {}
    BY <1>a, <1>7, <2>1 DEF Apart
  <2>3. \A d \in Daemons : \A i \in DOMAIN queues :
          /\ ToSet(screen[d]) \cap ToSet(queues'[i]) = {}
          /\ dpc[d] = "print" => currentMsg[d] \notin ToSet(queues'[i])
    BY <1>a, <1>7, <2>1 DEF Apart
  <2> QED BY <1>a, <1>1, <2>2, <2>3 DEF Apart
<1> QED BY <1>9, <1>10, <1>11, <1>12 DEF Parts

\* A daemon takes the oldest message of its queue into its hands.
LEMMA TakenFromTheFront ==
  ASSUME IInv, NEW d \in Daemons, Msgrcv(d)
  PROVE  Parts'
<1> DEFINE id == dmsqid[d]
           m0 == Head(queues[id])
<1>a. Types /\ Fresh /\ Recorded /\ InOrder /\ Apart
  BY DEF IInv
<1>1. /\ UNCHANGED <<screen, dmsqid, results>> /\ id \in DOMAIN queues /\ queues[id] # <<>>
      /\ DOMAIN queues' = DOMAIN queues
      /\ queues'[id] = Tail(queues[id])
      /\ \A i \in DOMAIN queues : i # id => queues'[i] = queues[i]
      /\ dpc[d] = "receive" /\ dpc'[d] = "print" /\ currentMsg'[d] = m0
      /\ \A e \in Daemons : e # d => dpc'[e] = dpc[e] /\ currentMsg'[e] = currentMsg[e]
  BY <1>a DEF Msgrcv, Go, processVars, Exists, Types
<1>2. queues[id] \in Seq(Messages) /\ Ascending(queues[id])
  BY <1>a, <1>1 DEF Types, InOrder
<1>3. m0 \in ToSet(queues[id]) /\ ToSet(queues'[id]) \subseteq ToSet(queues[id])
  BY <1>1, <1>2, ToSetTail
<1>4. /\ Ascending(queues'[id]) /\ m0 \notin ToSet(queues'[id])
      /\ \A n \in ToSet(queues'[id]) : Before(m0, n)
  BY <1>1, <1>2, AscendingTail
<1> HIDE DEF m0, id
<1>5. \A i \in DOMAIN queues : ToSet(queues'[i]) \subseteq ToSet(queues[i]) /\ Ascending(queues'[i])
  BY <1>a, <1>1, <1>3, <1>4 DEF InOrder
<1>6. Fresh'
  BY <1>a, <1>1 DEF Fresh
<1>7. Recorded'
  BY <1>a, <1>1, <1>3, <1>5 DEF Recorded, IsAccepted
<1>8. InOrder'
  <2>1. id = dmsqid[d]
    BY DEF id
  <2> QED BY <1>a, <1>1, <1>3, <1>4, <1>5, <2>1 DEF InOrder, Exists
<1>9. Apart'
  <2>1. \A i \in DOMAIN queues : i # id => m0 \notin ToSet(queues[i])
    BY <1>a, <1>1, <1>3 DEF Apart
  <2>2. \A e \in Daemons :
          /\ m0 \notin ToSet(screen[e])
          /\ dpc[e] = "print" => currentMsg[e] # m0
    BY <1>a, <1>1, <1>3 DEF Apart
  <2>3. \A i, j \in DOMAIN queues : i # j => ToSet(queues'[i]) \cap ToSet(queues'[j]) = {}
    BY <1>a, <1>5 DEF Apart
  <2>4. \A i \in DOMAIN queues : m0 \notin ToSet(queues'[i])
    BY <1>4, <1>5, <2>1
  <2>5. \A e \in Daemons : \A i \in DOMAIN queues :
          /\ ToSet(screen[e]) \cap ToSet(queues'[i]) = {}
          /\ dpc'[e] = "print" => currentMsg'[e] \notin ToSet(queues'[i])
    BY <1>a, <1>1, <1>5, <2>4 DEF Apart
  <2>6. \A e, f \in Daemons :
          /\ e # f => ToSet(screen[e]) \cap ToSet(screen[f]) = {}
          /\ e # f /\ dpc'[e] = "print" /\ dpc'[f] = "print" => currentMsg'[e] # currentMsg'[f]
          /\ dpc'[f] = "print" => currentMsg'[f] \notin ToSet(screen[e])
    <3> TAKE e, f \in Daemons
    <3>1. /\ dpc'[e] = "print" => (e = d /\ currentMsg'[e] = m0)
                                 \/ (e # d /\ dpc[e] = "print" /\ currentMsg'[e] = currentMsg[e])
          /\ dpc'[f] = "print" => (f = d /\ currentMsg'[f] = m0)
                                 \/ (f # d /\ dpc[f] = "print" /\ currentMsg'[f] = currentMsg[f])
      BY <1>1
    <3>2. /\ e # f => ToSet(screen[e]) \cap ToSet(screen[f]) = {}
          /\ e # f /\ dpc[e] = "print" /\ dpc[f] = "print" => currentMsg[e] # currentMsg[f]
          /\ dpc[f] = "print" => currentMsg[f] \notin ToSet(screen[e])
      BY <1>a DEF Apart
    <3> QED BY <2>2, <3>1, <3>2
  <2> QED BY <1>1, <2>3, <2>5, <2>6 DEF Apart
<1> QED BY <1>6, <1>7, <1>8, <1>9 DEF Parts

\* The message in a daemon's hands goes to the end of its screen.
LEMMA ShownAtTheEnd ==
  ASSUME IInv, NEW d \in Daemons, PrettyPrintMessage(d)
  PROVE  Parts'
<1> DEFINE m0 == currentMsg[d]
<1>a. Types /\ Fresh /\ Recorded /\ InOrder /\ Apart
  BY DEF IInv
<1>1. /\ UNCHANGED <<queues, dmsqid, results, currentMsg>>
      /\ dpc[d] = "print" /\ dpc'[d] = "receive" /\ screen'[d] = Append(screen[d], m0)
      /\ \A e \in Daemons : e # d => dpc'[e] = dpc[e] /\ screen'[e] = screen[e]
  BY <1>a DEF PrettyPrintMessage, Go, processVars, kernelVars, Types
<1>2. screen[d] \in Seq(Messages) /\ m0 \in Messages
  BY <1>a, <1>1 DEF Types
<1>3. ToSet(screen'[d]) = ToSet(screen[d]) \cup {m0}
  BY <1>1, <1>2, ToSetAppend
<1>4. Ascending(screen'[d])
  BY <1>a, <1>1, <1>2, AscendingAppend DEF InOrder
<1>5. Fresh'
  BY <1>a, <1>1 DEF Fresh
<1>6. Recorded'
  <2>1. \A e \in Daemons : \A m \in ToSet(screen'[e]) : IsAccepted(m)
    BY <1>a, <1>1, <1>3 DEF Recorded
  <2> QED BY <1>a, <1>1, <2>1 DEF Recorded, IsAccepted
<1>7. InOrder'
  BY <1>a, <1>1, <1>3, <1>4 DEF InOrder, Exists
<1>8. Apart'
  <2>1. \A e \in Daemons : \A m \in ToSet(screen'[e]) : m \in ToSet(screen[e]) \/ (e = d /\ m = m0)
    BY <1>1, <1>3
  <2>2. \A e \in Daemons : e # d /\ dpc[e] = "print" => currentMsg[e] # m0
    BY <1>a, <1>1 DEF Apart
  <2>3. /\ \A e \in Daemons : m0 \notin ToSet(screen[e])
        /\ \A i \in DOMAIN queues : m0 \notin ToSet(queues[i])
    BY <1>a, <1>1 DEF Apart
  <2> HIDE DEF m0
  <2>4. ASSUME NEW e \in Daemons, NEW f \in Daemons
        PROVE  /\ e # f => ToSet(screen'[e]) \cap ToSet(screen'[f]) = {}
               /\ dpc'[f] = "print" => currentMsg[f] \notin ToSet(screen'[e])
    <3>1. /\ e # f => ToSet(screen[e]) \cap ToSet(screen[f]) = {}
          /\ dpc[f] = "print" => currentMsg[f] \notin ToSet(screen[e])
      BY <1>a DEF Apart
    <3>2. dpc'[f] = "print" => f # d /\ dpc[f] = "print"
      BY <1>1
    <3> QED BY <2>1, <2>2, <2>3, <3>1, <3>2
  <2>5. \A e, f \in Daemons :
          e # f /\ dpc'[e] = "print" /\ dpc'[f] = "print" => currentMsg[e] # currentMsg[f]
    BY <1>a, <1>1 DEF Apart
  <2>6. \A e \in Daemons : \A i \in DOMAIN queues :
          /\ ToSet(screen'[e]) \cap ToSet(queues[i]) = {}
          /\ dpc'[e] = "print" => currentMsg[e] \notin ToSet(queues[i])
    BY <1>a, <1>1, <2>1, <2>3 DEF Apart
  <2> QED BY <1>a, <1>1, <2>4, <2>5, <2>6 DEF Apart
<1> QED BY <1>5, <1>6, <1>7, <1>8 DEF Parts

\* Every other step is quiet.
LEMMA OtherStepsQuiet ==
  ASSUME IInv, [Next]_vars
  PROVE  \/ Quiet
         \/ \E p \in Processes :
              /\ Msgsnd(p) /\ Exists(msqid[p]) /\ Returns(p, 1)
              /\ queues' = [queues EXCEPT ![msqid[p]] = Append(@, <<p, calls[p]>>)]
         \/ \E d \in Daemons : Msgrcv(d) \/ PrettyPrintMessage(d)
<1>a. Types
  BY DEF IInv
<1>1. ASSUME results' = results, queues' = queues,
             UNCHANGED <<screen, currentMsg, dmsqid>>,
             \A d \in Daemons : \/ dpc'[d] = dpc[d]
                                \/ dpc[d] = "off" /\ dpc'[d] = "get"
                                \/ dpc'[d] \notin {"off", "get", "print"}
      PROVE  Quiet
  BY <1>1 DEF Quiet, IsAccepted
<1>2. ASSUME NEW p \in Processes, Fork(p) \/ LogMessage(p) PROVE Quiet
  BY <1>1, <1>2 DEF Fork, LogMessage, kernelVars, daemonVars
<1>3. ASSUME NEW p \in Processes, NEW r, Returns(p, r), queues' = queues, UNCHANGED daemonVars
      PROVE  Quiet
  BY <1>a, <1>3, ReturnsKeeps DEF Quiet, daemonVars
<1>4. ASSUME NEW p \in Processes, ConnectToMsgQueue(p) PROVE Quiet
  <2>1. CASE key = -1
    BY <1>3, <1>4, <2>1 DEF ConnectToMsgQueue, kernelVars
  <2>2. CASE key # -1
    BY <1>1, <1>4, <2>2 DEF ConnectToMsgQueue, kernelVars, daemonVars
  <2> QED BY <2>1, <2>2
<1>5. ASSUME NEW p \in Processes, Msgsnd(p), ~ (Exists(msqid[p]) /\ Len(queues[msqid[p]]) < QueueMax)
      PROVE  Quiet
  BY <1>3, <1>5 DEF Msgsnd
<1>6. ASSUME NEW d \in Daemons, Start(d) \/ MsgrcvFails(d) \/ Kill(d) \/ CleanupFails(d)
      PROVE  Quiet
  BY <1>a, <1>1, <1>6 DEF Start, MsgrcvFails, Kill, CleanupFails, Go, kernelVars, processVars, Types
<1>7. ASSUME NEW d \in Daemons, Msgget(d) PROVE Quiet
  <2>1. /\ dpc[d] = "get" /\ dpc'[d] = "receive" /\ UNCHANGED <<results, screen, currentMsg>>
        /\ \A e \in Daemons : e # d => dpc'[e] = dpc[e] /\ dmsqid'[e] = dmsqid[e]
    BY <1>a, <1>7 DEF Msgget, Go, processVars, Types
  <2>2. \A id \in DOMAIN queues' :
          queues'[id] = <<>> \/ (id \in DOMAIN queues /\ queues'[id] = queues[id])
    BY <1>7 DEF Msgget, kernelVars
  <2>3. \A e \in Daemons :
          /\ dpc'[e] = "print" => dpc[e] = "print"
          /\ dpc'[e] \in {"off", "get"} => dpc[e] \in {"off", "get"}
          /\ dmsqid'[e] = dmsqid[e] \/ dpc[e] = "get"
    BY <2>1
  <2>4. \A m \in Messages : IsAccepted(m) => IsAccepted(m)'
    BY <2>1 DEF IsAccepted
  <2> QED BY <2>1, <2>2, <2>3, <2>4 DEF Quiet
<1>8. ASSUME NEW d \in Daemons, Cleanup(d) PROVE Quiet
  <2>1. /\ dpc'[d] = "interrupted" /\ UNCHANGED <<results, screen, currentMsg, dmsqid>>
        /\ \A e \in Daemons : e # d => dpc'[e] = dpc[e]
    BY <1>a, <1>8 DEF Cleanup, Go, processVars, Types
  <2>2. \A id \in DOMAIN queues' : id \in DOMAIN queues /\ queues'[id] = queues[id]
    BY <1>8 DEF Cleanup
  <2> QED BY <2>1, <2>2 DEF Quiet, IsAccepted
<1>9. CASE UNCHANGED vars
  BY <1>1, <1>9 DEF vars, kernelVars, processVars, daemonVars
<1> QED BY <1>2, <1>4, <1>5, <1>6, <1>7, <1>8, <1>9 DEF Next, ProcessStep, DaemonStep, Msgsnd

\* Before anything is logged.
LEMMA InitInv == Init => IInv
<1> SUFFICES ASSUME Init PROVE IInv
  OBVIOUS
<1>1. /\ <<>> \in Seq(Messages) /\ <<>> \in Seq({1, -1}) /\ Len(<<>>) = 0
      /\ ToSet(<<>>) = {} /\ DOMAIN <<>> = {} /\ Ascending(<<>>)
  BY DEF ToSet, Ascending
<1>2. Types /\ OneCall
  BY <1>1, LoggingAssumption DEF Init, Types, OneCall
<1>3. Fresh /\ Recorded /\ InOrder /\ Apart
  BY <1>1 DEF Init, Fresh, Recorded, InOrder, Apart, Exists
<1> QED BY <1>2, <1>3 DEF IInv

\* Every step keeps the invariant: it is quiet or one of the three that move a message.
LEMMA StepInv == IInv /\ [Next]_vars => IInv'
<1> SUFFICES ASSUME IInv, [Next]_vars PROVE IInv'
  OBVIOUS
<1>1. Types' /\ OneCall'
  BY TypesKept DEF IInv
<1>2. Parts'
  BY OtherStepsQuiet, QuietKeeps, AcceptedAtTheEnd, TakenFromTheFront, ShownAtTheEnd
  DEF IInv, Parts
<1> QED BY <1>1, <1>2 DEF IInv, Parts

-----------------------------------------------------------------------------
\* The inductive invariant holds throughout.
THEOREM LoggingInvariance == Spec => []IInv
<1>1. Init => IInv
  BY InitInv
<1>2. IInv /\ [Next]_vars => IInv'
  BY StepInv
<1> QED BY <1>1, <1>2, PTL DEF Spec

\* What the invariant says of one screen.
LEMMA InvShowsInOrder == IInv => ShownInOrder
<1> SUFFICES ASSUME IInv, NEW d \in Daemons, NEW i \in DOMAIN screen[d], NEW j \in DOMAIN screen[d],
                    i < j, screen[d][i][1] = screen[d][j][1]
             PROVE  screen[d][i][2] < screen[d][j][2]
  BY DEF ShownInOrder
<1>1. screen[d] \in Seq(Messages) /\ Ascending(screen[d])
  BY DEF IInv, Types, InOrder
<1>2. DOMAIN screen[d] = 1 .. Len(screen[d])
  BY <1>1
<1> QED BY <1>1, <1>2 DEF Ascending, Before

\* What the invariant says of the places of a message.
LEMMA InvPrintsOnce == IInv => PrintedOnce
<1> SUFFICES ASSUME IInv PROVE PrintedOnce
  OBVIOUS
<1>1. Types /\ Recorded /\ InOrder /\ Apart
  BY DEF IInv
<1>2. Shown \cap InHand = {} /\ Shown \cap Queued = {}
  BY <1>1 DEF Apart, Shown, InHand, Queued
<1>3. ASSUME NEW d \in Daemons, NEW e \in Daemons, NEW i \in DOMAIN screen[d],
             NEW j \in DOMAIN screen[e], screen[d][i] = screen[e][j]
      PROVE  d = e /\ i = j
  <2>1. screen[d][i] \in ToSet(screen[d]) /\ screen[e][j] \in ToSet(screen[e])
    BY DEF ToSet
  <2>2. d = e
    BY <1>1, <1>3, <2>1 DEF Apart
  <2>3. screen[d] \in Seq(Messages) /\ Ascending(screen[d])
    BY <1>1 DEF Types, InOrder
  <2>4. DOMAIN screen[d] = 1 .. Len(screen[d]) /\ Len(screen[d]) \in Nat
    BY <2>3
  <2>5. screen[d][i] \in Messages /\ ~ Before(screen[d][i], screen[d][i])
    BY <2>3, <2>4 DEF Before, Messages
  <2>6. ~ i < j /\ ~ j < i
    BY <1>3, <2>2, <2>3, <2>4, <2>5 DEF Ascending
  <2> QED BY <2>2, <2>4, <2>6
<1>4. ASSUME NEW m \in Shown PROVE m \in Accepted
  <2>1. PICK d \in Daemons : m \in ToSet(screen[d])
    BY DEF Shown
  <2>2. IsAccepted(m)
    BY <1>1, <2>1 DEF Recorded
  <2>3. screen[d] \in Seq(Messages)
    BY <1>1 DEF Types
  <2>4. m \in Messages
    BY <2>1, <2>3 DEF ToSet
  <2> QED BY <2>2, <2>4 DEF Accepted, IsAccepted, Messages
<1> QED BY <1>2, <1>3, <1>4 DEF PrintedOnce

\* No message is printed twice: not by two daemons, not by a daemon again, not by
\* a daemon and by the process that logMessage has told that it was not sent.
THEOREM NothingPrintedTwice == Spec => []PrintedOnce
BY LoggingInvariance, InvPrintsOnce, PTL

\* Each daemon prints the messages of a process in the order of its calls.
THEOREM MessagesInOrder == Spec => []ShownInOrder
BY LoggingInvariance, InvShowsInOrder, PTL

-----------------------------------------------------------------------------
(* Messages that are lost.                                                 *)

\* The identifier of a queue was given out: a new queue takes no other's place.
Numbered == nextId \in Nat /\ \A id \in DOMAIN queues : id \in Int /\ id < nextId

\* m is in a queue, on a screen, or in the hands of a daemon, alive or killed.
Kept(m) ==
  \/ \E id \in DOMAIN queues : m \in ToSet(queues[id])
  \/ \E d \in Daemons : m \in ToSet(screen[d])
  \/ \E d \in Daemons : dpc[d] \in {"print", "killed"} /\ currentMsg[d] = m

\* As long as no daemon was interrupted, nothing that was accepted leaves these places.
Interrupted == \E d \in Daemons : dpc[d] = "interrupted"
Lossless == Interrupted \/ \A m \in Messages : IsAccepted(m) => Kept(m)

\* As long as no daemon was interrupted, a daemon that has got its queue has it still.
Present ==
  Interrupted \/ /\ key # -1 => Exists(key)
                 /\ \A d \in Daemons : dpc[d] \in {"receive", "print"} => Exists(dmsqid[d])

\* Numbers are given out in ascending order.
LEMMA NumbersKept == Numbered /\ [Next]_vars => Numbered'
<1> SUFFICES ASSUME Numbered, [Next]_vars PROVE Numbered'
  OBVIOUS
<1> USE DEF Numbered, kernelVars, daemonVars
<1>1. ASSUME DOMAIN queues' \subseteq DOMAIN queues, nextId' = nextId PROVE Numbered'
  BY <1>1
<1>2. ASSUME NEW p \in Processes, Fork(p) \/ LogMessage(p) \/ ConnectToMsgQueue(p) PROVE Numbered'
  BY <1>1, <1>2 DEF Fork, LogMessage, ConnectToMsgQueue
<1>3. ASSUME NEW p \in Processes, Msgsnd(p) PROVE Numbered'
  BY <1>1, <1>3 DEF Msgsnd
<1>4. ASSUME NEW d \in Daemons, Start(d) \/ MsgrcvFails(d) \/ PrettyPrintMessage(d) \/ Kill(d) \/ CleanupFails(d)
      PROVE  Numbered'
  BY <1>1, <1>4 DEF Start, MsgrcvFails, PrettyPrintMessage, Kill, CleanupFails
<1>5. ASSUME NEW d \in Daemons, Msgget(d) PROVE Numbered'
  BY <1>5 DEF Msgget
<1>6. ASSUME NEW d \in Daemons, Msgrcv(d) PROVE Numbered'
  BY <1>1, <1>6 DEF Msgrcv
<1>7. ASSUME NEW d \in Daemons, Cleanup(d) PROVE Numbered'
  BY <1>1, <1>7 DEF Cleanup
<1>8. CASE UNCHANGED vars
  BY <1>1, <1>8 DEF vars
<1> QED BY <1>2, <1>3, <1>4, <1>5, <1>6, <1>7, <1>8 DEF Next, ProcessStep, DaemonStep

\* A daemon that was interrupted or killed stays so, and keeps what it held.
LEMMA EndsAreFinal ==
  ASSUME Types, [Next]_vars, NEW d \in Daemons, dpc[d] \in {"interrupted", "killed"}
  PROVE  dpc'[d] = dpc[d] /\ currentMsg'[d] = currentMsg[d]
<1> USE DEF Types, Go, daemonVars, Running
<1>1. ASSUME NEW p \in Processes, Fork(p) \/ LogMessage(p) \/ ConnectToMsgQueue(p) \/ Msgsnd(p)
      PROVE  UNCHANGED <<dpc, currentMsg>>
  BY <1>1 DEF Fork, LogMessage, ConnectToMsgQueue, Msgsnd
<1>2. ASSUME NEW e \in Daemons, Start(e) \/ Msgget(e) \/ MsgrcvFails(e) PROVE e # d /\ UNCHANGED currentMsg
  BY <1>2 DEF Start, Msgget, MsgrcvFails
<1>3. ASSUME NEW e \in Daemons, Start(e) \/ Msgget(e) \/ MsgrcvFails(e) PROVE dpc'[d] = dpc[d]
  BY <1>2, <1>3 DEF Start, Msgget, MsgrcvFails
<1>4. ASSUME NEW e \in Daemons, Msgrcv(e) PROVE dpc'[d] = dpc[d] /\ currentMsg'[d] = currentMsg[d]
  BY <1>4 DEF Msgrcv
<1>5. ASSUME NEW e \in Daemons, PrettyPrintMessage(e)
      PROVE  dpc'[d] = dpc[d] /\ currentMsg'[d] = currentMsg[d]
  BY <1>5 DEF PrettyPrintMessage
<1>6. ASSUME NEW e \in Daemons, Kill(e) \/ Cleanup(e) \/ CleanupFails(e)
      PROVE  dpc'[d] = dpc[d] /\ currentMsg'[d] = currentMsg[d]
  BY <1>6 DEF Kill, Cleanup, CleanupFails
<1>7. CASE UNCHANGED vars
  BY <1>7 DEF vars
<1> QED BY <1>1, <1>2, <1>3, <1>4, <1>5, <1>6, <1>7 DEF Next, ProcessStep, DaemonStep

\* A message that is kept stays kept by a step that interrupts no daemon.
LEMMA KeptStays ==
  ASSUME Types, Numbered, Present, ~ Interrupted, [Next]_vars, ~ Interrupted',
         NEW m \in Messages, Kept(m)
  PROVE  Kept(m)'
<1> USE DEF kernelVars, daemonVars
<1>1. ASSUME NEW d \in Daemons, dpc[d] = "killed", currentMsg[d] = m PROVE Kept(m)'
  BY <1>1, EndsAreFinal DEF Kept
<1>2. ASSUME \A id \in DOMAIN queues : id \in DOMAIN queues' /\ ToSet(queues[id]) \subseteq ToSet(queues'[id]),
             \A d \in Daemons : ToSet(screen[d]) \subseteq ToSet(screen'[d]),
             currentMsg' = currentMsg,
             \A d \in Daemons : dpc[d] = "print" =>
               dpc'[d] \in {"print", "killed"} \/ currentMsg[d] \in ToSet(screen'[d])
      PROVE  Kept(m)'
  BY <1>1, <1>2 DEF Kept
<1>3. ASSUME NEW p \in Processes, Fork(p) \/ LogMessage(p) \/ ConnectToMsgQueue(p) PROVE Kept(m)'
  BY <1>2, <1>3 DEF Fork, LogMessage, ConnectToMsgQueue
<1>4. ASSUME NEW p \in Processes, Msgsnd(p) PROVE Kept(m)'
  <2>1. CASE queues' = queues
    BY <1>2, <1>4, <2>1 DEF Msgsnd
  <2>2. CASE /\ Exists(msqid[p])
             /\ queues' = [queues EXCEPT ![msqid[p]] = Append(@, <<p, calls[p]>>)]
    <3>1. calls[p] \in 1 .. MaxLogs
      BY <1>4 DEF Msgsnd, Logging, Types
    <3>2. <<p, calls[p]>> \in Messages /\ queues[msqid[p]] \in Seq(Messages)
      BY <2>2, <3>1 DEF Messages, Exists, Types
    <3>3. ToSet(queues[msqid[p]]) \subseteq ToSet(Append(queues[msqid[p]], <<p, calls[p]>>))
      BY <3>2, ToSetAppend
    <3>4. \A id \in DOMAIN queues : id \in DOMAIN queues' /\ ToSet(queues[id]) \subseteq ToSet(queues'[id])
      BY <2>2, <3>3 DEF Exists
    <3> QED BY <1>2, <1>4, <3>4 DEF Msgsnd
  <2> QED BY <1>4, <2>1, <2>2 DEF Msgsnd
<1>5. ASSUME NEW d \in Daemons, Start(d) \/ MsgrcvFails(d) \/ Kill(d) PROVE Kept(m)'
  <2>1. \A e \in Daemons : dpc[e] = "print" => dpc'[e] \in {"print", "killed"}
    BY <1>5 DEF Start, MsgrcvFails, Kill, Go, Types
  <2> QED BY <1>2, <1>5, <2>1 DEF Start, MsgrcvFails, Kill
<1>6. ASSUME NEW d \in Daemons, Msgget(d) PROVE Kept(m)'
  <2>1. \A e \in Daemons : dpc[e] = "print" => dpc'[e] = "print"
    BY <1>6 DEF Msgget, Go, Types
  <2>2. \A id \in DOMAIN queues : id \in DOMAIN queues' /\ queues'[id] = queues[id]
    BY <1>6 DEF Msgget, Numbered
  <2> QED BY <1>2, <1>6, <2>1, <2>2 DEF Msgget
<1>7. ASSUME NEW d \in Daemons, Msgrcv(d) PROVE Kept(m)'
  <2> DEFINE q == queues[dmsqid[d]]
  <2>1. /\ dmsqid[d] \in DOMAIN queues /\ q \in Seq(Messages) /\ q # <<>>
        /\ DOMAIN queues' = DOMAIN queues /\ queues'[dmsqid[d]] = Tail(q)
        /\ \A id \in DOMAIN queues : id # dmsqid[d] => queues'[id] = queues[id]
    BY <1>7 DEF Msgrcv, Exists, Types
  <2>2. /\ screen' = screen /\ dpc[d] = "receive" /\ dpc'[d] = "print" /\ currentMsg'[d] = Head(q)
        /\ \A e \in Daemons : e # d => dpc'[e] = dpc[e] /\ currentMsg'[e] = currentMsg[e]
    BY <1>7 DEF Msgrcv, Go, Types
  <2>3. ToSet(q) \subseteq {Head(q)} \cup ToSet(Tail(q))
    BY <2>1, HeadOrTail
  <2> HIDE DEF q
  <2>4. CASE \E id \in DOMAIN queues : m \in ToSet(queues[id])
    <3>1. PICK id \in DOMAIN queues : m \in ToSet(queues[id])
      BY <2>4
    <3>2. CASE id # dmsqid[d]
      BY <2>1, <3>1, <3>2 DEF Kept
    <3>3. CASE id = dmsqid[d]
      <4>1. m = Head(q) \/ m \in ToSet(queues'[id])
        BY <2>1, <2>3, <3>1, <3>3 DEF q
      <4> QED BY <2>1, <2>2, <3>3, <4>1 DEF Kept
    <3> QED BY <3>2, <3>3
  <2>5. CASE \E e \in Daemons : m \in ToSet(screen[e])
    BY <2>2, <2>5 DEF Kept
  <2>6. CASE \E e \in Daemons : dpc[e] \in {"print", "killed"} /\ currentMsg[e] = m
    BY <2>2, <2>6 DEF Kept
  <2> QED BY <2>4, <2>5, <2>6 DEF Kept
<1>8. ASSUME NEW d \in Daemons, PrettyPrintMessage(d) PROVE Kept(m)'
  <2>1. /\ screen'[d] = Append(screen[d], currentMsg[d])
        /\ screen[d] \in Seq(Messages) /\ currentMsg[d] \in Messages
        /\ \A e \in Daemons : e # d => dpc'[e] = dpc[e] /\ screen'[e] = screen[e]
    BY <1>8 DEF PrettyPrintMessage, Go, Types
  <2>2. ToSet(screen'[d]) = ToSet(screen[d]) \cup {currentMsg[d]}
    BY <2>1, ToSetAppend
  <2>3. /\ \A e \in Daemons : ToSet(screen[e]) \subseteq ToSet(screen'[e])
        /\ \A e \in Daemons : dpc[e] = "print" =>
             dpc'[e] \in {"print", "killed"} \/ currentMsg[e] \in ToSet(screen'[e])
    BY <2>1, <2>2
  <2> QED BY <1>2, <1>8, <2>3 DEF PrettyPrintMessage
<1>9. ASSUME NEW d \in Daemons, Cleanup(d) PROVE Kept(m)'
  BY <1>9 DEF Cleanup, Go, Interrupted, Types
<1>10. ASSUME NEW d \in Daemons, CleanupFails(d) PROVE Kept(m)'
  <2>1. dpc[d] # "print"
    BY <1>10 DEF CleanupFails, Present
  <2>2. \A e \in Daemons : dpc[e] = "print" => dpc'[e] = "print"
    BY <1>10, <2>1 DEF CleanupFails, Go, Types
  <2> QED BY <1>2, <1>10, <2>2 DEF CleanupFails
<1>11. CASE UNCHANGED vars
  BY <1>2, <1>11 DEF vars
<1> QED BY <1>3, <1>4, <1>5, <1>6, <1>7, <1>8, <1>9, <1>10, <1>11 DEF Next, ProcessStep, DaemonStep

\* Without an interruption no queue is removed.
LEMMA PresentKept ==
  ASSUME Types, Present, ~ Interrupted, [Next]_vars, ~ Interrupted'
  PROVE  Present'
<1> USE DEF Present, Exists, kernelVars, daemonVars
<1>1. ASSUME DOMAIN queues \subseteq DOMAIN queues', key' = key, dmsqid' = dmsqid,
             \A d \in Daemons : dpc'[d] \in {"receive", "print"} => dpc[d] \in {"receive", "print"}
      PROVE  Present'
  BY <1>1
<1>2. ASSUME NEW p \in Processes, Fork(p) \/ LogMessage(p) \/ ConnectToMsgQueue(p) PROVE Present'
  BY <1>1, <1>2 DEF Fork, LogMessage, ConnectToMsgQueue
<1>3. ASSUME NEW p \in Processes, Msgsnd(p) PROVE Present'
  BY <1>1, <1>3 DEF Msgsnd
<1>4. ASSUME NEW d \in Daemons,
             Start(d) \/ MsgrcvFails(d) \/ PrettyPrintMessage(d) \/ Kill(d) \/ CleanupFails(d)
      PROVE  Present'
  <2>1. \A e \in Daemons : dpc'[e] \in {"receive", "print"} => dpc[e] \in {"receive", "print"}
    BY <1>4 DEF Start, MsgrcvFails, PrettyPrintMessage, Kill, CleanupFails, Go, Types
  <2> QED BY <1>1, <1>4, <2>1 DEF Start, MsgrcvFails, PrettyPrintMessage, Kill, CleanupFails
<1>5. ASSUME NEW d \in Daemons, Msgget(d) PROVE Present'
  <2>1. DOMAIN queues \subseteq DOMAIN queues'
    BY <1>5 DEF Msgget
  <2>2. key' \in DOMAIN queues'
    BY <1>5 DEF Msgget
  <2>3. /\ dmsqid'[d] = key'
        /\ \A e \in Daemons : e # d => dpc'[e] = dpc[e] /\ dmsqid'[e] = dmsqid[e]
    BY <1>5 DEF Msgget, Go, Types
  <2>4. ASSUME NEW e \in Daemons, dpc'[e] \in {"receive", "print"} PROVE dmsqid'[e] \in DOMAIN queues'
    BY <2>1, <2>2, <2>3, <2>4
  <2> QED BY <2>2, <2>4
<1>6. ASSUME NEW d \in Daemons, Msgrcv(d) PROVE Present'
  <2>1. \A e \in Daemons : dpc'[e] \in {"receive", "print"} => dpc[e] \in {"receive", "print"}
    BY <1>6 DEF Msgrcv, Go, Types
  <2> QED BY <1>1, <1>6, <2>1 DEF Msgrcv
<1>7. ASSUME NEW d \in Daemons, Cleanup(d) PROVE FALSE
  BY <1>7 DEF Cleanup, Go, Interrupted, Types
<1>8. CASE UNCHANGED vars
  BY <1>1, <1>8 DEF vars
<1> QED BY <1>2, <1>3, <1>4, <1>5, <1>6, <1>7, <1>8 DEF Next, ProcessStep, DaemonStep

\* msgsnd puts what it accepts into a queue, and nothing else is accepted.
LEMMA AcceptedIsKept ==
  ASSUME Types, OneCall, [Next]_vars, NEW m \in Messages, ~ IsAccepted(m), IsAccepted(m)'
  PROVE  Kept(m)'
<1>1. ASSUME NEW p \in Processes, NEW r, Returns(p, r)
      PROVE  r = 1 /\ m[1] = p /\ m[2] = Len(results[p]) + 1
  <2>1. /\ results[p] \in Seq({1, -1}) /\ results'[p] = Append(results[p], r)
        /\ \A o \in Processes : o # p => results'[o] = results[o]
    BY <1>1 DEF Types, Returns
  <2>2. results[p] \in Seq({1, -1} \cup {r})
    BY <2>1
  <2>3. /\ Len(results'[p]) = Len(results[p]) + 1 /\ Len(results[p]) \in Nat
        /\ \A i \in 1 .. Len(results[p]) : results'[p][i] = results[p][i]
        /\ results'[p][Len(results[p]) + 1] = r
    BY <2>1, <2>2, AppendProperties
  <2>4. m[1] \in Processes /\ m[2] \in Nat /\ m[2] >= 1
    BY LoggingAssumption DEF Messages
  <2>5. m[1] = p
    BY <2>1, <2>4 DEF IsAccepted
  <2> QED BY <2>3, <2>4, <2>5 DEF IsAccepted
<1>2. ASSUME results' = results PROVE FALSE
  BY <1>2 DEF IsAccepted
<1>3. ASSUME NEW p \in Processes, ConnectToMsgQueue(p) PROVE FALSE
  BY <1>1, <1>2, <1>3 DEF ConnectToMsgQueue
<1>4. ASSUME NEW p \in Processes, Msgsnd(p) PROVE Kept(m)'
  <2>1. /\ Exists(msqid[p]) /\ Returns(p, 1)
        /\ queues' = [queues EXCEPT ![msqid[p]] = Append(@, <<p, calls[p]>>)]
    BY <1>1, <1>4 DEF Msgsnd
  <2>2. calls[p] \in 1 .. MaxLogs /\ calls[p] = Len(results[p]) + 1
    BY <1>4 DEF Msgsnd, Logging, Types, OneCall
  <2>3. m[1] = p /\ m[2] = calls[p]
    BY <1>1, <2>1, <2>2
  <2>4. m = <<p, calls[p]>>
    BY <2>3 DEF Messages
  <2>5. queues[msqid[p]] \in Seq(Messages)
    BY <2>1 DEF Types, Exists
  <2>6. m \in ToSet(Append(queues[msqid[p]], m))
    BY <2>5, ToSetAppend
  <2>7. msqid[p] \in DOMAIN queues' /\ queues'[msqid[p]] = Append(queues[msqid[p]], m)
    BY <2>1, <2>4 DEF Exists
  <2> QED BY <2>6, <2>7 DEF Kept
<1>5. ASSUME NEW p \in Processes, Fork(p) \/ LogMessage(p) PROVE FALSE
  BY <1>2, <1>5 DEF Fork, LogMessage
<1>6. ASSUME NEW d \in Daemons, Start(d) \/ DaemonStep(d) \/ Kill(d) \/ Cleanup(d) \/ CleanupFails(d)
      PROVE  FALSE
  BY <1>2, <1>6 DEF Start, DaemonStep, Msgget, Msgrcv, MsgrcvFails, PrettyPrintMessage, Kill, Cleanup,
                    CleanupFails, processVars
<1>7. CASE UNCHANGED vars
  BY <1>2, <1>7 DEF vars, processVars
<1> QED BY <1>3, <1>4, <1>5, <1>6, <1>7 DEF Next, ProcessStep

\* The invariant about losses, and what it is inductive with.
LossInv == IInv /\ Numbered /\ Present /\ Lossless

\* Before anything is accepted.
LEMMA LossInit == Init => LossInv
<1> SUFFICES ASSUME Init PROVE LossInv
  OBVIOUS
<1>1. Numbered
  BY LoggingAssumption DEF Init, Numbered
<1>2. ASSUME NEW m \in Messages PROVE ~ IsAccepted(m)
  <2>1. m[1] \in Processes /\ m[2] \in Nat /\ m[2] >= 1
    BY LoggingAssumption DEF Messages
  <2> QED BY <2>1 DEF Init, IsAccepted
<1>3. Present
  BY DEF Init, Present
<1> QED BY <1>1, <1>2, <1>3, InitInv DEF LossInv, Lossless

\* A message is kept from the step that accepts it, by every step up to an interruption.
LEMMA LossStep == LossInv /\ [Next]_vars => LossInv'
<1> SUFFICES ASSUME LossInv, [Next]_vars PROVE LossInv'
  OBVIOUS
<1>1. IInv /\ Types /\ OneCall /\ Numbered /\ Present /\ Lossless
  BY DEF LossInv, IInv
<1>2. IInv' /\ Numbered'
  BY <1>1, StepInv, NumbersKept
<1>3. ASSUME ~ Interrupted', NEW m \in Messages, IsAccepted(m)' PROVE Kept(m)'
  <2>1. ~ Interrupted
    BY <1>1, <1>3, EndsAreFinal DEF Interrupted
  <2>2. CASE ~ IsAccepted(m)
    BY <1>1, <1>3, <2>2, AcceptedIsKept
  <2>3. CASE IsAccepted(m)
    <3>1. Kept(m)
      BY <1>1, <2>1, <2>3 DEF Lossless
    <3> QED BY <1>1, <1>3, <2>1, <3>1, KeptStays
  <2> QED BY <2>2, <2>3
<1>4. Lossless'
  BY <1>3 DEF Lossless
<1>5. ASSUME ~ Interrupted' PROVE Present'
  <2>1. ~ Interrupted
    BY <1>1, <1>5, EndsAreFinal DEF Interrupted
  <2> QED BY <1>1, <1>5, <2>1, PresentKept
<1>6. Present'
  BY <1>5 DEF Present
<1> QED BY <1>2, <1>4, <1>6 DEF LossInv

\* What is lost is in the hands of killed daemons, one message in each.
LEMMA InvLosesWithDaemons ==
  ASSUME IsFiniteSet(Daemons), LossInv
  PROVE  LostWithDaemonOnly
<1> SUFFICES ASSUME \A d \in Daemons : dpc[d] # "interrupted"
             PROVE  Cardinality(Accepted \ (Queued \cup Shown \cup InHand))
                      <= Cardinality({d \in Daemons : dpc[d] = "killed"})
  BY DEF LostWithDaemonOnly
<1> DEFINE lost == Accepted \ (Queued \cup Shown \cup InHand)
           killed == {d \in Daemons : dpc[d] = "killed"}
           held == {currentMsg[d] : d \in killed}
           hold == [d \in killed |-> currentMsg[d]]
<1>1. lost \subseteq held
  <2> SUFFICES ASSUME NEW m \in lost PROVE m \in held
    OBVIOUS
  <2>1. m \in Messages /\ IsAccepted(m)
    BY DEF Accepted, Messages, IsAccepted
  <2>2. Kept(m)
    BY <2>1 DEF LossInv, Lossless, Interrupted
  <2>3. m \notin Queued /\ m \notin Shown /\ m \notin InHand
    OBVIOUS
  <2>4. \E d \in Daemons : dpc[d] = "killed" /\ currentMsg[d] = m
    BY <2>2, <2>3 DEF Kept, Queued, Shown, InHand
  <2> QED BY <2>4
<1>2. IsFiniteSet(killed)
  BY FS_Subset
<1> HIDE DEF lost, killed
<1>3. hold \in Surjection(killed, held)
  BY DEF Surjection
<1>4. IsFiniteSet(held) /\ Cardinality(held) <= Cardinality(killed)
  BY <1>2, <1>3, FS_Surjection
<1> HIDE DEF held
<1>5. IsFiniteSet(lost) /\ Cardinality(lost) <= Cardinality(held)
  BY <1>1, <1>4, FS_Subset
<1>6. /\ Cardinality(killed) \in Int /\ Cardinality(held) \in Int /\ Cardinality(lost) \in Int
  BY <1>2, <1>4, <1>5, FS_CardinalityType
<1>7. Cardinality(lost) <= Cardinality(killed)
  BY <1>4, <1>5, <1>6
<1> QED BY <1>7 DEF lost, killed

\* Without an interruption, at most one accepted message is lost for each daemon killed.
THEOREM LossesHaveReasons ==
  ASSUME IsFiniteSet(Daemons)
  PROVE  Spec => []LostWithDaemonOnly
<1>1. LossInv => LostWithDaemonOnly
  BY InvLosesWithDaemons
<1> QED BY <1>1, LossInit, LossStep, PTL DEF Spec
===============================================================================
