------------------------------- MODULE Logging -------------------------------
(***************************************************************************)
(* Logging (logging/logging.c) from the processes of the shop, through a   *)
(* message queue of the kernel, to the logging daemon (loggingDaemon.c),   *)
(* which may be started late, twice or again, interrupted or killed.       *)
(*                                                                         *)
(* The kernel's message queues are external: a key leads to one queue at a *)
(* time, an identifier to one queue for ever.                              *)
(***************************************************************************)
EXTENDS Integers, Sequences, FiniteSets, SequencesExt

CONSTANTS Processes, Parent,  \* a process and the one it is forked from, or itself
          Daemons,            \* starts of the logging daemon
          QueueMax,           \* messages that a queue holds
          MaxLogs             \* bound: messages logged by a process

ASSUME LoggingAssumption ==
  /\ Parent \in [Processes -> Processes]
  /\ QueueMax \in Nat /\ MaxLogs \in Nat

VARIABLES
  key,      \* the queue of QUEUE_KEY, or -1
  queues,   \* the contents of the queues that exist
  nextId,
  msqid,    \* in each process: static int msqid
  calls,    \* how often each process, once it runs, has called logMessage, or -1
  results,  \* what the calls have returned
  dpc,      \* where each daemon is
  dmsqid, currentMsg,
  screen    \* what each daemon has printed

kernelVars == <<key, queues, nextId>>
processVars == <<msqid, calls, results>>
daemonVars == <<dpc, dmsqid, currentMsg, screen>>
vars == <<kernelVars, processVars, daemonVars>>

NoMessage == <<>>
Exists(id) == id \in DOMAIN queues

\* A message is known by its process and its number.
Logging(p) == calls[p] > Len(results[p])
Returns(p, result) == results' = [results EXCEPT ![p] = Append(@, result)]

-----------------------------------------------------------------------------
(* Processes.                                                              *)

Fork(p) ==
  /\ calls[p] = -1 /\ calls[Parent[p]] # -1
  /\ calls' = [calls EXCEPT ![p] = 0]
  /\ msqid' = [msqid EXCEPT ![p] = msqid[Parent[p]]]
  /\ UNCHANGED <<kernelVars, results, daemonVars>>

LogMessage(p) ==
  /\ calls[p] \in 0 .. MaxLogs - 1 /\ ~ Logging(p)
  /\ calls' = [calls EXCEPT ![p] = @ + 1]
  /\ UNCHANGED <<kernelVars, msqid, results, daemonVars>>

\* connectToMsgQueue: if there is no queue the message is printed here.
ConnectToMsgQueue(p) ==
  /\ Logging(p) /\ msqid[p] = -1
  /\ msqid' = [msqid EXCEPT ![p] = key]
  /\ IF key = -1 THEN Returns(p, -1) ELSE UNCHANGED results
  /\ UNCHANGED <<kernelVars, calls, daemonVars>>

\* Mutant of Msgsnd: without IPC_NOWAIT.
MsgsndWaits(p) ==
  /\ Logging(p) /\ msqid[p] # -1
  /\ Exists(msqid[p]) => Len(queues[msqid[p]]) < QueueMax
  /\ IF Exists(msqid[p])
       THEN Returns(p, 1) /\ queues' = [queues EXCEPT ![msqid[p]] = Append(@, <<p, calls[p]>>)]
       ELSE Returns(p, -1) /\ UNCHANGED queues
  /\ UNCHANGED <<key, nextId, msqid, calls, daemonVars>>

\* msgsnd with IPC_NOWAIT.  The identifier is kept, whatever comes of it.
Msgsnd(p) ==
  /\ Logging(p) /\ msqid[p] # -1
  /\ IF Exists(msqid[p]) /\ Len(queues[msqid[p]]) < QueueMax
       THEN Returns(p, 1) /\ queues' = [queues EXCEPT ![msqid[p]] = Append(@, <<p, calls[p]>>)]
       ELSE Returns(p, -1) /\ UNCHANGED queues
  /\ UNCHANGED <<key, nextId, msqid, calls, daemonVars>>

-----------------------------------------------------------------------------
(* Daemons.                                                                *)

Go(d, place) == dpc' = [dpc EXCEPT ![d] = place]

\* signal()
Start(d) ==
  /\ dpc[d] = "off" /\ Go(d, "get")
  /\ UNCHANGED <<kernelVars, processVars, dmsqid, currentMsg, screen>>

\* msgget with IPC_CREAT
Msgget(d) ==
  /\ dpc[d] = "get" /\ Go(d, "receive")
  /\ IF key # -1
       THEN UNCHANGED kernelVars
       ELSE /\ key' = nextId
            /\ queues' = [id \in DOMAIN queues \cup {nextId} |->
                            IF id = nextId THEN <<>> ELSE queues[id]]
            /\ nextId' = nextId + 1
  /\ dmsqid' = [dmsqid EXCEPT ![d] = key']
  /\ UNCHANGED <<processVars, currentMsg, screen>>

\* Mutant of Msgrcv: the message is only looked at.
MsgrcvCopy(d) ==
  /\ dpc[d] = "receive" /\ Exists(dmsqid[d]) /\ queues[dmsqid[d]] # <<>>
  /\ currentMsg' = [currentMsg EXCEPT ![d] = Head(queues[dmsqid[d]])]
  /\ Go(d, "print")
  /\ UNCHANGED <<kernelVars, processVars, dmsqid, screen>>

\* Mutant of Msgrcv: the message received last comes first.
MsgrcvNewest(d) ==
  /\ dpc[d] = "receive" /\ Exists(dmsqid[d]) /\ queues[dmsqid[d]] # <<>>
  /\ currentMsg' = [currentMsg EXCEPT ![d] = Last(queues[dmsqid[d]])]
  /\ queues' = [queues EXCEPT ![dmsqid[d]] = Front(@)]
  /\ Go(d, "print")
  /\ UNCHANGED <<key, nextId, processVars, dmsqid, screen>>

Msgrcv(d) ==
  /\ dpc[d] = "receive" /\ Exists(dmsqid[d]) /\ queues[dmsqid[d]] # <<>>
  /\ currentMsg' = [currentMsg EXCEPT ![d] = Head(queues[dmsqid[d]])]
  /\ queues' = [queues EXCEPT ![dmsqid[d]] = Tail(@)]
  /\ Go(d, "print")
  /\ UNCHANGED <<key, nextId, processVars, dmsqid, screen>>

\* Somebody has removed the queue.
MsgrcvFails(d) ==
  /\ dpc[d] = "receive" /\ ~ Exists(dmsqid[d])
  /\ Go(d, "exited")
  /\ UNCHANGED <<kernelVars, processVars, dmsqid, currentMsg, screen>>

\* Mutant of PrettyPrintMessage: nothing is printed of the messages of main().
PrettyPrintOthers(d) ==
  /\ dpc[d] = "print" /\ Go(d, "receive")
  /\ screen' = [screen EXCEPT ![d] =
       IF Parent[currentMsg[d][1]] = currentMsg[d][1] THEN @ ELSE Append(@, currentMsg[d])]
  /\ UNCHANGED <<kernelVars, processVars, dmsqid, currentMsg>>

PrettyPrintMessage(d) ==
  /\ dpc[d] = "print" /\ Go(d, "receive")
  /\ screen' = [screen EXCEPT ![d] = Append(@, currentMsg[d])]
  /\ UNCHANGED <<kernelVars, processVars, dmsqid, currentMsg>>

Running(d) == dpc[d] \in {"get", "receive", "print"}

\* Mutant of Kill: the queue goes with its daemon.
KillRemoves(d) ==
  /\ Running(d) /\ Go(d, "killed")
  /\ queues' = [id \in DOMAIN queues \ {dmsqid[d]} |-> queues[id]]
  /\ key' = IF key = dmsqid[d] THEN -1 ELSE key
  /\ UNCHANGED <<nextId, processVars, dmsqid, currentMsg, screen>>

Kill(d) ==
  /\ Running(d) /\ Go(d, "killed")
  /\ UNCHANGED <<kernelVars, processVars, dmsqid, currentMsg, screen>>

\* msgqueue_cleanup: IPC_RMID.
Cleanup(d) ==
  /\ Running(d) /\ Exists(dmsqid[d]) /\ Go(d, "interrupted")
  /\ queues' = [id \in DOMAIN queues \ {dmsqid[d]} |-> queues[id]]
  /\ key' = IF key = dmsqid[d] THEN -1 ELSE key
  /\ UNCHANGED <<nextId, processVars, dmsqid, currentMsg, screen>>

\* There is nothing to remove: the queue is gone, or msgget is still to come.
CleanupFails(d) ==
  /\ Running(d) /\ ~ Exists(dmsqid[d]) /\ Go(d, "exited")
  /\ UNCHANGED <<kernelVars, processVars, dmsqid, currentMsg, screen>>

-----------------------------------------------------------------------------
Init ==
  /\ key = -1 /\ queues = <<>> /\ nextId = 0
  /\ msqid = [p \in Processes |-> -1]
  /\ calls = [p \in Processes |-> IF Parent[p] = p THEN 0 ELSE -1]
  /\ results = [p \in Processes |-> <<>>]
  /\ dpc = [d \in Daemons |-> "off"]
  /\ dmsqid = [d \in Daemons |-> -1]  \* logging.o is linked in: its msqid is the daemon's
  /\ currentMsg = [d \in Daemons |-> NoMessage]
  /\ screen = [d \in Daemons |-> <<>>]

ProcessStep(p) == ConnectToMsgQueue(p) \/ Msgsnd(p)
DaemonStep(d) == Msgget(d) \/ Msgrcv(d) \/ MsgrcvFails(d) \/ PrettyPrintMessage(d)

Next ==
  \/ \E p \in Processes : Fork(p) \/ LogMessage(p) \/ ProcessStep(p)
  \/ \E d \in Daemons : Start(d) \/ DaemonStep(d) \/ Kill(d) \/ Cleanup(d) \/ CleanupFails(d)

Spec == Init /\ [][Next]_vars

\* Processes and daemons run; nobody has to start, log, or end anything.
FairSpec ==
  /\ Spec
  /\ \A p \in Processes : WF_vars(ProcessStep(p))
  /\ \A d \in Daemons : WF_vars(DaemonStep(d))

-----------------------------------------------------------------------------
(* Properties.                                                             *)

Accepted == {m \in Processes \X (1 .. MaxLogs) : m[2] <= Len(results[m[1]]) /\ results[m[1]][m[2]] = 1}
Queued == UNION {ToSet(queues[id]) : id \in DOMAIN queues}
Shown == UNION {ToSet(screen[d]) : d \in Daemons}
InHand == {currentMsg[d] : d \in {e \in Daemons : dpc[e] = "print"}}

\* Each message is printed once at most: by one daemon, or by its own process when
\* logMessage returns -1 (logging.h: "1 on success, -1 on failure").
PrintedOnce ==
  /\ Shown \cap InHand = {} /\ Shown \cap Queued = {}
  /\ \A d, e \in Daemons : \A i \in DOMAIN screen[d], j \in DOMAIN screen[e] :
       screen[d][i] = screen[e][j] => d = e /\ i = j
  /\ \A m \in Shown : m[2] <= Len(results[m[1]]) => m \in Accepted

\* Unless a daemon was interrupted, and has removed the queue, a message accepted
\* is lost only in the hands of a daemon that was killed, one for each at most.
LostWithDaemonOnly ==
  (\A d \in Daemons : dpc[d] # "interrupted") =>
    Cardinality(Accepted \ (Queued \cup Shown \cup InHand))
      <= Cardinality({d \in Daemons : dpc[d] = "killed"})

\* A daemon prints the messages of each process in the order they were logged.
ShownInOrder ==
  \A d \in Daemons : \A i, j \in DOMAIN screen[d] :
    i < j /\ screen[d][i][1] = screen[d][j][1] => screen[d][i][2] < screen[d][j][2]

\* Logging never holds up a process: it returns with or without a daemon, however
\* full the queue is ("Don't block", logging.c:31).
LoggingReturns == \A p \in Processes : Logging(p) ~> ~ Logging(p)

\* A message accepted is printed, unless a daemon is killed with it in its hands,
\* the queue is removed, or there is no daemon left.
AcceptedAreShown ==
  \A m \in Processes \X (1 .. MaxLogs) :
    m \in Queued ~> \/ m \in Shown
                    \/ \E d \in Daemons : dpc[d] = "killed" /\ currentMsg[d] = m
                    \/ \E d \in Daemons : dpc[d] = "interrupted"
                    \/ \A d \in Daemons : ~ Running(d)
==============================================================================
