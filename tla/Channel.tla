------------------------------- MODULE Channel -------------------------------
(***************************************************************************)
(* What conn_send and conn_receive promise on each link: messages arrive   *)
(* whole, once and in order; one that was being sent when its sender ended *)
(* may be lost.  A process may receive from one link as it sends on        *)
(* another.                                                                *)
(***************************************************************************)
EXTENDS Integers, Sequences

CONSTANTS Links, NoMessage
VARIABLES queue, got

Init ==
  /\ queue = [l \in Links |-> <<>>]
  /\ got = [l \in Links |-> NoMessage]

\* The message is the last of the queue that the step leaves.
Send(l) ==
  /\ queue'[l] # <<>>
  /\ queue'[l] = Append(queue[l], queue'[l][Len(queue'[l])])
  /\ got'[l] = got[l]

Receive(l) ==
  /\ queue[l] # <<>>
  /\ got'[l] = Head(queue[l])
  /\ queue'[l] = Tail(queue[l])

LoseLast(l) ==
  /\ queue[l] # <<>>
  /\ queue'[l] = SubSeq(queue[l], 1, Len(queue[l]) - 1)
  /\ got'[l] = got[l]

Rest(l) == queue'[l] = queue[l] /\ got'[l] = got[l]

Spec ==
  /\ Init
  /\ [][\A l \in Links : Send(l) \/ Receive(l) \/ LoseLast(l) \/ Rest(l)]_<<queue, got>>
==============================================================================
