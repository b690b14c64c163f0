------------------------------- MODULE Framing -------------------------------
(***************************************************************************)
(* Messages on streams of bytes: conn_send and conn_receive, which frame a *)
(* message with its length, on top of ensureWrite and ensureRead, which    *)
(* call write() and read() until all of it has gone (common/lib.c).  The   *)
(* database server and the forked servers do the same on their pipes.      *)
(***************************************************************************)
EXTENDS OrderData

CONSTANTS Links,     \* the streams
          Capacity   \* bytes that a stream holds

ASSUME FramingAssumption == Capacity \in Nat \ {0}

VARIABLES out,   \* what the calls of ensureWrite in progress still have to write
          pipe,  \* the bytes in the kernel
          in,    \* the bytes that conn_receive has read of the next message
          got    \* the last message it returned

linkVars == <<out, pipe, in, got>>

FramingInit ==
  /\ out = [l \in Links |-> <<>>]
  /\ pipe = [l \in Links |-> <<>>]
  /\ in = [l \in Links |-> <<>>]
  /\ got = [l \in Links |-> NULL]

Idle(l) == out[l] = <<>>

\* conn_send: nothing is sent of an empty message.
Send(l, data) ==
  /\ Idle(l)
  /\ out' = [out EXCEPT ![l] = IF data = <<>> THEN @ ELSE <<Bytes(Len(data), SizeT), data>>]

\* Mutant of Write: what write() did not take is dropped.
WriteOnce(l) ==
  /\ ~ Idle(l)
  /\ \E n \in 1 .. Len(Head(out[l])) :
       /\ Len(pipe[l]) + n <= Capacity
       /\ pipe' = [pipe EXCEPT ![l] = @ \o SubSeq(Head(out[l]), 1, n)]
       /\ out' = [out EXCEPT ![l] = Tail(@)]
  /\ UNCHANGED <<in, got>>

\* One round of the loop in ensureWrite: write() takes what it likes.
Write(l) ==
  /\ ~ Idle(l)
  /\ \E n \in 1 .. Len(Head(out[l])) :
       /\ Len(pipe[l]) + n <= Capacity
       /\ pipe' = [pipe EXCEPT ![l] = @ \o SubSeq(Head(out[l]), 1, n)]
       /\ out' = [out EXCEPT ![l] =
            IF n = Len(Head(@)) THEN Tail(@)
            ELSE <<SubSeq(Head(@), n + 1, Len(Head(@)))>> \o Tail(@)]
  /\ UNCHANGED <<in, got>>

\* How many bytes the call of ensureRead in progress has to reach.
Wanted(bytes) ==
  IF Len(bytes) < SizeT THEN SizeT ELSE SizeT + Value(bytes, 0, SizeT)

\* Mutant of Read: one read() has to give all that is wanted.
ReadWhole(l) ==
  LET n == Wanted(in[l]) - Len(in[l])
  IN  /\ n \in 1 .. Len(pipe[l])
      /\ in' = [in EXCEPT ![l] = @ \o SubSeq(pipe[l], 1, n)]
      /\ pipe' = [pipe EXCEPT ![l] = SubSeq(@, n + 1, Len(@))]
      /\ UNCHANGED <<out, got>>

\* One round of the loop in ensureRead: read() gives what it likes.
Read(l) ==
  /\ \E n \in 1 .. Len(pipe[l]) :
       /\ Len(in[l]) + n <= Wanted(in[l])
       /\ in' = [in EXCEPT ![l] = @ \o SubSeq(pipe[l], 1, n)]
       /\ pipe' = [pipe EXCEPT ![l] = SubSeq(@, n + 1, Len(@))]
  /\ UNCHANGED <<out, got>>

\* conn_receive has a message to return.
Received(l) == Len(in[l]) >= SizeT /\ Len(in[l]) = Wanted(in[l])
Message(l) == SubSeq(in[l], SizeT + 1, Len(in[l]))
Take(l) ==
  /\ Received(l)
  /\ in' = [in EXCEPT ![l] = <<>>]
  /\ got' = [got EXCEPT ![l] = Message(l)]

\* The writer ends.
Break(l) == out' = [out EXCEPT ![l] = <<>>]

-----------------------------------------------------------------------------
(* The bytes on their way, from the first to the last, are those of the    *)
(* messages that have been sent and not received; the last may be cut off. *)

OnTheWay(l) == in[l] \o pipe[l] \o FlattenSeq(out[l])

Messages[bytes \in Seq(Byte)] ==
  LET length == Value(bytes, 0, SizeT)
  IN  IF Len(bytes) >= SizeT /\ length \in 0 .. Len(bytes) - SizeT
        THEN <<SubSeq(bytes, SizeT + 1, SizeT + length)>>
               \o Messages[SubSeq(bytes, SizeT + length + 1, Len(bytes))]
        ELSE <<>>

Abstract == INSTANCE Channel WITH
  queue <- [l \in Links |-> Messages[OnTheWay(l)]], NoMessage <- NULL
==============================================================================
