------------------------------- MODULE Addresses -------------------------------
(***************************************************************************)
(* The addresses of commWithSockets.c: the text of an address or a port is *)
(* the sequence of the numbers before the colon and the number after it,   *)
(* or <<>> and the number when there is no colon.                          *)
(***************************************************************************)
EXTENDS Integers, Sequences

\* The regular expression of getIPRegEx: a number and a dot, one to three times,
\* and a number; each from 0 to 255 without leading zeros.
checkIP(ip) == Len(ip) \in 2 .. 4 /\ \A i \in 1 .. Len(ip) : ip[i] \in 0 .. 255

\* getPortRegEx: zero, or two to five digits.
PortFormat(p) == p = 0 \/ p \in 10 .. 99999

\* in_port_t and unsigned short have 16 bits.
in_port_t(p) == p % 2^16

\* The number is truncated before it is compared.
checkPort(p) == PortFormat(p) /\ ~ in_port_t(p) > 65535

isValidPort(a) == a.ip = <<>> /\ checkPort(a.port)

isValidAddress(a) == checkIP(a.ip) /\ checkPort(a.port)

\* All four numbers have to be there.
inet_pton(ip) == Len(ip) = 4 /\ \A i \in 1 .. 4 : ip[i] \in 0 .. 255

\* initializeClient and createTCPSocketForClient, with a server that listens at
\* port p of the host with address here.  Asked for port zero, bind takes any
\* free one, which no client knows.
Reaches(a, here, p) ==
  /\ isValidAddress(a) /\ inet_pton(a.ip)
  /\ a.ip = here
  /\ in_port_t(a.port) = in_port_t(p)
  /\ in_port_t(p) # 0
==============================================================================
