----------------------------- MODULE MCMainServer -----------------------------
(***************************************************************************)
(* Instances of MainServer for TLC.                                        *)
(***************************************************************************)
EXTENDS MainServer

\* Lines like those of configSkeleton, and others: a port of one digit, one beyond
\* 16 bits that comes out as 8000, an address cut short, a key nobody knows, "end=".
\* Over FIFOs all of them are names of files.
LocalHost == <<127, 0, 0, 1>>
MCKeys == {"server", "listening port"}
At(ip, port) == [ip |-> ip, port |-> port]
MCParams ==
  {<<"server", At(LocalHost, 8000)>>, <<"server", At(<<127, 1>>, 8000)>>, <<"server", At(<<>>, 8000)>>,
   <<"listening port", At(<<>>, 8000)>>, <<"listening port", At(<<>>, 73536)>>,
   <<"listening port", At(<<>>, 8)>>, <<"logging", At(<<>>, 1)>>, <<"end", At(<<>>, 1)>>}

\* fifos.conf
FifoParams == {<<key, At(<<>>, 1)>> : key \in MCKeys}
==============================================================================
