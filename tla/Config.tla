-------------------------------- MODULE Config --------------------------------
(***************************************************************************)
(* Reading the configuration file (common/config.c): setup() opens it and  *)
(* runs an automaton over its lines.  q0 waits for a section, q1 for the   *)
(* lines of the section, q2 to q5 each store one value and go back.        *)
(*                                                                         *)
(* The file is decided line by line as it is read.  A line is what the two *)
(* regular expressions and the comparisons of the automaton tell apart.    *)
(***************************************************************************)
EXTENDS Integers, Sequences

CONSTANTS Keys,     \* the keys the automaton knows
          Params,   \* the <<key, value>> pairs the file may hold
          Unset,    \* what malloc left in a field nobody wrote
          MaxLines  \* bound: lines of a file

ASSUME ConfigAssumption ==
  /\ "end" \notin Keys
  /\ \A kv \in Params : kv[2] # Unset
  /\ MaxLines \in Nat

VARIABLES q,       \* parser->actualState
          config,  \* the fields of struct addresses_t
          text,    \* the lines read so far
          setup    \* "reading", or what setup() returned: "config", "NULL"

configVars == <<q, config, text, setup>>

\* isSectionTag: "[addresses]" and others; isParam: a key, an equals sign and a
\* value; "end"; the empty line; and everything else, "end" and the tags with
\* blanks after them included, because only what leads is trimmed.
Line(kind) == [kind |-> kind]
Param(kv)  == [kind |-> "param", key |-> kv[1], value |-> kv[2]]
Lines == {Line(k) : k \in {"[addresses]", "[tag]", "", "end", "junk"}} \cup {Param(kv) : kv \in Params}

-----------------------------------------------------------------------------
Stay == UNCHANGED <<q, config, setup>>

\* An action function returned -1.
Reject == setup' = "NULL" /\ UNCHANGED <<q, config>>

moveTo(state) == q' = state /\ UNCHANGED <<config, setup>>

\* openConfigFile
OpenFails ==
  /\ setup = "reading" /\ text = <<>> /\ q = "q0"
  /\ setup' = "NULL"
  /\ UNCHANGED <<q, config, text>>

\* readLine
ReadLine(line) ==
  /\ setup = "reading" /\ Len(text) < MaxLines
  /\ text' = Append(text, line)

q0Action(line) ==
  /\ q = "q0" /\ ReadLine(line)
  /\ \/ line.kind = "[addresses]" /\ moveTo("q1")
     \/ line.kind = "" /\ Stay
     \/ line.kind \notin {"[addresses]", ""} /\ Reject

\* q2Action to q5Action, and back to q1: the value without leading blanks.
StoreValue(key, value) ==
  /\ config' = [config EXCEPT ![key] = value]
  /\ UNCHANGED <<q, setup>>

\* Mutant of q1Action: an unknown key ends the section.
q1ActionStrict(line) ==
  /\ q = "q1" /\ ReadLine(line)
  /\ \/ line.kind = "end" /\ moveTo("q0")
     \/ line.kind = "param" /\ line.key \in Keys /\ StoreValue(line.key, line.value)
     \/ line.kind = "param" /\ line.key \notin Keys /\ moveTo("q0")
     \/ line.kind = "" /\ Stay
     \/ line.kind \notin {"end", "param", ""} /\ Reject

\* A key nobody knows is passed over in silence; "end" is an arc of q1 like the
\* keys, so that "end=..." ends the section too.
q1Action(line) ==
  /\ q = "q1" /\ ReadLine(line)
  /\ \/ line.kind = "end" /\ moveTo("q0")
     \/ line.kind = "param" /\ line.key = "end" /\ moveTo("q0")
     \/ line.kind = "param" /\ line.key \in Keys /\ StoreValue(line.key, line.value)
     \/ line.kind = "param" /\ line.key \notin Keys \cup {"end"} /\ Stay
     \/ line.kind = "" /\ Stay
     \/ line.kind \notin {"end", "param", ""} /\ Reject

\* feof: only q0 is final.  fclose forgets the rest of the file.
EndOfFile ==
  /\ setup = "reading"
  /\ setup' = IF q = "q0" THEN "config" ELSE "NULL"
  /\ UNCHANGED <<q, config, text>>

ConfigInit ==
  /\ q = "q0"
  /\ config = [k \in Keys |-> Unset]
  /\ text = <<>>
  /\ setup = "reading"

ConfigNext ==
  \/ OpenFails \/ EndOfFile
  \/ \E line \in Lines : q0Action(line) \/ q1Action(line)

ConfigSpec == ConfigInit /\ [][ConfigNext]_configVars
==============================================================================
