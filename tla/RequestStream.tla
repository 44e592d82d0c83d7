---------------------------- MODULE RequestStream ----------------------------
(***************************************************************************)
(* What the server promises of requests: those of a connection are a       *)
(* stream of units, read once and in order, some at a time, and a request  *)
(* is executed when what is read starts with the whole of it, unless the   *)
(* memory is wanting.  Connections are served one after the other, each    *)
(* until all of its stream is read; only those that break lose the rest of *)
(* theirs, never what is in the middle, and a client may withdraw what it  *)
(* has not sent, once.                                                     *)
(***************************************************************************)
EXTENDS Naturals, Sequences

CONSTANTS Conn, Content, BufferSize, Nobody

VARIABLES
  stream,     \* what is still to be read of each connection
  serving,    \* the connection that is being served
  executed,   \* the requests executed for each
  denied,     \* those that memory was wanting for, to execute or to answer
  broken,     \* the connections that broke
  withdrawn   \* those whose client has given up

vars == <<stream, serving, executed, denied, broken, withdrawn>>

\* The request that s starts with is there from its first part to its last.
Whole(s) == {i \in 1..Len(s) : s[i][1] = s[1][1]} = 1..s[1][3]

Prefixes(s) == {SubSeq(s, 1, n) : n \in 0..Len(s)}

Init ==
  /\ stream = Content
  /\ serving = Nobody
  /\ executed = [c \in Conn |-> <<>>] /\ denied = [c \in Conn |-> {}]
  /\ broken = {} /\ withdrawn = {}

Serve(c) ==
  /\ serving = Nobody /\ serving' = c
  /\ UNCHANGED <<stream, executed, denied, broken, withdrawn>>

\* A request that was read whole is executed, or denied, or executed and denied an
\* answer.
Execute(c, r) ==
  /\ executed' \in {executed, [executed EXCEPT ![c] = Append(@, r)]}
  /\ denied' \in {denied, [denied EXCEPT ![c] = @ \cup {r}]}
  /\ executed' # executed \/ r \in denied'[c]

Read(c) ==
  /\ serving = c
  /\ \E n \in 1..Len(stream[c]) :
       LET read == SubSeq(stream[c], 1, n)
       IN  /\ n <= BufferSize
           /\ stream' = [stream EXCEPT ![c] = SubSeq(@, n + 1, Len(@))]
           /\ IF Whole(read) THEN Execute(c, read[1][1]) ELSE UNCHANGED <<executed, denied>>
  /\ UNCHANGED <<serving, broken, withdrawn>>

\* Some connections break, and those that have broken lose what is last.
Lose ==
  /\ broken \subseteq broken' /\ broken' \subseteq Conn
  /\ stream' = [c \in Conn |-> stream'[c]]
  /\ \A c \in Conn : stream'[c] \in IF c \in broken' THEN Prefixes(stream[c]) ELSE {stream[c]}
  /\ UNCHANGED <<serving, executed, denied, withdrawn>>

Withdraw(c) ==
  /\ c \notin withdrawn /\ withdrawn' = withdrawn \cup {c}
  /\ \E s \in Prefixes(stream[c]) : stream' = [stream EXCEPT ![c] = s]
  /\ UNCHANGED <<serving, executed, denied, broken>>

\* No connection is left with something to read, unless it broke.
Leave(c) ==
  /\ serving = c /\ serving' = Nobody
  /\ stream[c] = <<>> \/ c \in broken
  /\ stream' = [stream EXCEPT ![c] = <<>>]
  /\ UNCHANGED <<executed, denied, broken, withdrawn>>

Next == Lose \/ \E c \in Conn : Serve(c) \/ Read(c) \/ Withdraw(c) \/ Leave(c)

Spec == Init /\ [][Next]_vars
=============================================================================
