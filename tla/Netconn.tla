------------------------------- MODULE Netconn -------------------------------
(***************************************************************************)
(* How tcpip_thread brings what clients send to the netconns of the        *)
(* server: the end of tcp_input, tcp_process_refused_data and the          *)
(* callbacks of api_msg.c, with the clients at the other end.              *)
(*                                                                         *)
(* tcp_receive hands segments over in order and once, those that came too  *)
(* early together with the one they waited for; one that was dropped is    *)
(* sent again.  What a request says is of no interest here: a request is   *)
(* cut in units <<request, k, n>>, the k-th of its n parts, and a segment  *)
(* carries some.                                                           *)
(***************************************************************************)
EXTENDS Naturals, Sequences, FiniteSets, SequencesExt

CONSTANTS
  Conn,         \* the connections clients make
  Unit,         \* the units of their requests
  Script,       \* the segments each client sends
  MayReset,     \* the connections that may break
  MailboxSize,  \* DEFAULT_TCP_RECVMBOX_SIZE
  BacklogSize,  \* DEFAULT_ACCEPTMBOX_SIZE
  NULL

Segments == [data : Seq(Unit), push : BOOLEAN, fin : BOOLEAN, after : Nat]
Pbufs == [data : Seq(Unit) \ {<<>>}, push : BOOLEAN]
Mailboxes == Seq(Pbufs \cup {NULL})

\* A segment without data is a FIN, and after a FIN a client sends nothing.
Orderly(segments) ==
  \A i \in 1..Len(segments) :
    /\ segments[i].fin => i = Len(segments)
    /\ segments[i].data = <<>> => segments[i].fin

Requests == {u[1] : u \in Unit}

ASSUME NULLAssumption ==
  NULL \notin Conn \cup Segments \cup Pbufs \cup Mailboxes \cup Requests \cup Unit
ASSUME SizeAssumption == MailboxSize \in Nat \ {0} /\ BacklogSize \in Nat \ {0}
ASSUME ScriptAssumption ==
  /\ Script \in [Conn -> Seq(Segments)] /\ MayReset \subseteq Conn
  /\ \A c \in Conn : Orderly(Script[c])

VARIABLES
  pcb,           \* "none" before the connection is made, "open", "gone"
  last_err,      \* "ok", or what ERR_IS_FATAL holds of: "closed", "reset"
  recvmbox,      \* pbufs, NULL for the end; NULL itself when not valid
  refused_data,  \* the segment recv_tcp had no room for, or NULL
  listening,     \* the listening netconn has a pcb
  acceptmbox,    \* and the connections it has for accept
  to_send,       \* client: the segments not yet handed over
  got,           \* client: what came back
  gave_up,       \* history: the clients that gave up waiting
  joined         \* history: the units handed over behind another segment's

channel == <<pcb, last_err, recvmbox, refused_data>>
history == <<gave_up, joined>>
clients == <<to_send, got, history>>
netconnVars == <<channel, listening, acceptmbox, clients>>

Fatal(c) == last_err[c] # "ok"
Valid(mbox) == mbox # NULL

-----------------------------------------------------------------------------
(* The clients *)

\* The end of an answer counts as the answer.
Answered(c) == Cardinality({i \in DOMAIN got[c] : got[c][i][1] = "body"})

\* A client sends its next segment when it has the answers it waits for.
Sends(c) == to_send[c] # <<>> /\ Answered(c) >= to_send[c][1].after

\* One that has waited in vain for an answer to what was read closes.
GiveUp(c) ==
  /\ pcb[c] = "open" /\ to_send[c] # <<>> /\ ~Sends(c)
  /\ refused_data[c] = NULL /\ recvmbox[c] = <<>>
  /\ to_send' = [to_send EXCEPT ![c] =
       <<[data |-> <<>>, push |-> FALSE, fin |-> TRUE, after |-> 0]>>]
  /\ gave_up' = gave_up \cup {c}
  /\ UNCHANGED <<channel, listening, acceptmbox, got, joined>>

Tell(c, x) == [got EXCEPT ![c] = Append(@, x)]

-----------------------------------------------------------------------------
(* tcpip_thread *)

\* sys_mbox_trypost; the callers that may ignore the result do.
Trypost(mbox, m) ==
  IF Valid(mbox) /\ Len(mbox) < MailboxSize THEN Append(mbox, m) ELSE mbox

Pbuf(segment) == [data |-> segment.data, push |-> segment.push]

\* A netconn's mailbox and what it refused.
Side(mbox, refused) == [mbox |-> mbox, refused |-> refused]

\* Mutant of Hand: the end is told before the data that was refused.
HandEndFirst(mbox, segment) ==
  LET mbox2 == IF segment.fin THEN Trypost(mbox, NULL) ELSE mbox
  IN  IF Len(mbox2) < MailboxSize THEN Side(Append(mbox2, Pbuf(segment)), NULL)
                                  ELSE Side(mbox2, segment)

\* recv_tcp gets the data and, if there was room, the end: when there is
\* none for the end nobody remembers it.
Hand(mbox, segment) ==
  IF Len(mbox) < MailboxSize
    THEN LET mbox2 == Append(mbox, Pbuf(segment))
         IN  Side(IF segment.fin THEN Trypost(mbox2, NULL) ELSE mbox2, NULL)
    ELSE Side(mbox, segment)

tcp_process_refused_data(side) ==
  IF side.refused = NULL THEN side ELSE Hand(side.mbox, side.refused)

\* Mutant of tcp_input: new data goes before what was refused.
InputOvertakes(side, segment) ==
  IF segment.data = <<>> THEN Side(Trypost(side.mbox, NULL), side.refused)
  ELSE IF Len(side.mbox) < MailboxSize
    THEN Side(Hand(side.mbox, segment).mbox, side.refused)
    ELSE side

tcp_input(side, segment) ==
  LET mbox == tcp_process_refused_data(side).mbox
  IN  IF segment.data = <<>> THEN Side(Trypost(mbox, NULL), NULL)
                             ELSE Hand(mbox, segment)

\* Data that was refused and still is has a new segment dropped.
Accepts(c) ==
  tcp_process_refused_data(Side(recvmbox[c], refused_data[c])).refused = NULL

Becomes(c, side) ==
  /\ recvmbox' = [recvmbox EXCEPT ![c] = side.mbox]
  /\ refused_data' = [refused_data EXCEPT ![c] = side.refused]

Deliver(c) ==
  /\ pcb[c] = "open" /\ Valid(recvmbox[c])
  /\ Sends(c) /\ Accepts(c)
  /\ Becomes(c, tcp_input(Side(recvmbox[c], refused_data[c]), to_send[c][1]))
  /\ to_send' = [to_send EXCEPT ![c] = Tail(@)]
  /\ UNCHANGED <<pcb, last_err, listening, acceptmbox, got, history>>

\* What tcp_receive makes of a segment and the next, which waited in ooseq: one
\* delivery, with the push of the first.
Chain(s, next) ==
  [data |-> s.data \o next.data, push |-> s.push, fin |-> next.fin, after |-> s.after]

\* A segment comes before the one it follows, which the network delays or which was
\* dropped for refused data; they will be handed over together.
QueueOoseq(c) ==
  LET s == to_send[c][1]
      next == to_send[c][2]
  IN  /\ pcb[c] = "open" /\ Valid(recvmbox[c])
      /\ Sends(c) /\ Len(to_send[c]) > 1 /\ Answered(c) >= next.after
      /\ Accepts(c)
      /\ Becomes(c, tcp_process_refused_data(Side(recvmbox[c], refused_data[c])))
      /\ to_send' = [to_send EXCEPT ![c] = <<Chain(s, next)>> \o Tail(Tail(@))]
      /\ joined' = [joined EXCEPT ![c] = @ \cup ToSet(next.data)]
      /\ UNCHANGED <<pcb, last_err, listening, acceptmbox, got, gave_up>>

\* Mutant of tcp_fasttmr: refused data waits for the next segment.
FasttmrForgets(c) == FALSE /\ UNCHANGED netconnVars

tcp_fasttmr(c) ==
  /\ pcb[c] = "open" /\ refused_data[c] # NULL /\ Valid(recvmbox[c])
  /\ Accepts(c)
  /\ Becomes(c, tcp_process_refused_data(Side(recvmbox[c], refused_data[c])))
  /\ UNCHANGED <<pcb, last_err, listening, acceptmbox, clients>>

\* The handshake is complete: accept_function.
Establish(c) ==
  /\ pcb[c] = "none" /\ listening
  /\ Len(acceptmbox) < BacklogSize
  /\ pcb' = [pcb EXCEPT ![c] = "open"]
  /\ recvmbox' = [recvmbox EXCEPT ![c] = <<>>]
  /\ acceptmbox' = Append(acceptmbox, c)
  /\ UNCHANGED <<last_err, refused_data, listening, clients>>

\* No listener, no room in acceptmbox or no memory for a netconn.
Refuse(c) ==
  /\ pcb[c] = "none"
  /\ pcb' = [pcb EXCEPT ![c] = "gone"]
  /\ got' = Tell(c, <<"rst">>)
  /\ UNCHANGED <<last_err, recvmbox, refused_data, listening, acceptmbox, to_send, history>>

\* err_tcp, for connections that a RST of the client, keepalive or too many
\* retransmissions end, or tcp_alloc to make room for another.
Break(broken) ==
  /\ pcb' = [c \in Conn |-> IF c \in broken THEN "gone" ELSE pcb[c]]
  /\ last_err' = [c \in Conn |-> IF c \in broken THEN "reset" ELSE last_err[c]]
  /\ refused_data' = [c \in Conn |-> IF c \in broken THEN NULL ELSE refused_data[c]]
  /\ to_send' = [c \in Conn |-> IF c \in broken THEN <<>> ELSE to_send[c]]
  /\ got' = [c \in Conn |-> IF c \in broken THEN Append(got[c], <<"rst">>) ELSE got[c]]

err_tcp(c) ==
  /\ c \in MayReset /\ pcb[c] = "open"
  /\ Break({c})
  /\ recvmbox' = [recvmbox EXCEPT ![c] = Trypost(@, NULL)]
  /\ UNCHANGED <<listening, acceptmbox, history>>

-----------------------------------------------------------------------------
NetconnInit ==
  /\ pcb = [c \in Conn |-> "none"]
  /\ last_err = [c \in Conn |-> "ok"]
  /\ recvmbox = [c \in Conn |-> NULL]
  /\ refused_data = [c \in Conn |-> NULL]
  /\ listening = TRUE /\ acceptmbox = <<>>
  /\ to_send = Script
  /\ got = [c \in Conn |-> <<>>]
  /\ gave_up = {} /\ joined = [c \in Conn |-> {}]

Network(c) ==
  \/ Deliver(c) \/ QueueOoseq(c) \/ tcp_fasttmr(c)
  \/ Establish(c) \/ Refuse(c) \/ err_tcp(c) \/ GiveUp(c)
=============================================================================
