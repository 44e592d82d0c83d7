------------------------------ MODULE TcpServer ------------------------------
(***************************************************************************)
(* tcp_server_task: it accepts one connection at a time, reads requests    *)
(* into rx_buffer, has json_wp execute them and sends the answers, through *)
(* sockets.c and api_lib.c.  Each step is up to the next thing the task    *)
(* shares with tcpip_thread: the test of last_err, a fetch from a mailbox, *)
(* a message to tcpip_thread.                                              *)
(***************************************************************************)
EXTENDS Netconn

CONSTANTS
  BufferSize,   \* the units rx_buffer has room for: 1023 bytes
  Nested        \* the units with which an object within a request begins

ASSUME BufferAssumption == BufferSize \in Nat \ {0}
ASSUME NestedAssumption == Nested \subseteq {u \in Unit : u[2] # 1}

VARIABLES
  server,      \* where tcp_server_task is
  sock,        \* the connection it serves, or NULL
  rx_buffer,
  lastdata,    \* sock->lastdata from lastoffset on, or NULL
  request,     \* the unit that began what is being answered
  executed,    \* the requests of each connection that json_wp has executed
  replies,     \* the units that began what it made answers to
  unanswered   \* the requests it found no memory for, to parse or to answer

task == <<server, sock, rx_buffer, lastdata, request, executed, replies,
          unanswered>>
vars == <<netconnVars, task>>

-----------------------------------------------------------------------------
(* accept *)

netconn_accept ==
  /\ server = "accept" /\ acceptmbox # <<>>
  /\ acceptmbox' = Tail(acceptmbox)
  /\ sock' = Head(acceptmbox) /\ server' = "peer"
  /\ UNCHANGED <<channel, listening, clients, rx_buffer, lastdata, request,
                 executed, replies, unanswered>>

\* Without a pcb the connection has no peer, accept fails, and the task
\* breaks out of its loop.
do_getaddr ==
  /\ server = "peer"
  /\ IF pcb[sock] = "open"
       THEN /\ server' = "recv"
            /\ UNCHANGED <<recvmbox, sock>>
       ELSE /\ server' = "clean_up" /\ sock' = NULL
            /\ recvmbox' = [recvmbox EXCEPT ![sock] = NULL]
  /\ UNCHANGED <<pcb, last_err, refused_data, listening, acceptmbox, clients,
                 rx_buffer, lastdata, request, executed, replies, unanswered>>

\* The listening socket takes the connections in its mailbox with it.
CleanUp ==
  /\ server = "clean_up"
  /\ Break({c \in ToSet(acceptmbox) : pcb[c] = "open"}) /\ UNCHANGED history
  /\ recvmbox' = [c \in Conn |-> IF c \in ToSet(acceptmbox) THEN NULL ELSE recvmbox[c]]
  /\ acceptmbox' = <<>> /\ listening' = FALSE
  /\ server' = "deleted"
  /\ UNCHANGED <<sock, rx_buffer, lastdata, request, executed, replies, unanswered>>

-----------------------------------------------------------------------------
(* recv *)

\* recv has nothing to wait for any more: it returns what it has read.
Ended ==
  /\ server' = IF rx_buffer = <<>> THEN "shutdown" ELSE "json_wp"
  /\ UNCHANGED rx_buffer

Fits(data) == IF Len(data) < BufferSize THEN Len(data) ELSE BufferSize

\* Mutant of Copy: recv goes on until the buffer is full.
CopyOn(p, mbox) ==
  LET data == rx_buffer \o p.data
      rest == SubSeq(data, Fits(data) + 1, Len(data))
  IN  /\ rx_buffer' = SubSeq(data, 1, Fits(data))
      /\ lastdata' = IF rest = <<>> THEN NULL ELSE [p EXCEPT !.data = rest]
      /\ server' = IF Len(data) >= BufferSize \/ mbox = <<>> THEN "json_wp" ELSE "recv"

\* Mutant of Copy: what did not fit is freed with the pbuf.
CopyForgets(p, mbox) ==
  LET data == rx_buffer \o p.data
      done == Len(data) >= BufferSize \/ p.push \/ (mbox = <<>> /\ ~Fatal(sock))
  IN  /\ rx_buffer' = SubSeq(data, 1, Fits(data))
      /\ lastdata' = NULL
      /\ server' = IF done THEN "json_wp" ELSE "recv"

\* What fits is copied; recv is done when the buffer is full, after a pushed
\* pbuf and when no event is left.
Copy(p, mbox) ==
  LET data == rx_buffer \o p.data
      rest == SubSeq(data, Fits(data) + 1, Len(data))
      done == Len(data) >= BufferSize \/ p.push \/ (mbox = <<>> /\ ~Fatal(sock))
  IN  /\ rx_buffer' = SubSeq(data, 1, Fits(data))
      /\ lastdata' = IF rest = <<>> THEN NULL ELSE [p EXCEPT !.data = rest]
      /\ server' = IF done THEN "json_wp" ELSE "recv"

RecvRest ==
  /\ server = "recv" /\ lastdata # NULL
  /\ Copy(lastdata, recvmbox[sock])
  /\ UNCHANGED <<netconnVars, sock, request, executed, replies, unanswered>>

\* Mutant of TestError: the mailbox alone says whether there is more.
TestNothing ==
  /\ server = "recv" /\ lastdata = NULL
  /\ server' = "fetch"
  /\ UNCHANGED <<netconnVars, rx_buffer, sock, lastdata, request, executed, replies, unanswered>>

TestError ==
  /\ server = "recv" /\ lastdata = NULL
  /\ IF Fatal(sock) THEN Ended ELSE server' = "fetch" /\ UNCHANGED rx_buffer
  /\ UNCHANGED <<netconnVars, sock, lastdata, request, executed, replies, unanswered>>

Fetch ==
  /\ server = "fetch" /\ recvmbox[sock] # <<>>
  /\ LET p == Head(recvmbox[sock])  mbox == Tail(recvmbox[sock])
     IN  /\ recvmbox' = [recvmbox EXCEPT ![sock] = mbox]
         /\ IF p = NULL
              THEN /\ last_err' = [last_err EXCEPT ![sock] = IF @ = "ok" THEN "closed" ELSE @]
                   /\ Ended /\ UNCHANGED lastdata
              ELSE Copy(p, mbox) /\ UNCHANGED last_err
  /\ UNCHANGED <<pcb, refused_data, listening, acceptmbox, clients,
                 sock, request, executed, replies, unanswered>>

-----------------------------------------------------------------------------
(* The request and its answer *)

\* json_parse_string takes the object the buffer starts with, if whole, and
\* does not look at what follows it: a request, or an object within one.
Parsed(buffer) ==
  LET r == buffer[1][1]  n == buffer[1][3]
  IN  IF Len(buffer) >= n /\ \A k \in 1..n : buffer[k] = <<r, k, n>> THEN r ELSE NULL

Parses(buffer) == Parsed(buffer) # NULL \/ buffer[1] \in Nested

Deny(r) ==
  unanswered' = IF r = NULL THEN unanswered
                ELSE [unanswered EXCEPT ![sock] = @ \cup {r}]

\* Not an object, or no memory to parse it: nothing is executed.
NotParsed ==
  /\ server' = "recv" /\ Deny(Parsed(rx_buffer))
  /\ UNCHANGED <<request, executed, replies>>

\* Mutant of Execute: the length is kept when there is no buffer.
ExecuteKeepsLength ==
  LET r == Parsed(rx_buffer)
  IN  /\ Parses(rx_buffer)
      /\ executed' = IF r = NULL THEN executed
                     ELSE [executed EXCEPT ![sock] = Append(@, r)]
      /\ server' = "header" /\ request' = rx_buffer[1]
      /\ \/ /\ replies' = [replies EXCEPT ![sock] = Append(@, rx_buffer[1])]
            /\ UNCHANGED unanswered
         \/ Deny(r) /\ UNCHANGED replies

\* Only a request has commands; they run before the memory for the answer is asked
\* for.
Execute ==
  LET r == Parsed(rx_buffer)
  IN  /\ Parses(rx_buffer)
      /\ executed' = IF r = NULL THEN executed
                     ELSE [executed EXCEPT ![sock] = Append(@, r)]
      /\ \/ /\ server' = "header" /\ request' = rx_buffer[1]
            /\ replies' = [replies EXCEPT ![sock] = Append(@, rx_buffer[1])]
            /\ UNCHANGED unanswered
         \/ /\ server' = "recv" /\ UNCHANGED <<request, replies>>
            /\ Deny(r)

json_wp ==
  /\ server = "json_wp" /\ (NotParsed \/ Execute)
  /\ rx_buffer' = <<>>
  /\ UNCHANGED <<netconnVars, sock, lastdata>>

\* do_write refuses when last_err is fatal, or the pcb gone.
Write(x) ==
  IF pcb[sock] = "open" /\ ~Fatal(sock) THEN got' = Tell(sock, x) ELSE UNCHANGED got

Send(at, next) ==
  /\ server = at /\ server' = next
  /\ Write(<<at, request>>)
  /\ UNCHANGED <<channel, listening, acceptmbox, to_send, history,
                 sock, rx_buffer, lastdata, executed, replies, unanswered>>

SendHeader == Send("header", "body") /\ UNCHANGED request
SendBody == Send("body", "recv") /\ request' = NULL

-----------------------------------------------------------------------------
(* shutdown and close *)

do_close ==
  /\ server = "shutdown" /\ server' = "close"
  /\ IF pcb[sock] = "open"
       THEN Becomes(sock, Side(NULL, NULL))
       ELSE UNCHANGED <<recvmbox, refused_data>>
  /\ UNCHANGED <<pcb, last_err, listening, acceptmbox, clients,
                 sock, rx_buffer, lastdata, request, executed, replies, unanswered>>

do_delconn ==
  /\ server = "close" /\ server' = "accept"
  /\ recvmbox' = [recvmbox EXCEPT ![sock] = NULL]
  /\ IF pcb[sock] = "open"
       THEN pcb' = [pcb EXCEPT ![sock] = "gone"] /\ got' = Tell(sock, <<"fin">>)
       ELSE UNCHANGED <<pcb, got>>
  /\ sock' = NULL /\ lastdata' = NULL
  /\ UNCHANGED <<last_err, refused_data, listening, acceptmbox, to_send, history,
                 rx_buffer, request, executed, replies, unanswered>>

-----------------------------------------------------------------------------
Init ==
  /\ NetconnInit
  /\ server = "accept" /\ sock = NULL
  /\ rx_buffer = <<>> /\ lastdata = NULL /\ request = NULL
  /\ executed = [c \in Conn |-> <<>>]
  /\ replies = [c \in Conn |-> <<>>]
  /\ unanswered = [c \in Conn |-> {}]

ServerTask ==
  \/ netconn_accept \/ do_getaddr \/ CleanUp
  \/ RecvRest \/ TestError \/ Fetch
  \/ json_wp \/ SendHeader \/ SendBody
  \/ do_close \/ do_delconn

Next == ServerTask \/ (\E c \in Conn : Network(c) /\ UNCHANGED task)

Spec == Init /\ [][Next]_vars

\* TCP sends again what was dropped, the fast timer runs for ever, and the
\* server's priority is only below the tasks of the stack, which block.  What
\* a host has forgotten keepalive ends, after two hours.
Fairness ==
  /\ WF_vars(ServerTask)
  /\ \A c \in Conn :
       /\ WF_vars(Deliver(c) /\ UNCHANGED task)
       /\ WF_vars(tcp_fasttmr(c) /\ UNCHANGED task)
       /\ WF_vars(GiveUp(c) /\ UNCHANGED task)
       /\ WF_vars(to_send[c] = <<>> /\ err_tcp(c) /\ UNCHANGED task)

FairSpec == Spec /\ Fairness

-----------------------------------------------------------------------------
(* What is still to be read of each connection: what recv has of it and    *)
(* what is on the way, in the mailbox, in the pcb and at the client.       *)
Data(p) == IF p = NULL THEN <<>> ELSE p.data
Joined(s) == FlattenSeq([i \in DOMAIN s |-> Data(s[i])])

Content == [c \in Conn |-> Joined(Script[c])]

\* A client sends a request once, its parts together and in order.
ASSUME ContentAssumption ==
  \A c \in Conn : \A p \in DOMAIN Content[c] :
    LET r == Content[c][p][1]  n == Content[c][p][3]
    IN  /\ n \in Nat
        /\ \E at \in 0..Len(Content[c]) : \A q \in DOMAIN Content[c] :
             IF q \in at + 1 .. at + n THEN Content[c][q] = <<r, q - at, n>>
                                      ELSE Content[c][q][1] # r

InMailbox(c) == IF Valid(recvmbox[c]) THEN Joined(recvmbox[c]) ELSE <<>>
Ahead(c) == IF sock = c THEN rx_buffer \o Data(lastdata) ELSE <<>>
Coming(c) == InMailbox(c) \o Data(refused_data[c]) \o Joined(to_send[c])

Stream == [c \in Conn |-> Ahead(c) \o Coming(c)]
Served == IF server \in {"accept", "peer", "clean_up", "deleted"} THEN NULL ELSE sock

Abstract == INSTANCE RequestStream WITH
  Nobody <- NULL, stream <- Stream, serving <- Served, denied <- unanswered,
  broken <- {c \in Conn : last_err[c] = "reset"}, withdrawn <- gave_up

(* tcp_server.c, tcp_in.c and sockets.c between them pass on what clients  *)
(* send as RequestStream says.                                             *)
ImplementsStream == Abstract!Spec

-----------------------------------------------------------------------------
TypeOK ==
  /\ pcb \in [Conn -> {"none", "open", "gone"}]
  /\ last_err \in [Conn -> {"ok", "closed", "reset"}]
  /\ recvmbox \in [Conn -> Mailboxes \cup {NULL}]
  /\ refused_data \in [Conn -> Segments \cup {NULL}]
  /\ to_send \in [Conn -> Seq(Segments)]
  /\ acceptmbox \in Seq(Conn)
  /\ server \in {"accept", "peer", "clean_up", "deleted", "recv", "fetch",
                 "json_wp", "header", "body", "shutdown", "close"}
  /\ sock \in Conn \cup {NULL}
  /\ rx_buffer \in Seq(Unit) /\ lastdata \in Pbufs \cup {NULL}

\* The way of one client's data: the end comes last and once.
InOrder(mbox, refused, rest) ==
  /\ Len(mbox) <= MailboxSize
  /\ Orderly(rest)
  /\ \A i \in 1..Len(mbox) :
       mbox[i] = NULL => i = Len(mbox) /\ refused = NULL /\ rest = <<>>
  /\ refused # NULL => refused.data # <<>> /\ (refused.fin => rest = <<>>)

Waiting(c) == \E i \in 1..Len(acceptmbox) : acceptmbox[i] = c

\* A connection is in one place, from its handshake to do_delconn.
Placed(c) ==
  /\ pcb[c] = "open" => (Waiting(c) \/ c = sock) /\ last_err[c] # "reset"
  /\ Waiting(c) => c # sock /\ Valid(recvmbox[c]) /\ last_err[c] # "closed"
  /\ Waiting(c) \/ c = sock => pcb[c] = "open" \/ last_err[c] = "reset"
  /\ pcb[c] = "none" =>
       last_err[c] = "ok" /\ recvmbox[c] = NULL /\ refused_data[c] = NULL
  /\ refused_data[c] # NULL => pcb[c] = "open"

\* When the server is told that a client has sent everything, it has read it.
AllRead(c) ==
  recvmbox[c] \in {<<>>, NULL} /\ refused_data[c] = NULL /\ to_send[c] = <<>>

ConnInv(c) ==
  /\ Valid(recvmbox[c]) => Len(recvmbox[c]) <= MailboxSize
  /\ pcb[c] = "open" /\ Valid(recvmbox[c]) =>
       InOrder(recvmbox[c], refused_data[c], to_send[c])
  /\ last_err[c] = "closed" => AllRead(c)
  /\ Orderly(to_send[c])
  /\ Placed(c)

TaskInv ==
  /\ \A i, j \in 1..Len(acceptmbox) : acceptmbox[i] = acceptmbox[j] => i = j
  /\ sock = NULL <=> server \in {"accept", "clean_up", "deleted"}
  /\ sock # NULL /\ server # "close" => Valid(recvmbox[sock])
  /\ server \in {"shutdown", "close"} => Fatal(sock)
  /\ server = "peer" => last_err[sock] # "closed"
  /\ server = "json_wp" => rx_buffer # <<>>
  /\ server = "fetch" /\ Fatal(sock) => recvmbox[sock] # <<>>

(* The end of a connection overtakes nothing: whatever the mailbox refused *)
(* and whenever it was tried again, recv reports the end when everything   *)
(* has been read, so the server closes no connection on unread requests;   *)
(* and a connection waits in one place only.                               *)
ServerInv == TypeOK /\ (\A c \in Conn : ConnInv(c)) /\ TaskInv

(* The server never sleeps on an empty mailbox of a connection that broke: *)
(* err_tcp may find no room for its NULL and netconn_recv_data tests       *)
(* last_err before it fetches, not after.                                  *)
NeverStranded ==
  server = "fetch" /\ Fatal(sock) => recvmbox[sock] # <<>>

Frame(s, i) == <<IF i % 2 = 1 THEN "header" ELSE "body", s[(i + 1) \div 2]>>
Frames(c) == [i \in 1 .. 2 * Len(replies[c]) |-> Frame(replies[c], i)]
Ends == {<<"rst">>, <<"fin">>}

\* What came back but for the end of the connection.
Sent(c) ==
  IF got[c] # <<>> /\ Last(got[c]) \in Ends THEN Front(got[c]) ELSE got[c]

(* What a client gets is a header and a body for each object that was      *)
(* parsed and had the memory, in order, all of them while its connection   *)
(* lasts, and nothing after its end: do_retransmit ignores the result of   *)
(* the header's send and goes on after a body's that failed.               *)
AnswersFramed ==
  \A c \in Conn :
    /\ IsPrefix(Sent(c), Frames(c))
    /\ last_err[c] = "ok" /\ ~(c = sock /\ server \in {"header", "body"}) =>
         Sent(c) = Frames(c)

\* Each request whole, in a segment of its own that ends in a push, and sent
\* without waiting for answers.
PlainData(data) == data = <<<<data[1][1], 1, 1>>>>
PlainSegment(s) == s.data # <<>> => PlainData(s.data) /\ s.push /\ s.after = 0
Plain(c) == \A i \in DOMAIN Script[c] : PlainSegment(Script[c][i])

(* A client that sends each request in a pushed segment and does not wait  *)
(* has, when the server closes, the answer to every one it has sent,       *)
(* whatever was refused on the way, but for those the memory did not       *)
(* suffice for and those that came before the one they follow.             *)
AllAnswered ==
  \A c \in Conn :
    Plain(c) /\ <<"fin">> \in ToSet(got[c]) =>
      \A s \in ToSet(Script[c]) :
        \/ s.data = <<>>
        \/ <<"body", s.data[1]>> \in ToSet(got[c])
        \/ s.data[1][1] \in unanswered[c] \/ s.data[1] \in joined[c]

(* A connection that is made ends: the client that has sent what it had is *)
(* told, and the next one is served.                                       *)
ConnectionsEnd == \A c \in Conn : []<>(pcb[c] # "open")
=============================================================================
