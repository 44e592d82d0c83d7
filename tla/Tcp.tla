--------------------------------- MODULE Tcp ---------------------------------
(***************************************************************************)
(* One connection of the server: tcp_input, tcp_tmr and the calls of the   *)
(* netconn above at this end, a TCP that keeps to the protocol at the      *)
(* other, and between them a network that may lose, repeat and reorder.    *)
(*                                                                         *)
(* Everything tcpip_thread does is a step of its own: a segment, a timer,  *)
(* a call.  A handler gathers the packets it makes in `sent`; they go to   *)
(* the network when it has done.                                           *)
(*                                                                         *)
(* A scenario says what is sent and how the other end behaves:             *)
(*   in, out   units of the client's requests and of the server's answer   *)
(*   ask       the server answers when it has read as many                 *)
(*   iss, peerIss   the initial sequence numbers                           *)
(*   wnd       the receive buffer of the client                            *)
(*   early     the client closes without waiting for the answer            *)
(*   faults, mishaps   how many mishaps there are at most, and of which    *)
(*             kinds: segments lost, repeated or overtaken, a timer that   *)
(*             runs out too soon, no memory for a write, a client that dies*)
(***************************************************************************)
EXTENDS TcpIn
LOCAL INSTANCE SequencesExt

CONSTANTS
  Scenarios,
  MboxSize,     \* DEFAULT_TCP_RECVMBOX_SIZE
  ChannelMax    \* segments of the client under way at once

ASSUME MboxAssumption == MboxSize \in Nat \ {0} /\ ChannelMax \in Nat \ {0}

VARIABLES
  sc,      \* the scenario
  pcb,     \* Listening, a pcb, or Closed when it was freed
  app,     \* the netconn and the task that serves it
  peer,    \* the client
  toHost,  \* segments on their way
  toPeer,
  faults   \* how many there have been

vars == <<sc, pcb, app, peer, toHost, toPeer, faults>>

Listening == [state |-> "LISTEN"]
Closed == [state |-> "CLOSED"]
Open == pcb.state \notin {"LISTEN", "CLOSED"}

\* The end of the stream in a mailbox: a NULL pbuf.
NULL == <<>>

Quiet == toHost = <<>> /\ toPeer = <<>> /\ ~peer.owe

Fault(mishap) == mishap \in sc.mishaps /\ faults < sc.faults /\ faults' = faults + 1
NoFault == UNCHANGED faults

\* A call of tcp_write finds memory or it does not.
Finds(memory) == IF memory THEN NoFault ELSE Fault("no memory")

-----------------------------------------------------------------------------
(* The netconn.  h is a pcb and its app. *)

Pair(p, a) == [p |-> p, a |-> a]

\* sys_mbox_trypost by recv_tcp.
Room(a) == Len(a.mbox) < MboxSize
Post(a, m) == [a EXCEPT !.mbox = Append(@, m)]

\* The FIN is given back to the window.  When the mailbox is full nobody
\* remembers the end.
HandEnd(h) ==
  Pair([h.p EXCEPT !.rcv_wnd = IF @ # TcpWnd THEN @ + 1 ELSE @],
       IF Room(h.a) THEN Post(h.a, NULL) ELSE h.a)

tcp_process_refused_data(h) ==
  LET taken == Pair([h.p EXCEPT !.refused = <<>>, !.refused_fin = FALSE],
                    Post(h.a, h.p.refused))
  IN  IF h.p.refused = <<>> \/ ~Room(h.a) THEN h
      ELSE IF h.p.refused_fin THEN HandEnd(taken) ELSE taken

HandData(h) ==
  IF h.p.recv_data = <<>> THEN h
  ELSE IF Room(h.a) THEN Pair(h.p, Post(h.a, h.p.recv_data))
  ELSE Pair([h.p EXCEPT !.refused = h.p.recv_data], h.a)

HandFin(h) ==
  IF "GOT_FIN" \notin h.p.recv_flags THEN h
  ELSE IF h.p.refused # <<>> THEN Pair([h.p EXCEPT !.refused_fin = TRUE], h.a)
  ELSE HandEnd(h)

\* As much of the answer as there is room for.
Queue(h, memory) ==
  LET n == Smaller(h.a.left, h.p.snd_buf)
      next == sc.out - h.a.left
  IN  IF memory /\ MssLocal(h.p) > 0
      THEN Pair(tcp_write(h.p, [i \in 1 .. n |-> next + i]),
                [h.a EXCEPT !.left = @ - n, !.task = IF h.a.left = n THEN "reads" ELSE @])
      ELSE Pair(tcp_write_memerr(h.p), h.a)

do_writemore(h, memory) ==
  LET q == Queue(h, memory) IN Pair(tcp_output(q.p), q.a)

\* Called by tcp_input, which sends at its end: tcp_output does nothing here.
sent_tcp(h, memory) ==
  IF h.p.acked > 0 /\ h.a.task = "writes" THEN Queue(h, memory) ELSE h

\* What is left when the handler returns.
Finish(h) ==
  /\ pcb' = IF h.p.recv_flags \cap {"RESET", "CLOSED"} # {} THEN Closed
            ELSE [h.p EXCEPT !.sent = <<>>, !.recv_data = <<>>, !.recv_flags = {}]
  /\ app' = IF "RESET" \in h.p.recv_flags THEN [h.a EXCEPT !.task = "gone"] ELSE h.a
  /\ toPeer' = toPeer \o h.p.sent

-----------------------------------------------------------------------------
(* Segments *)

tcp_listen_input(g) ==
  IF "RST" \notin g.flags /\ "ACK" \in g.flags
  THEN /\ toPeer' = Append(toPeer, tcp_rst(g.ack, EndOf(g)))
       /\ UNCHANGED pcb
  ELSE IF "SYN" \in g.flags /\ pcb = Listening
  THEN LET p == tcp_output(tcp_enqueue_flags(NewPcb(sc.iss, g), "SYN"))
       IN  /\ pcb' = [p EXCEPT !.sent = <<>>]
           /\ toPeer' = toPeer \o p.sent
  ELSE UNCHANGED <<pcb, toPeer>>

\* Data that was refused goes first; while it still is, new data is dropped.
tcp_input(g, memory) ==
  LET h == tcp_process_refused_data(Pair(pcb, app))
      p == tcp_process(h.p, g)
      gone == p.recv_flags \cap {"RESET", "CLOSED"} # {}
      handed == HandFin(HandData(sent_tcp(Pair(p, h.a), memory)))
  IN  IF h.p.refused # <<>> /\ TCP_TCPLEN(g) > 0 THEN Finish(h)
      ELSE IF gone THEN Finish(Pair(p, h.a))
      ELSE Finish(Pair(tcp_output(handed.p), handed.a))

\* An old SYN does not open a second connection.
Arrive(memory) ==
  /\ toHost # <<>>
  /\ toHost' = Tail(toHost)
  /\ \/ Open /\ tcp_input(Head(toHost), memory)
     \/ ~Open /\ tcp_listen_input(Head(toHost)) /\ UNCHANGED app
  /\ Finds(memory)
  /\ UNCHANGED <<sc, peer>>

-----------------------------------------------------------------------------
(* Timers *)

Timer(h) == Finish(h) /\ UNCHANGED <<sc, peer, toHost>>

FasttmrDue ==
  /\ Open
  /\ \/ "ACK_DELAY" \in pcb.flags
     \/ pcb.refused # <<>> /\ Room(app)

tcp_fasttmr ==
  LET p == IF "ACK_DELAY" \in pcb.flags
           THEN [tcp_output(tcp_ack_now(pcb)) EXCEPT !.flags = @ \ {"ACK_DELAY", "ACK_NOW"}]
           ELSE pcb
  IN  /\ FasttmrDue
      /\ Timer(tcp_process_refused_data(Pair(p, app)))
      /\ NoFault

\* A timer that is longer than a round trip runs out when nothing comes, or
\* too soon.
RunsOut(tooSoon) ==
  IF tooSoon THEN ~Quiet /\ Fault("too soon") ELSE Quiet /\ NoFault

RtoRuns == Open /\ pcb.unacked # <<>> /\ pcb.rtime /\ ~pcb.persist

Rto(tooSoon) ==
  /\ RtoRuns
  /\ RunsOut(tooSoon)
  /\ Timer(Pair(tcp_rexmit_rto([pcb EXCEPT !.ssthresh = Halved(pcb), !.cwnd = Mss]), app))

PersistRuns == Open /\ pcb.persist

Persist ==
  /\ PersistRuns
  /\ Quiet /\ NoFault
  /\ Timer(Pair(tcp_zero_window_probe(pcb), app))

\* Two hours in which nothing happened at either end.
KeepaliveRuns ==
  /\ Open /\ pcb.state \in {"ESTABLISHED", "CLOSE_WAIT"}
  /\ pcb.unacked = <<>> /\ ~pcb.persist /\ pcb.unsent # <<>>
  /\ app.mbox = <<>> /\ app.unrecved = 0
  /\ peer.una = peer.snd /\ peer.read = Len(peer.got)

Keepalive ==
  /\ KeepaliveRuns
  /\ Quiet
  /\ Timer(Pair(tcp_keepalive(pcb), app))
  /\ NoFault

DropOoseq ==
  /\ Open /\ pcb.ooseq # <<>>
  /\ Quiet /\ NoFault
  /\ Timer(Pair([pcb EXCEPT !.ooseq = <<>>], app))

\* poll_tcp, and what follows it in tcp_slowtmr.
Polled ==
  LET h == IF app.task = "writes" THEN do_writemore(Pair(pcb, app), TRUE)
           ELSE Pair(pcb, app)
  IN  Pair(tcp_output(h.p), h.a)

PollDue == Open /\ Polled # Pair(pcb, app)

Poll == PollDue /\ Timer(Polled) /\ NoFault

-----------------------------------------------------------------------------
(* The task *)

Call(h) == Finish(h) /\ UNCHANGED <<sc, peer, toHost>>

\* netconn_recv takes a message; what it tells tcpip_thread comes later.
Fetchable == app.task = "reads" /\ app.unrecved = 0 /\ app.mbox # <<>>

Fetch ==
  /\ Fetchable
  /\ app' = IF Head(app.mbox) = NULL
            THEN [app EXCEPT !.mbox = Tail(@), !.eof = TRUE, !.task = "closes"]
            ELSE [app EXCEPT !.mbox = Tail(@), !.got = @ \o Head(app.mbox),
                             !.unrecved = Len(Head(app.mbox))]
  /\ UNCHANGED <<sc, pcb, peer, toHost, toPeer, faults>>

\* A window that has opened enough is told at once.
tcp_recved ==
  LET p == tcp_update_rcv_ann_wnd(
             [pcb EXCEPT !.rcv_wnd = Smaller(@ + app.unrecved, TcpWnd)])
      told == IF Inflation(p) >= WndUpdateThreshold
              THEN tcp_output(tcp_ack_now(p)) ELSE p
  IN  /\ Open /\ app.unrecved > 0
      /\ Call(Pair(told, [app EXCEPT !.unrecved = 0]))
      /\ NoFault

Answerable ==
  /\ Open /\ app.task = "reads" /\ app.unrecved = 0
  /\ ~app.answered /\ Len(app.got) >= sc.ask

netconn_write(memory) ==
  /\ Answerable
  /\ Call(do_writemore(Pair(pcb, [app EXCEPT !.task = "writes", !.answered = TRUE]), memory))
  /\ Finds(memory)

\* tcp_close: the FIN, when there is room for it; unread data is a reset.
\* A close that failed is tried again.
Unread == pcb.refused # <<>> \/ pcb.rcv_wnd # TcpWnd
Closable ==
  Open /\ app.task = "closes" /\ (Unread \/ JoinsLast(pcb) \/ CanEnqueue(pcb))

tcp_close ==
  /\ Closable
  /\ IF Unread
     THEN /\ pcb' = Closed
          /\ toPeer' = Append(toPeer, tcp_rst(pcb.snd_nxt, pcb.rcv_nxt))
          /\ app' = [app EXCEPT !.task = "gone"]
          /\ UNCHANGED <<sc, peer, toHost>>
     ELSE Call(Pair(tcp_output([tcp_send_fin(pcb) EXCEPT !.state = "LAST_ACK"]),
                    [app EXCEPT !.task = "closed"]))
  /\ NoFault

-----------------------------------------------------------------------------
(* The client.  It counts its own units and those it gets, and turns them  *)
(* into sequence numbers: its SYN is 0, unit i is i, and its FIN in + 1.   *)
(* It takes what comes in order, within the window it has announced, and   *)
(* announces a new right edge when that is worth it.                       *)

Expected == IF ~peer.heard THEN 0 ELSE 1 + Len(peer.got) + (IF peer.fin THEN 1 ELSE 0)
PeerWindow == IF peer.adv > Expected THEN peer.adv - Expected ELSE 0

PeerSegment(pos, data, flags) ==
  [seq |-> Plus(sc.peerIss, pos), data |-> data, flags |-> flags \cup {"ACK"},
   ack |-> Plus(sc.iss, Expected), wnd |-> PeerWindow]

Units(first, last) == [i \in 1 .. last - first + 1 |-> first + i - 1]

PeerSends(g) == toHost' = Append(toHost, g) /\ UNCHANGED <<sc, pcb, app, toPeer>>

PeerSyn ==
  /\ ~peer.heard /\ ~peer.dead
  /\ peer.snd = 0 \/ Quiet
  /\ peer' = [peer EXCEPT !.snd = 1]
  /\ PeerSends([seq |-> sc.peerIss, data |-> <<>>, flags |-> {"SYN"}, ack |-> 0, wnd |-> sc.wnd])
  /\ NoFault

MayClose == sc.early \/ Len(peer.got) = sc.out

\* Units from..to, with the FIN if fin.
PeerData(from, to, fin) ==
  /\ peer' = [peer EXCEPT !.snd = LET end == to + (IF fin THEN 2 ELSE 1)
                                  IN  IF @ < end THEN end ELSE @,
                          !.owe = FALSE]
  /\ PeerSends(PeerSegment(from, Units(from, to), IF fin THEN {"FIN"} ELSE {}))

Speaks == peer.heard /\ ~peer.dead /\ Len(toHost) < ChannelMax

\* What the window allows, or one unit to try a closed window.
MaySend(to, fin) ==
  /\ Speaks /\ peer.snd <= sc.in + 1
  /\ to >= peer.snd \/ fin
  /\ fin => to = sc.in /\ MayClose
  /\ \/ to < peer.edge
     \/ Quiet /\ to = peer.snd /\ peer.una = peer.snd

NewUnits == peer.snd - 1 .. Smaller(sc.in, peer.snd + Mss - 1)

PeerSend ==
  /\ \E to \in NewUnits, fin \in BOOLEAN :
       MaySend(to, fin) /\ PeerData(peer.snd, to, fin)
  /\ NoFault

\* Again from the first that was not acknowledged, cut as one likes.
PeerWaits == Speaks /\ peer.una < peer.snd

PeerAgain(tooSoon) ==
  /\ PeerWaits
  /\ RunsOut(tooSoon)
  /\ \E to \in peer.una - 1 .. Smaller(sc.in, peer.una + Mss - 1), fin \in BOOLEAN :
       /\ to < peer.snd /\ (to >= peer.una \/ fin)
       /\ fin => to = sc.in /\ peer.snd = sc.in + 2
       /\ PeerData(peer.una, to, fin)

PeerAck ==
  /\ Speaks /\ peer.owe
  /\ peer' = [peer EXCEPT !.owe = FALSE]
  /\ PeerSends(PeerSegment(peer.snd, <<>>, {}))
  /\ NoFault

PeerRead ==
  LET edge == 1 + Len(peer.got) + sc.wnd
      worth == edge - peer.adv >= Smaller(Mss, sc.wnd \div 2)
  IN  /\ peer.read < Len(peer.got) /\ ~peer.dead
      /\ peer' = [peer EXCEPT !.read = Len(peer.got),
                              !.adv = IF worth THEN edge ELSE @,
                              !.owe = @ \/ worth]
      /\ UNCHANGED <<sc, pcb, app, toHost, toPeer, faults>>

\* The program of the client dies: from then on it answers with RST.
PeerDies ==
  /\ peer.heard /\ ~peer.dead
  /\ peer' = [peer EXCEPT !.dead = TRUE, !.owe = FALSE]
  /\ PeerSends(PeerSegment(peer.snd, <<>>, {"RST"}))
  /\ Fault("dies")

PeerAcked(g) ==
  LET una == peer.una + Dist(g.ack, Plus(sc.peerIss, peer.una))
      edge == una + g.wnd
  IN  IF una > peer.snd THEN peer
      ELSE [peer EXCEPT !.una = una, !.edge = IF @ < edge THEN edge ELSE @]

PeerTakes(q, g) ==
  LET pos == IF TCP_SEQ_LEQ(g.seq, Plus(sc.iss, Expected))
             THEN Dist(Plus(sc.iss, Expected), g.seq) ELSE Len(g.data) + 1
      new == From(g.data, pos)
      taken == SubSeq(new, 1, Smaller(Len(new), PeerWindow))
  IN  [q EXCEPT !.got = IF peer.fin THEN @ ELSE @ \o taken,
                !.fin = @ \/ ("FIN" \in g.flags /\ pos <= Len(g.data) /\ taken = new),
                !.owe = @ \/ TCP_TCPLEN(g) > 0 \/ g.seq # Plus(sc.iss, Expected)]

PeerArrive ==
  /\ toPeer # <<>>
  /\ toPeer' = Tail(toPeer)
  /\ LET g == Head(toPeer)
     IN  IF peer.dead
         THEN /\ toHost' = IF "RST" \in g.flags THEN toHost
                           ELSE Append(toHost, [seq |-> g.ack, data |-> <<>>, flags |-> {"RST"},
                                                ack |-> 0, wnd |-> 0])
              /\ UNCHANGED peer
         ELSE /\ peer' =
                   CASE "RST" \in g.flags -> [peer EXCEPT !.dead = TRUE, !.reset = TRUE, !.owe = FALSE]
                     [] "RST" \notin g.flags /\ "SYN" \in g.flags /\ ~peer.heard ->
                          [peer EXCEPT !.heard = TRUE, !.una = 1, !.edge = 1 + g.wnd,
                                       !.adv = 1 + sc.wnd, !.owe = TRUE]
                     [] "RST" \notin g.flags /\ "SYN" \in g.flags /\ peer.heard ->
                          [peer EXCEPT !.owe = TRUE]
                     [] OTHER -> IF peer.heard THEN PeerTakes(PeerAcked(g), g) ELSE peer
              /\ UNCHANGED toHost
  /\ UNCHANGED <<sc, pcb, app, faults>>

-----------------------------------------------------------------------------
(* The network *)

Lose ==
  /\ \/ toHost # <<>> /\ toHost' = Tail(toHost) /\ UNCHANGED toPeer
     \/ toPeer # <<>> /\ toPeer' = Tail(toPeer) /\ UNCHANGED toHost
  /\ Fault("lost")
  /\ UNCHANGED <<sc, pcb, app, peer>>

Repeat ==
  /\ \/ toHost # <<>> /\ toHost' = Append(toHost, Head(toHost)) /\ UNCHANGED toPeer
     \/ toPeer # <<>> /\ toPeer' = Append(toPeer, Head(toPeer)) /\ UNCHANGED toHost
  /\ Fault("repeated")
  /\ UNCHANGED <<sc, pcb, app, peer>>

\* The second arrives before the first.
Swapped(s) == <<s[2], s[1]>> \o From(s, 2)

Overtake ==
  /\ \/ Len(toHost) > 1 /\ toHost' = Swapped(toHost) /\ UNCHANGED toPeer
     \/ Len(toPeer) > 1 /\ toPeer' = Swapped(toPeer) /\ UNCHANGED toHost
  /\ Fault("overtaken")
  /\ UNCHANGED <<sc, pcb, app, peer>>

-----------------------------------------------------------------------------
Init ==
  /\ sc \in Scenarios
  /\ pcb = Listening
  /\ app = [task |-> "reads", mbox |-> <<>>, unrecved |-> 0, got |-> <<>>, eof |-> FALSE,
            left |-> sc.out, answered |-> FALSE]
  /\ peer = [snd |-> 0, una |-> 0, edge |-> 0, heard |-> FALSE, got |-> <<>>, read |-> 0,
             adv |-> 0, fin |-> FALSE, owe |-> FALSE, dead |-> FALSE, reset |-> FALSE]
  /\ toHost = <<>> /\ toPeer = <<>>
  /\ faults = 0

Stack ==
  \/ \E memory \in BOOLEAN : Arrive(memory)
  \/ \E tooSoon \in BOOLEAN : Rto(tooSoon)
  \/ Persist \/ Keepalive \/ DropOoseq \/ Poll \/ tcp_fasttmr

Task == Fetch \/ tcp_recved \/ (\E memory \in BOOLEAN : netconn_write(memory)) \/ tcp_close

Peer ==
  \/ PeerSyn \/ PeerSend \/ PeerAck \/ PeerRead \/ PeerArrive \/ PeerDies
  \/ \E tooSoon \in BOOLEAN : PeerAgain(tooSoon)

Network == Lose \/ Repeat \/ Overtake

Next == Stack \/ Task \/ Peer \/ Network

Spec == Init /\ [][Next]_vars

-----------------------------------------------------------------------------
(* Properties *)

TypesHold ==
  /\ pcb.state \in {"LISTEN", "SYN_RCVD", "ESTABLISHED", "CLOSE_WAIT", "LAST_ACK", "CLOSED"}
  /\ Open =>
       /\ {pcb.rcv_nxt, pcb.snd_nxt, pcb.lastack, pcb.snd_lbb, pcb.rcv_ann_right_edge,
           pcb.snd_wl1, pcb.snd_wl2} \subseteq SeqNo
       /\ pcb.rcv_wnd \in 0 .. TcpWnd /\ pcb.rcv_ann_wnd \in 0 .. pcb.rcv_wnd
       /\ pcb.cwnd \in 1 .. CwndMax
       /\ pcb.flags \subseteq {"ACK_DELAY", "ACK_NOW", "INFR", "NAGLEMEMERR", "FIN"}
       /\ pcb.sent = <<>> /\ pcb.recv_data = <<>> /\ pcb.recv_flags = {}
  /\ Len(app.mbox) <= MboxSize
  /\ faults \in 0 .. sc.faults

\* s carries what belongs at its sequence number: iss is the first of them.
Carries(s, iss) ==
  \A i \in DOMAIN s.data : s.data[i] = Dist(Plus(s.seq, i - 1), iss)

\* All that was written and not acknowledged is kept, once, in unacked or in
\* unsent, and each of these is in order: nothing is lost when segments go
\* from one to the other and back.
QueuesHoldAll ==
  LET queued == {pcb.unacked[i] : i \in DOMAIN pcb.unacked}
                  \cup {pcb.unsent[i] : i \in DOMAIN pcb.unsent}
      ordered(q) == \A i \in 1 .. Len(q) - 1 : TCP_SEQ_LT(q[i].seq, q[i + 1].seq)
      covers(s, n) == Dist(n, s.seq) < TCP_TCPLEN(s)
      due == {Plus(pcb.lastack, k) : k \in 0 .. Dist(pcb.snd_lbb, pcb.lastack) - 1}
  IN  /\ ordered(pcb.unacked) /\ ordered(pcb.unsent)
      /\ \A s \in queued : Carries(s, sc.iss)
      /\ \A n \in due : \E s \in queued : covers(s, n)
      /\ \A s, t \in queued : s # t => ~covers(s, t.seq)
      /\ "FIN" \in pcb.flags =>
           pcb.lastack = pcb.snd_nxt \/ \E s \in queued : "FIN" \in s.flags

\* What is under way is watched by a timer that is running.
Watched == pcb.unacked # <<>> => pcb.rtime \/ pcb.persist

\* What waits out of sequence is in order, does not overlap, and holds all the
\* units that its length counts.
OoseqSound ==
  /\ \A i \in DOMAIN pcb.ooseq :
       /\ TCP_SEQ_GT(pcb.ooseq[i].seq, pcb.rcv_nxt)
       /\ Carries(pcb.ooseq[i], sc.peerIss)
  /\ \A i \in 1 .. Len(pcb.ooseq) - 1 :
       TCP_SEQ_LEQ(EndOfData(pcb.ooseq[i]), pcb.ooseq[i + 1].seq)

\* The window is what the buffers for received data have left: data is in the
\* mailbox, refused, or read and not yet reported with tcp_recved.
WindowCounts ==
  LET inMbox == FoldLeft(LAMBDA n, m : n + Len(m), 0, app.mbox)
  IN  TcpWnd - pcb.rcv_wnd =
        inMbox + app.unrecved + Len(pcb.refused) + (IF pcb.refused_fin THEN 1 ELSE 0)

\* The bookkeeping of a connection is right whenever tcpip_thread is at rest.
TcpInv == TypesHold /\ (Open => QueuesHoldAll /\ Watched /\ OoseqSound /\ WindowCounts)

\* The task never reads past a unit it has not got: a gap in what the client
\* sends is filled before what is behind it is handed on.
NothingSkipped == app.got = [i \in 1 .. Len(app.got) |-> i]

\* The right edge of the window that was announced never moves back, whatever
\* arrives and however slowly the task reads (RFC 793 asks no less, and
\* tcp_update_rcv_ann_wnd says it keeps the edge constant).
RightEdgeKept ==
  [][Open /\ pcb'.state # "CLOSED" =>
       TCP_SEQ_GEQ(pcb'.rcv_ann_right_edge, pcb.rcv_ann_right_edge)]_vars

\* The two directions of the connection: the server's task reads what the
\* client has sent, and the client what the task has written, in spite of the
\* network.
Requests == INSTANCE ByteStream WITH
  written <- IF peer.snd > sc.in THEN sc.in ELSE IF peer.snd = 0 THEN 0 ELSE peer.snd - 1,
  read <- app.got, ended <- app.eof

Answers == INSTANCE ByteStream WITH
  written <- IF app.answered THEN sc.out ELSE 0, read <- peer.got, ended <- peer.fin

ImplementsByteStreams == Requests!Spec /\ Answers!Spec

-----------------------------------------------------------------------------
(* Fairness.  What is under way arrives; tcpip_thread, the task and the     *)
(* client do what they can do: no such thing stays possible for ever.  Each  *)
(* of these steps ends the condition that is given for it, so this is weak   *)
(* fairness with ENABLED put as what it comes to.  A timer is longer than a  *)
(* round trip: its turn is when the network is quiet, and when that is so    *)
(* again and again, one of them runs out (strong fairness of the timers).    *)

HostTimerDue == Quiet /\ (RtoRuns \/ PersistRuns \/ KeepaliveRuns)
PeerTimerDue ==
  /\ ~peer.dead /\ Quiet
  /\ IF peer.heard THEN PeerWaits ELSE peer.snd = 1

Fairness ==
  /\ WF_toHost(toHost # <<>> /\ toHost' = Tail(toHost))
  /\ WF_toPeer(toPeer # <<>> /\ toPeer' = Tail(toPeer))
  /\ []<>~FasttmrDue /\ []<>~PollDue
  /\ []<>~Fetchable /\ []<>(app.unrecved = 0 \/ ~Open) /\ []<>~Answerable /\ []<>~Closable
  /\ []<>(peer.snd > 0)
  /\ []<>(\A to \in NewUnits, fin \in BOOLEAN : ~MaySend(to, fin))
  /\ []<>~(Speaks /\ peer.owe)
  /\ []<>(peer.read = Len(peer.got) \/ peer.dead)
  /\ []<>HostTimerDue => []<><<HostTimerDue /\ <<pcb, toPeer>>' # <<pcb, toPeer>>>>_vars
  /\ []<>PeerTimerDue => []<><<PeerTimerDue /\ toHost' # toHost>>_vars

FairSpec == Spec /\ Fairness

Done == app.eof /\ Len(app.got) = sc.in /\ peer.fin /\ Len(peer.got) = sc.out

\* When the client waits for its answer and does not die, every request and
\* the whole answer arrive, and both ends learn that the other has done,
\* whatever the network loses meanwhile.
AllArrives == ~sc.early => <>(Done \/ (peer.dead /\ ~peer.reset))
=============================================================================
