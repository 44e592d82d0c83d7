-------------------------------- MODULE TcpIn --------------------------------
(***************************************************************************)
(* tcp_in.c: what a segment of the client does to its connection.  g is    *)
(* the segment: seq, data, flags, ack and wnd.                             *)
(***************************************************************************)
EXTENDS TcpOut
LOCAL INSTANCE SequencesExt

tcp_ack_now(p) == [p EXCEPT !.flags = @ \cup {"ACK_NOW"}]

\* Every second segment is acknowledged at once.
tcp_ack(p) ==
  IF "ACK_DELAY" \in p.flags
  THEN [p EXCEPT !.flags = (@ \ {"ACK_DELAY"}) \cup {"ACK_NOW"}]
  ELSE [p EXCEPT !.flags = @ \cup {"ACK_DELAY"}]

\* How far the right edge would move if it were announced now: nothing, unless
\* it is worth it.
Inflation(p) ==
  LET n == Diff(Plus(p.rcv_nxt, p.rcv_wnd), p.rcv_ann_right_edge)
  IN  IF n >= Smaller(TcpWnd \div 2, Mss) THEN n ELSE 0

\* Mutant of tcp_update_rcv_ann_wnd: what is not worth announcing closes the
\* window.
UpdateCloses(p) == [p EXCEPT !.rcv_ann_wnd = IF Inflation(p) > 0 THEN p.rcv_wnd ELSE 0]

tcp_update_rcv_ann_wnd(p) ==
  [p EXCEPT !.rcv_ann_wnd =
     IF Inflation(p) > 0 THEN p.rcv_wnd
     ELSE IF TCP_SEQ_GT(p.rcv_nxt, p.rcv_ann_right_edge) THEN 0
     ELSE Dist(p.rcv_ann_right_edge, p.rcv_nxt)]

-----------------------------------------------------------------------------
(* What the client acknowledges *)

\* Old segments must not bring back an old window; a window that closes
\* starts the persist timer and one that opens stops it.
UpdateWindow(p, g) ==
  IF \/ TCP_SEQ_LT(p.snd_wl1, g.seq)
     \/ p.snd_wl1 = g.seq /\ TCP_SEQ_LT(p.snd_wl2, g.ack)
     \/ p.snd_wl2 = g.ack /\ g.wnd > p.snd_wnd
  THEN [p EXCEPT !.snd_wnd = g.wnd,
                 !.snd_wnd_max = IF @ < g.wnd THEN g.wnd ELSE @,
                 !.snd_wl1 = g.seq, !.snd_wl2 = g.ack,
                 !.persist = g.wnd = 0]
  ELSE p

\* The congestion window does not grow past what its type holds.
Raised(cwnd, n) == IF cwnd + n <= CwndMax THEN cwnd + n ELSE cwnd

\* The third duplicate sends the first segment again, further ones open the
\* congestion window.
CountDupAck(p) ==
  LET n == IF p.dupacks < DupAcksMax THEN p.dupacks + 1 ELSE p.dupacks
      q == [p EXCEPT !.dupacks = n]
  IN  CASE n > 3 -> [q EXCEPT !.cwnd = Raised(@, Mss)]
        [] n = 3 -> tcp_rexmit_fast(q)
        [] OTHER -> q

\* old is the pcb before the window was updated.
AckOld(p, old, g) ==
  LET duplicate == /\ TCP_TCPLEN(g) = 0
                   /\ Plus(p.snd_wl2, p.snd_wnd) = Plus(old.snd_wl2, old.snd_wnd)
                   /\ p.rtime
                   /\ p.lastack = g.ack
  IN  [IF duplicate THEN CountDupAck(p) ELSE [p EXCEPT !.dupacks = 0] EXCEPT !.acked = 0]

Grown(p) ==
  Raised(p.cwnd, IF p.cwnd < p.ssthresh THEN Mss ELSE (Mss * Mss) \div p.cwnd)

\* Mutant of AckNew: any acknowledgement stops the retransmission timer.
AckNewStops(p, g) ==
  LET n == Dist(g.ack, p.lastack)
      acknowledged(s) == TCP_SEQ_LEQ(EndOf(s), g.ack)
  IN  [p EXCEPT !.acked = n, !.snd_buf = @ + n, !.dupacks = 0, !.lastack = g.ack,
                !.unacked = From(@, Leading(@, acknowledged)), !.rtime = FALSE]

\* The FIN is not reported as sent data.
AckNew(p, g) ==
  LET n == Dist(g.ack, p.lastack)
      q == IF "INFR" \in p.flags THEN [p EXCEPT !.cwnd = p.ssthresh] ELSE p
      acknowledged(s) == TCP_SEQ_LEQ(EndOf(s), g.ack)
      k == Leading(p.unacked, acknowledged)
      fin == \E i \in 1 .. k : "FIN" \in p.unacked[i].flags
  IN  [q EXCEPT !.flags = @ \ {"INFR"},
                !.acked = IF fin THEN n - 1 ELSE n,
                !.snd_buf = @ + n,
                !.dupacks = 0,
                !.lastack = g.ack,
                !.cwnd = Grown(q),
                !.unacked = From(@, k),
                !.rtime = From(p.unacked, k) # <<>>]

\* After a retransmission what was sent once is among the unsent again.
DropAckedUnsent(p, g) ==
  LET acknowledged(s) == TCP_SEQ_BETWEEN(g.ack, EndOf(s), p.snd_nxt)
      k == Leading(p.unsent, acknowledged)
      fin == \E i \in 1 .. k : "FIN" \in p.unsent[i].flags
  IN  [p EXCEPT !.unsent = From(@, k),
                !.acked = IF fin /\ @ # 0 THEN @ - 1 ELSE @]

ReceiveAck(p, g) ==
  LET q == UpdateWindow(p, g)
      r == CASE TCP_SEQ_LEQ(g.ack, q.lastack) -> AckOld(q, p, g)
             [] TCP_SEQ_BETWEEN(g.ack, Plus(q.lastack, 1), q.snd_nxt) -> AckNew(q, g)
             [] OTHER -> [q EXCEPT !.acked = 0]
  IN  DropAckedUnsent(r, g)

-----------------------------------------------------------------------------
(* What the client sends *)

\* tcp_oos_insert_segment: s before the segments of next, of which it covers
\* some; the last unit of s that next has is taken from next.
tcp_oos_insert_segment(s, next) ==
  LET covered(t) == TCP_SEQ_GEQ(EndOfData(s), EndOfData(t))
      k == Leading(next, covered)
      fin == \E i \in 1 .. k : "FIN" \in next[i].flags
      whole == IF fin THEN [s EXCEPT !.flags = {"FIN"}] ELSE s
      rest == From(next, k)
      overlaps == rest # <<>> /\ TCP_SEQ_GT(EndOfData(s), Head(rest).seq)
  IN  IF "FIN" \in s.flags THEN <<s>>
      ELSE <<IF overlaps THEN CutAt(whole, Head(rest).seq) ELSE whole>> \o rest

\* The one before s must end where s begins.
TrimLast(front, s) ==
  IF front # <<>> /\ TCP_SEQ_GT(EndOfData(Last(front)), s.seq)
  THEN [front EXCEPT ![Len(front)] = CutAt(@, s.seq)]
  ELSE front

\* What reaches past the window is cut off, the FIN with it.  The test compares
\* two u32_t and not two sequence numbers: with the edge beyond the wrap a
\* segment before it is "cut" to more than it has, and NoUnit stands for what
\* its len counts and its pbuf does not hold.
ClipToWindow(p, s) ==
  LET edge == Plus(p.rcv_nxt, p.rcv_wnd)
      n == Dist(edge, s.seq)
      none == [i \in 1 .. n - Len(s.data) |-> NoUnit]
  IN  IF EndOf(s) > edge
      THEN [s EXCEPT !.flags = {},
                     !.data = IF n <= Len(@) THEN SubSeq(@, 1, n) ELSE @ \o none]
      ELSE s

\* A segment out of sequence, by the place its number has in the queue.  The
\* first one in an empty queue is taken as it is.
QueueOutOfSequence(p, s) ==
  LET before(t) == TCP_SEQ_LT(t.seq, s.seq)
      k == Leading(p.ooseq, before)
      front == SubSeq(p.ooseq, 1, k)
      back == From(p.ooseq, k)
  IN  CASE p.ooseq = <<>> -> <<s>>
        [] back # <<>> /\ Head(back).seq = s.seq ->
             IF Len(s.data) > Len(Head(back).data)
             THEN front \o tcp_oos_insert_segment(s, back)
             ELSE p.ooseq
        [] back # <<>> /\ Head(back).seq # s.seq ->
             TrimLast(front, s) \o tcp_oos_insert_segment(s, back)
        [] back = <<>> /\ front # <<>> ->
             IF "FIN" \in Last(front).flags THEN p.ooseq
             ELSE TrimLast(front, s) \o <<ClipToWindow(p, s)>>

\* Data or a FIN in sequence moves the window and is kept for tcp_input.
Take(p, s) ==
  LET n == TCP_TCPLEN(s)
      q == tcp_update_rcv_ann_wnd([p EXCEPT !.rcv_nxt = Plus(@, n), !.rcv_wnd = @ - n])
      held(unit) == unit # NoUnit
  IN  [q EXCEPT !.recv_data = @ \o SelectSeq(s.data, held),
                !.recv_flags = @ \cup (IF "FIN" \in s.flags THEN {"GOT_FIN"} ELSE {})]

\* A FIN that waited out of sequence moves the state by itself.
TakeQueued(p, s) ==
  IF p.ooseq # <<>> /\ Head(p.ooseq).seq = p.rcv_nxt
  THEN [Take(p, s) EXCEPT
          !.ooseq = Tail(@),
          !.state = IF "FIN" \in s.flags /\ @ = "ESTABLISHED" THEN "CLOSE_WAIT" ELSE @]
  ELSE p

\* The segment that was expected: cut to the window, joined with what waits
\* behind it and handed on with it.
ReceiveInSequence(p, s) ==
  LET t == IF TCP_TCPLEN(s) > p.rcv_wnd
           THEN [s EXCEPT !.flags = {}, !.data = SubSeq(@, 1, p.rcv_wnd)]
           ELSE s
      joined == tcp_oos_insert_segment(t, p.ooseq)
      q == Take([p EXCEPT !.ooseq = Tail(joined)], Head(joined))
  IN  tcp_ack(FoldLeft(TakeQueued, q, q.ooseq))

\* Mutant of TrimFront: the data stays where it was.
TrimNumber(p, g) ==
  IF TCP_SEQ_BETWEEN(p.rcv_nxt, Plus(g.seq, 1), Plus(g.seq, TCP_TCPLEN(g) - 1))
  THEN Seg(p.rcv_nxt, g.data, g.flags \cap {"FIN"})
  ELSE Seg(g.seq, g.data, g.flags \cap {"FIN"})

\* What was received before is cut off at the front.
TrimFront(p, g) ==
  IF TCP_SEQ_BETWEEN(p.rcv_nxt, Plus(g.seq, 1), Plus(g.seq, TCP_TCPLEN(g) - 1))
  THEN Seg(p.rcv_nxt, From(g.data, Dist(p.rcv_nxt, g.seq)), g.flags \cap {"FIN"})
  ELSE Seg(g.seq, g.data, g.flags \cap {"FIN"})

InWindow(p, seq) == TCP_SEQ_BETWEEN(seq, p.rcv_nxt, Plus(p.rcv_nxt, p.rcv_wnd - 1))

ReceiveData(p, g) ==
  LET s == TrimFront(p, g)
      q == IF TCP_SEQ_LT(s.seq, p.rcv_nxt) THEN tcp_ack_now(p) ELSE p
  IN  CASE ~InWindow(p, s.seq) -> tcp_send_empty_ack(q)
        [] InWindow(p, s.seq) /\ s.seq = p.rcv_nxt -> ReceiveInSequence(q, s)
        [] InWindow(p, s.seq) /\ s.seq # p.rcv_nxt ->
             [tcp_send_empty_ack(q) EXCEPT !.ooseq = QueueOutOfSequence(q, s)]

tcp_receive(p, g) ==
  LET q == ReceiveAck(p, g)
  IN  IF TCP_TCPLEN(g) > 0 /\ q.state = "ESTABLISHED" THEN ReceiveData(q, g)
      ELSE IF InWindow(q, g.seq) THEN q
      ELSE tcp_ack_now(q)

-----------------------------------------------------------------------------
(* The states that a connection of the server goes through *)

GotFin(p) ==
  IF "GOT_FIN" \in p.recv_flags THEN [tcp_ack_now(p) EXCEPT !.state = "CLOSE_WAIT"] ELSE p

Reset(p) == [p EXCEPT !.recv_flags = @ \cup {"RESET"}]

\* An acknowledgement of the SYN, maybe with data, is the accept.
ProcessSynRcvd(p, g) ==
  LET q == tcp_receive([p EXCEPT !.state = "ESTABLISHED"], g)
  IN  IF "ACK" \notin g.flags
      THEN IF "SYN" \in g.flags /\ g.seq = Plus(p.rcv_nxt, -1) THEN tcp_rexmit(p) ELSE p
      ELSE IF ~TCP_SEQ_BETWEEN(g.ack, Plus(p.lastack, 1), p.snd_nxt)
      THEN [p EXCEPT !.sent = Append(@, tcp_rst(g.ack, EndOf(g)))]
      ELSE GotFin([q EXCEPT !.acked = IF @ = 0 THEN 0 ELSE @ - 1,
                            !.cwnd = IF p.cwnd = 1 THEN 2 * Mss ELSE Mss])

ProcessLastAck(p, g) ==
  LET q == tcp_receive(p, g)
  IN  IF g.ack = q.snd_nxt THEN [q EXCEPT !.recv_flags = @ \cup {"CLOSED"}] ELSE q

tcp_process(p, g) ==
  CASE "RST" \in g.flags ->
         IF TCP_SEQ_BETWEEN(g.seq, p.rcv_nxt, Plus(p.rcv_nxt, p.rcv_wnd)) THEN Reset(p) ELSE p
    [] "RST" \notin g.flags /\ "SYN" \in g.flags /\ p.state # "SYN_RCVD" -> tcp_ack_now(p)
    [] "RST" \notin g.flags /\ p.state = "SYN_RCVD" -> ProcessSynRcvd(p, g)
    [] "RST" \notin g.flags /\ "SYN" \notin g.flags /\ p.state \in {"ESTABLISHED", "CLOSE_WAIT"} ->
         GotFin(tcp_receive(p, g))
    [] "RST" \notin g.flags /\ "SYN" \notin g.flags /\ p.state = "LAST_ACK" -> ProcessLastAck(p, g)
=============================================================================
