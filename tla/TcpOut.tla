------------------------------- MODULE TcpOut -------------------------------
(***************************************************************************)
(* tcp_out.c: what is queued, what is sent now and what is sent again.     *)
(* Every operator gives the pcb its function leaves behind.  Memory for a  *)
(* header (tcp_output_alloc_header) is always found: a packet that is not  *)
(* made is one that the network loses.                                     *)
(***************************************************************************)
EXTENDS TcpPcb
LOCAL INSTANCE SequencesExt

-----------------------------------------------------------------------------
(* To the network *)

\* A header carries rcv_nxt and the window, and what is announced is noted.
Emit(p, seq, data, flags) ==
  [p EXCEPT
     !.sent = Append(@, [seq |-> seq, data |-> data, flags |-> flags \cup {"ACK"},
                         ack |-> p.rcv_nxt, wnd |-> p.rcv_ann_wnd]),
     !.rcv_ann_right_edge = Plus(p.rcv_nxt, p.rcv_ann_wnd)]

tcp_send_empty_ack(p) ==
  [Emit(p, p.snd_nxt, <<>>, {}) EXCEPT !.flags = @ \ {"ACK_DELAY", "ACK_NOW"}]

\* The retransmission timer is started if it does not run.
tcp_output_segment(p, s) == [Emit(p, s.seq, s.data, s.flags) EXCEPT !.rtime = TRUE]

tcp_rst(seq, ack) ==
  [seq |-> seq, data |-> <<>>, flags |-> {"RST", "ACK"}, ack |-> ack, wnd |-> TcpWnd]

tcp_keepalive(p) == Emit(p, Plus(p.snd_nxt, -1), <<>>, {})

\* One unit, or the FIN, of the oldest segment.
tcp_zero_window_probe(p) ==
  IF p.unacked \o p.unsent = <<>> THEN p
  ELSE LET s == Head(p.unacked \o p.unsent)
       IN  IF s.data = <<>> THEN Emit(p, s.seq, <<>>, s.flags \cap {"FIN"})
           ELSE Emit(p, s.seq, <<Head(s.data)>>, {})

-----------------------------------------------------------------------------
(* tcp_output *)

\* seqno - lastack + len <= wnd, in u32_t.
FitsWindow(p, s) ==
  Dist(Plus(s.seq, Len(s.data)), p.lastack) <= Smaller(p.snd_wnd, p.cwnd)

\* Nagle: a short segment waits for the answer to what is under way.
tcp_do_output_nagle(p) ==
  \/ p.unacked = <<>>
  \/ "INFR" \in p.flags
  \/ Len(p.unsent) > 1
  \/ p.unsent # <<>> /\ Len(Head(p.unsent).data) >= Mss
  \/ p.snd_buf = 0

Sendable(p) ==
  /\ p.unsent # <<>>
  /\ FitsWindow(p, Head(p.unsent))
  /\ tcp_do_output_nagle(p) \/ p.flags \cap {"NAGLEMEMERR", "FIN"} # {}

\* A segment that was sent before goes where it was among the unacked ones.
SendFirst(p) ==
  LET s == Head(p.unsent)
      q == tcp_output_segment(p, s)
  IN  [q EXCEPT
         !.unsent = Tail(@),
         !.flags = @ \ {"ACK_DELAY", "ACK_NOW"},
         !.snd_nxt = IF TCP_SEQ_LT(@, EndOf(s)) THEN EndOf(s) ELSE @,
         !.unacked = IF TCP_TCPLEN(s) > 0 THEN InsertInOrder(@, s) ELSE @]

\* Sends what the windows allow; an acknowledgement that is due goes with it,
\* or alone when nothing does.
tcp_output(p) ==
  LET sendIfAllowed(q, s) == IF Sendable(q) THEN SendFirst(q) ELSE q
  IN  IF /\ "ACK_NOW" \in p.flags
         /\ p.unsent = <<>> \/ ~FitsWindow(p, Head(p.unsent))
      THEN tcp_send_empty_ack(p)
      ELSE [FoldLeft(sendIfAllowed, p, p.unsent) EXCEPT !.flags = @ \ {"NAGLEMEMERR"}]

-----------------------------------------------------------------------------
(* tcp_write and tcp_send_fin *)

\* No segment is longer than half the largest window the client ever offered.
MssLocal(p) == Smaller(Mss, p.snd_wnd_max \div 2)

\* The last unsent segment is filled up, the rest is cut into new ones.
tcp_write(p, data) ==
  LET old == p.unsent
      m == MssLocal(p)
      room == IF old = <<>> \/ Last(old).data = <<>> THEN 0
              ELSE Smaller(m - Len(Last(old).data), Len(data))
      rest == From(data, room)
      filled == IF room = 0 THEN old
                ELSE [old EXCEPT ![Len(old)].data = @ \o SubSeq(data, 1, room)]
      cut == [i \in 1 .. (Len(rest) + m - 1) \div m |->
                Seg(Plus(p.snd_lbb, room + (i - 1) * m),
                    SubSeq(rest, (i - 1) * m + 1, Smaller(i * m, Len(rest))), {})]
  IN  [p EXCEPT !.unsent = filled \o cut,
                !.snd_lbb = Plus(@, Len(data)),
                !.snd_buf = @ - Len(data)]

\* tcp_write without memory, or with a window that was never open.
tcp_write_memerr(p) == [p EXCEPT !.flags = @ \cup {"NAGLEMEMERR"}]

CanEnqueue(p) == p.snd_buf > 0

tcp_enqueue_flags(p, flag) ==
  [p EXCEPT !.unsent = Append(@, Seg(p.snd_lbb, <<>>, {flag})),
            !.snd_lbb = Plus(@, 1),
            !.snd_buf = @ - 1,
            !.flags = @ \cup ({flag} \cap {"FIN"})]

JoinsLast(p) == p.unsent # <<>> /\ Last(p.unsent).flags = {}

\* The FIN goes with the last segment if that is still here, which then does
\* not count it in snd_lbb and snd_buf.
tcp_send_fin(p) ==
  IF JoinsLast(p)
  THEN [p EXCEPT !.unsent[Len(p.unsent)].flags = {"FIN"}, !.flags = @ \cup {"FIN"}]
  ELSE tcp_enqueue_flags(p, "FIN")

-----------------------------------------------------------------------------
(* Again *)

\* Half of what was under way, but no less than two segments.
Halved(p) ==
  LET half == Smaller(p.cwnd, p.snd_wnd) \div 2
  IN  IF half < 2 * Mss THEN 2 * Mss ELSE half

\* Mutant of tcp_rexmit_rto: behind what is still to be sent.
RtoLast(p) == tcp_output([p EXCEPT !.unsent = @ \o p.unacked, !.unacked = <<>>])

\* All that is unacknowledged.
tcp_rexmit_rto(p) ==
  tcp_output([p EXCEPT !.unsent = p.unacked \o @, !.unacked = <<>>])

\* The first one only; tcp_input sends it when it has done.
tcp_rexmit(p) ==
  IF p.unacked = <<>> THEN p
  ELSE [p EXCEPT !.unacked = Tail(@), !.unsent = InsertInOrder(@, Head(p.unacked))]

tcp_rexmit_fast(p) ==
  IF p.unacked = <<>> \/ "INFR" \in p.flags THEN p
  ELSE [tcp_rexmit(p) EXCEPT !.ssthresh = Halved(p),
                             !.cwnd = Halved(p) + 3 * Mss,
                             !.flags = @ \cup {"INFR"}]
=============================================================================
