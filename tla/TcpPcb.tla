------------------------------- MODULE TcpPcb -------------------------------
(***************************************************************************)
(* struct tcp_pcb and struct tcp_seg.  Lengths are in units, of which Mss  *)
(* make a full segment; the data of a segment are the numbers of its units *)
(* in their stream, so that what is cut, joined or sent again can be told  *)
(* apart.  A segment has flags SYN and FIN; on the wire it has ACK and RST *)
(* as well, and what it acknowledges.                                      *)
(*                                                                         *)
(* Timers are on or off: when one that is on runs out is the choice of     *)
(* module Tcp.  The estimate of the round trip, rto and nrtx only say      *)
(* when, and are left out.  So are snd_queuelen and the room that tcp_write*)
(* reserves behind a pbuf (unsent_oversize): a write may find no memory.   *)
(***************************************************************************)
EXTENDS SeqNum, Sequences

CONSTANTS
  Mss,                 \* pcb->mss and TCP_MSS
  TcpWnd,              \* TCP_WND
  WndUpdateThreshold,  \* TCP_WND_UPDATE_THRESHOLD
  TcpSndBuf,           \* TCP_SND_BUF
  CwndMax,             \* where the u16_t cwnd stops growing
  DupAcksMax           \* where the u8_t dupacks stops counting

\* cwnd = 1 tells a connection that has sent nothing but its SYN from one
\* that starts again with a full segment.
ASSUME SizesAssumption ==
  /\ Mss \in Nat /\ Mss >= 2
  /\ TcpWnd \in Nat /\ TcpWnd >= 2 * Mss /\ 2 * TcpWnd < Modulus
  /\ WndUpdateThreshold \in 1 .. TcpWnd \div 2
  /\ TcpSndBuf \in Nat /\ TcpSndBuf >= Mss
  /\ CwndMax \in Nat /\ CwndMax >= 5 * Mss
  /\ DupAcksMax \in Nat /\ DupAcksMax >= 4

Smaller(a, b) == IF a < b THEN a ELSE b

Seg(seq, data, flags) == [seq |-> seq, data |-> data, flags |-> flags]

\* A unit that the len of a segment counts and its pbuf does not hold.
NoUnit == 0

\* TCP_TCPLEN: what a segment takes of the sequence space.
TCP_TCPLEN(s) == Len(s.data) + (IF s.flags \cap {"SYN", "FIN"} # {} THEN 1 ELSE 0)

\* The sequence numbers behind the segment, and behind its data.
EndOf(s) == Plus(s.seq, TCP_TCPLEN(s))
EndOfData(s) == Plus(s.seq, Len(s.data))

\* pbuf_realloc, or a shorter len: the segment without what reaches past edge.
CutAt(s, edge) == [s EXCEPT !.data = SubSeq(@, 1, Diff(edge, s.seq))]

\* The segments at the front of a queue before the first that fails Test.
Leading(queue, Test(_)) ==
  CHOOSE n \in 0 .. Len(queue) :
    /\ \A i \in 1 .. n : Test(queue[i])
    /\ n < Len(queue) => ~Test(queue[n + 1])

From(queue, n) == SubSeq(queue, n + 1, Len(queue))

\* Both queues are kept in the order of the sequence numbers.
InsertInOrder(queue, s) ==
  LET before(t) == TCP_SEQ_LT(t.seq, s.seq)
      n == Leading(queue, before)
  IN  SubSeq(queue, 1, n) \o <<s>> \o From(queue, n)

\* tcp_alloc and tcp_listen_input: the pcb made for the SYN g.  `sent`,
\* `recv_data` and `recv_flags` are what a handler leaves for its caller:
\* the packets given to IP, and the two statics of tcp_in.c.
NewPcb(iss, g) ==
  [state |-> "SYN_RCVD", flags |-> {},
   rcv_nxt |-> Plus(g.seq, 1), rcv_wnd |-> TcpWnd, rcv_ann_wnd |-> TcpWnd,
   rcv_ann_right_edge |-> Plus(g.seq, 1), ooseq |-> <<>>, refused |-> <<>>,
   refused_fin |-> FALSE,
   snd_nxt |-> iss, lastack |-> iss, snd_lbb |-> iss, snd_buf |-> TcpSndBuf,
   snd_wnd |-> g.wnd, snd_wnd_max |-> g.wnd,
   snd_wl1 |-> Plus(g.seq, -1), snd_wl2 |-> iss,
   cwnd |-> 1, ssthresh |-> g.wnd, dupacks |-> 0, acked |-> 0,
   unacked |-> <<>>, unsent |-> <<>>, rtime |-> FALSE, persist |-> FALSE,
   sent |-> <<>>, recv_data |-> <<>>, recv_flags |-> {}]
=============================================================================
