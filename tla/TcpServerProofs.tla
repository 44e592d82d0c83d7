--------------------------- MODULE TcpServerProofs ---------------------------
(***************************************************************************)
(* For any number of connections, any scripts and any sizes:               *)
(* ServerInv is an invariant, and with it NeverStranded; AnswersFramed     *)
(* (what came back is whole frames, and a broken one only at the end), by  *)
(* counting it against what the server still owes; AllAnswered (a client   *)
(* whose connection the server closed has its answers), by saying where    *)
(* each request that leads a delivery is; and the refinement of            *)
(* RequestStream, by joining what is on the way in the places it passes.   *)
(***************************************************************************)
EXTENDS TcpServer, SequenceTheorems, FiniteSetTheorems, WellFoundedInduction, TLAPS

USE NULLAssumption, SizeAssumption, ScriptAssumption, BufferAssumption

-----------------------------------------------------------------------------
(* The handlers of tcpip_thread on one connection *)

LEMMA MailboxIsNotNULL ==
  ASSUME NEW m \in Mailboxes PROVE m # NULL
OBVIOUS

LEMMA PbufType ==
  ASSUME NEW s \in Segments, s.data # <<>> PROVE Pbuf(s) \in Pbufs /\ Pbuf(s) # NULL
<1>1. Pbuf(s) \in Pbufs BY DEF Pbuf, Pbufs, Segments
<1> QED BY <1>1

(* A mailbox that may be tried: it stays one, and nothing in it changes.   *)
LEMMA TrypostKeeps ==
  ASSUME NEW m \in Mailboxes, NEW x \in Pbufs \cup {NULL}, Len(m) <= MailboxSize
  PROVE  /\ Trypost(m, x) \in Mailboxes
         /\ Len(Trypost(m, x)) <= MailboxSize
         /\ Trypost(m, x) = m \/ Trypost(m, x) = Append(m, x)
         /\ Trypost(m, x) # <<>>
<1>1. m # NULL BY MailboxIsNotNULL
<1>2. CASE Len(m) < MailboxSize
  <2>1. Trypost(m, x) = Append(m, x) BY <1>1, <1>2 DEF Trypost, Valid
  <2>2. Append(m, x) \in Mailboxes /\ Len(Append(m, x)) = Len(m) + 1 BY DEF Mailboxes
  <2> QED BY <1>2, <2>1, <2>2 DEF Mailboxes
<1>3. CASE ~(Len(m) < MailboxSize)
  <2>1. Trypost(m, x) = m BY <1>3 DEF Trypost
  <2> QED BY <1>3, <2>1 DEF Mailboxes
<1> QED BY <1>2, <1>3

NoEnd(m) == \A i \in 1..Len(m) : m[i] # NULL

LEMMA AppendKeepsNoEnd ==
  ASSUME NEW m \in Mailboxes, NEW p \in Pbufs, NoEnd(m)
  PROVE  NoEnd(Append(m, p)) /\ Append(m, p) \in Mailboxes
<1>1. p # NULL OBVIOUS
<1> QED BY <1>1 DEF NoEnd, Mailboxes

(* Only the last pbuf may be the end once one more is posted.              *)
LEMMA EndIsLast ==
  ASSUME NEW m \in Mailboxes, NoEnd(m), Len(m) <= MailboxSize,
         NEW i \in 1..Len(Trypost(m, NULL)), Trypost(m, NULL)[i] = NULL
  PROVE  i = Len(Trypost(m, NULL))
<1>1. CASE Trypost(m, NULL) = m BY <1>1 DEF NoEnd
<1>2. CASE Trypost(m, NULL) = Append(m, NULL) BY <1>2 DEF NoEnd, Mailboxes
<1> QED BY <1>1, <1>2, TrypostKeeps

LEMMA HandInOrder ==
  ASSUME NEW m \in Mailboxes, NEW s \in Segments, NEW rest \in Seq(Segments),
         NoEnd(m), Len(m) <= MailboxSize, s.data # <<>>,
         s.fin => rest = <<>>, Orderly(rest)
  PROVE  /\ Hand(m, s).mbox \in Mailboxes
         /\ Hand(m, s).refused \in Segments \cup {NULL}
         /\ InOrder(Hand(m, s).mbox, Hand(m, s).refused, rest)
         /\ ~s.fin /\ Hand(m, s).refused = NULL => NoEnd(Hand(m, s).mbox)
<1> DEFINE m2 == Append(m, Pbuf(s))
<1>1. s # NULL /\ Pbuf(s) \in Pbufs BY PbufType
<1>2. m2 \in Mailboxes /\ NoEnd(m2) BY <1>1, AppendKeepsNoEnd
<1>3. CASE ~(Len(m) < MailboxSize)
  <2>1. Hand(m, s) = Side(m, s) BY <1>3 DEF Hand
  <2> QED BY <1>1, <2>1 DEF Side, InOrder, NoEnd
<1>4. CASE Len(m) < MailboxSize /\ ~s.fin
  <2>1. Hand(m, s) = Side(m2, NULL) BY <1>4 DEF Hand
  <2>2. Len(m2) <= MailboxSize BY <1>4 DEF Mailboxes
  <2> QED BY <1>2, <1>4, <2>1, <2>2 DEF Side, InOrder, NoEnd
<1>5. CASE Len(m) < MailboxSize /\ s.fin
  <2>1. Hand(m, s) = Side(Trypost(m2, NULL), NULL) BY <1>5 DEF Hand
  <2>2. Len(m2) <= MailboxSize BY <1>5 DEF Mailboxes
  <2>3. Trypost(m2, NULL) \in Mailboxes /\ Len(Trypost(m2, NULL)) <= MailboxSize
    BY <1>2, <2>2, TrypostKeeps
  <2>4. \A i \in 1..Len(Trypost(m2, NULL)) :
           Trypost(m2, NULL)[i] = NULL => i = Len(Trypost(m2, NULL))
    BY <1>2, <2>2, EndIsLast
  <2> QED BY <1>5, <2>1, <2>3, <2>4 DEF Side, InOrder
<1> QED BY <1>3, <1>4, <1>5

(* What is tried again was refused in order.                               *)
LEMMA RetryInOrder ==
  ASSUME NEW m \in Mailboxes, NEW r \in Segments, NEW rest \in Seq(Segments),
         InOrder(m, r, rest)
  PROVE  LET side == tcp_process_refused_data(Side(m, r))
         IN  /\ side.mbox \in Mailboxes /\ side.refused \in Segments \cup {NULL}
             /\ InOrder(side.mbox, side.refused, rest)
             /\ ~r.fin /\ side.refused = NULL => NoEnd(side.mbox)
<1>1. r # NULL OBVIOUS
<1>2. NoEnd(m) BY <1>1 DEF InOrder, NoEnd
<1>3. tcp_process_refused_data(Side(m, r)) = Hand(m, r)
  BY <1>1 DEF tcp_process_refused_data, Side
<1>4. Len(m) <= MailboxSize /\ r.data # <<>> /\ (r.fin => rest = <<>>) /\ Orderly(rest)
  BY <1>1 DEF InOrder
<1> QED BY <1>2, <1>3, <1>4, HandInOrder

LEMMA TailIsOrderly ==
  ASSUME NEW rest \in Seq(Segments), rest # <<>>, Orderly(rest)
  PROVE  /\ Tail(rest) \in Seq(Segments) /\ Orderly(Tail(rest))
         /\ rest[1] \in Segments
         /\ rest[1].fin => Tail(rest) = <<>>
         /\ rest[1].data = <<>> => rest[1].fin
<1> DEFINE others == Tail(rest)
           n == Len(rest)
<1>1. /\ others \in Seq(Segments) /\ Len(others) = n - 1
      /\ \A i \in 1..Len(others) : others[i] = rest[i + 1]
  BY HeadTailProperties
<1>2. n \in Nat \ {0} /\ (others # <<>> => Len(others) # 0)
  BY <1>1, EmptySeq
<1>3. \A i \in 1..n : (rest[i].fin => i = n) /\ (rest[i].data = <<>> => rest[i].fin)
  BY DEF Orderly
<1>4. rest[1] \in Segments BY <1>2
<1> HIDE DEF others, n
<1>5. ASSUME NEW i \in 1..Len(others)
      PROVE  /\ others[i].fin => i = Len(others)
             /\ others[i].data = <<>> => others[i].fin
  <2>1. i + 1 \in 1..n /\ (i + 1 = n => i = Len(others)) BY <1>1, <1>2
  <2>2. others[i] = rest[i + 1] BY <1>1
  <2> QED BY <1>3, <2>1, <2>2, Zenon
<1>6. Orderly(others) BY <1>5 DEF Orderly
<1>7. 1 \in 1..n /\ (n = 1 => others = <<>>) BY <1>1, <1>2
<1>8. (rest[1].fin => 1 = n) /\ (rest[1].data = <<>> => rest[1].fin) BY <1>3, <1>7
<1> QED BY <1>1, <1>4, <1>6, <1>7, <1>8 DEF others

LEMMA InputInOrder ==
  ASSUME NEW m \in Mailboxes, NEW r \in Segments \cup {NULL},
         NEW rest \in Seq(Segments), rest # <<>>, InOrder(m, r, rest),
         tcp_process_refused_data(Side(m, r)).refused = NULL
  PROVE  LET side == tcp_input(Side(m, r), rest[1])
         IN  /\ side.mbox \in Mailboxes /\ side.refused \in Segments \cup {NULL}
             /\ InOrder(side.mbox, side.refused, Tail(rest))
<1> DEFINE m2 == tcp_process_refused_data(Side(m, r)).mbox
           s == rest[1]
<1>1. Orderly(rest) BY DEF InOrder
<1>2. /\ Tail(rest) \in Seq(Segments) /\ Orderly(Tail(rest)) /\ s \in Segments
      /\ s.fin => Tail(rest) = <<>>
      /\ s.data = <<>> => s.fin
  BY <1>1, TailIsOrderly
<1>3. m2 \in Mailboxes /\ NoEnd(m2) /\ Len(m2) <= MailboxSize
  <2>1. CASE r = NULL
    BY <2>1 DEF tcp_process_refused_data, Side, InOrder, NoEnd
  <2>2. CASE r \in Segments
    <3>1. r # NULL /\ ~r.fin BY <2>2 DEF InOrder, Segments
    <3> QED BY <2>2, <3>1, RetryInOrder DEF InOrder
  <2> QED BY <2>1, <2>2
<1>4. CASE s.data = <<>>
  <2>1. tcp_input(Side(m, r), s) = Side(Trypost(m2, NULL), NULL) BY <1>4 DEF tcp_input
  <2>2. Trypost(m2, NULL) \in Mailboxes /\ Len(Trypost(m2, NULL)) <= MailboxSize
    BY <1>3, TrypostKeeps
  <2>3. \A i \in 1..Len(Trypost(m2, NULL)) :
           Trypost(m2, NULL)[i] = NULL => i = Len(Trypost(m2, NULL))
    BY <1>3, EndIsLast
  <2> QED BY <1>2, <1>4, <2>1, <2>2, <2>3 DEF Side, InOrder
<1>5. CASE s.data # <<>>
  <2>1. tcp_input(Side(m, r), s) = Hand(m2, s) BY <1>5 DEF tcp_input
  <2> QED BY <1>2, <1>3, <1>5, <2>1, HandInOrder
<1> QED BY <1>4, <1>5

-----------------------------------------------------------------------------
(* The steps of the network *)

(* No connection is made yet and the server waits in accept.               *)
THEOREM InitInvariant == Init => ServerInv
<1> SUFFICES ASSUME Init PROVE ServerInv OBVIOUS
<1> USE DEF Init, NetconnInit
<1>1. TypeOK BY DEF TypeOK
<1>2. ASSUME NEW c \in Conn PROVE ConnInv(c)
  BY DEF ConnInv, Placed, Valid, Waiting
<1>3. TaskInv BY DEF TaskInv, Valid
<1> QED BY <1>1, <1>2, <1>3 DEF ServerInv

LEMMA DeliverKeeps ==
  ASSUME ServerInv, NEW c \in Conn, Deliver(c), UNCHANGED task PROVE ServerInv'
<1> DEFINE side == tcp_input(Side(recvmbox[c], refused_data[c]), to_send[c][1])
<1> USE DEF ServerInv
<1>1. /\ pcb[c] = "open" /\ recvmbox[c] \in Mailboxes /\ to_send[c] # <<>>
      /\ refused_data[c] \in Segments \cup {NULL} /\ to_send[c] \in Seq(Segments)
      /\ tcp_process_refused_data(Side(recvmbox[c], refused_data[c])).refused = NULL
  BY DEF Deliver, Accepts, Sends, TypeOK, Valid
<1>2. InOrder(recvmbox[c], refused_data[c], to_send[c])
  BY <1>1 DEF ConnInv, Deliver
<1>3. /\ side.mbox \in Mailboxes /\ side.refused \in Segments \cup {NULL}
      /\ InOrder(side.mbox, side.refused, Tail(to_send[c]))
  BY <1>1, <1>2, InputInOrder
<1>4. /\ Tail(to_send[c]) \in Seq(Segments) /\ Orderly(Tail(to_send[c]))
  BY <1>1, TailIsOrderly DEF ConnInv
<1>5. /\ recvmbox' = [recvmbox EXCEPT ![c] = side.mbox]
      /\ refused_data' = [refused_data EXCEPT ![c] = side.refused]
      /\ to_send' = [to_send EXCEPT ![c] = Tail(@)]
      /\ UNCHANGED <<pcb, last_err, acceptmbox, task>>
  BY DEF Deliver, Becomes
<1>6. TypeOK' BY <1>3, <1>4, <1>5 DEF TypeOK, task
<1>7. last_err[c] # "closed" BY <1>1 DEF ConnInv, AllRead
<1>8. ASSUME NEW d \in Conn PROVE ConnInv(d)'
  <2>1. CASE d = c
    BY <1>1, <1>3, <1>4, <1>5, <1>7, <2>1
       DEF ConnInv, Placed, Waiting, AllRead, TypeOK, Valid, InOrder, task
  <2>2. CASE d # c
    <3>1. UNCHANGED <<pcb, last_err, acceptmbox, sock>> BY <1>5 DEF task
    <3>2. /\ recvmbox'[d] = recvmbox[d] /\ refused_data'[d] = refused_data[d]
          /\ to_send'[d] = to_send[d]
      BY <1>5, <2>2 DEF TypeOK
    <3>3. ConnInv(d) OBVIOUS
    <3> QED BY <3>1, <3>2, <3>3 DEF ConnInv, Placed, Waiting, AllRead
  <2> QED BY <2>1, <2>2
<1>9. TaskInv'
  BY <1>1, <1>3, <1>5, <1>7 DEF TaskInv, ConnInv, Placed, TypeOK, Valid, Fatal, task
<1> QED BY <1>6, <1>8, <1>9

LEMMA FasttmrKeeps ==
  ASSUME ServerInv, NEW c \in Conn, tcp_fasttmr(c), UNCHANGED task PROVE ServerInv'
<1> DEFINE side == tcp_process_refused_data(Side(recvmbox[c], refused_data[c]))
<1> USE DEF ServerInv
<1>1. /\ pcb[c] = "open" /\ recvmbox[c] \in Mailboxes
      /\ refused_data[c] \in Segments /\ to_send[c] \in Seq(Segments)
  BY DEF tcp_fasttmr, TypeOK, Valid
<1>2. InOrder(recvmbox[c], refused_data[c], to_send[c])
  BY <1>1 DEF ConnInv, tcp_fasttmr
<1>3. /\ side.mbox \in Mailboxes /\ side.refused \in Segments \cup {NULL}
      /\ InOrder(side.mbox, side.refused, to_send[c])
  BY <1>1, <1>2, RetryInOrder
<1>4. /\ recvmbox' = [recvmbox EXCEPT ![c] = side.mbox]
      /\ refused_data' = [refused_data EXCEPT ![c] = side.refused]
      /\ UNCHANGED <<pcb, last_err, acceptmbox, to_send, task>>
  BY DEF tcp_fasttmr, Becomes, clients
<1> HIDE DEF side
<1>5. TypeOK' BY <1>3, <1>4 DEF TypeOK, task
<1>6. last_err[c] = "ok" BY <1>1 DEF ConnInv, AllRead, Placed, TypeOK
<1>7. ASSUME NEW d \in Conn PROVE ConnInv(d)'
  <2>1. CASE d = c
    BY <1>1, <1>3, <1>4, <1>6, <2>1
       DEF ConnInv, Placed, Waiting, AllRead, TypeOK, Valid, InOrder, task
  <2>2. CASE d # c
    BY <1>4, <2>2 DEF ConnInv, Placed, Waiting, AllRead, TypeOK, task
  <2> QED BY <2>1, <2>2
<1>8. TaskInv'
  BY <1>1, <1>3, <1>4, <1>6 DEF TaskInv, ConnInv, Placed, TypeOK, Valid, Fatal, task
<1> QED BY <1>5, <1>7, <1>8

(* Two segments in one: they are in order still.                           *)
LEMMA ChainIsOrderly ==
  ASSUME NEW rest \in Seq(Segments), Len(rest) > 1, Orderly(rest),
         NEW s, s = Chain(rest[1], rest[2])
  PROVE  /\ s \in Segments /\ s.data # <<>> /\ rest[1].data # <<>>
         /\ <<s>> \o Tail(Tail(rest)) \in Seq(Segments)
         /\ Orderly(<<s>> \o Tail(Tail(rest)))
<1> DEFINE n == Len(rest)
           new == <<s>> \o Tail(Tail(rest))
<1>1. n \in Nat /\ n > 1 /\ rest[1] \in Segments /\ rest[2] \in Segments OBVIOUS
<1>2. \A i \in 1..n : (rest[i].fin => i = n) /\ (rest[i].data = <<>> => rest[i].fin)
  BY DEF Orderly
<1>3. rest[1].data # <<>> /\ (rest[2].fin => n = 2)
  <2>1. 1 \in 1..n /\ 2 \in 1..n BY <1>1
  <2>2. (rest[1].fin => 1 = n) /\ (rest[1].data = <<>> => rest[1].fin) BY <1>2, <2>1
  <2>3. rest[2].fin => 2 = n BY <1>2, <2>1
  <2> QED BY <1>1, <2>2, <2>3
<1>4. /\ s = [data |-> rest[1].data \o rest[2].data, push |-> rest[1].push,
              fin |-> rest[2].fin, after |-> rest[1].after]
      /\ rest[1].data \in Seq(Unit) /\ rest[2].data \in Seq(Unit)
  BY <1>1 DEF Chain, Segments
<1>5. s.data \in Seq(Unit) /\ s.data # <<>> BY <1>3, <1>4
<1>6. s \in Segments /\ s.fin = rest[2].fin BY <1>1, <1>4, <1>5 DEF Segments
<1>7. /\ new \in Seq(Segments) /\ Len(new) = n - 1 /\ new[1] = s
      /\ \A i \in 2 .. n - 1 : new[i] = rest[i + 1]
  <2> DEFINE t == Tail(rest)
             u == Tail(t)
  <2>1. /\ t \in Seq(Segments) /\ Len(t) = n - 1
        /\ \A i \in 1..Len(t) : t[i] = rest[i + 1]
    BY <1>1, HeadTailProperties
  <2> HIDE DEF t, n
  <2>2. t # <<>> BY <1>1, <2>1, EmptySeq
  <2>3. /\ u \in Seq(Segments) /\ Len(u) = n - 2
        /\ \A i \in 1..Len(u) : u[i] = t[i + 1]
    BY <1>1, <2>1, <2>2, HeadTailProperties
  <2> HIDE DEF u
  <2>4. <<s>> \in Seq(Segments) /\ Len(<<s>>) = 1 /\ <<s>>[1] = s BY <1>6
  <2>5. /\ <<s>> \o u \in Seq(Segments) /\ Len(<<s>> \o u) = n - 1
        /\ (<<s>> \o u)[1] = s /\ \A i \in 2 .. n - 1 : (<<s>> \o u)[i] = u[i - 1]
    BY <1>1, <1>6, <2>3, <2>4
  <2>6. ASSUME NEW i \in 2 .. n - 1 PROVE u[i - 1] = rest[i + 1]
    <3>1. i - 1 \in 1..Len(u) /\ (i - 1) + 1 = i /\ i \in 1..Len(t)
      BY <1>1, <2>1, <2>3
    <3>2. u[i - 1] = t[(i - 1) + 1] BY <2>3, <3>1
    <3>3. t[i] = rest[i + 1] BY <2>1, <3>1
    <3> QED BY <3>1, <3>2, <3>3
  <2> QED BY <2>5, <2>6 DEF u, t
<1> HIDE DEF new, n
<1>8. ASSUME NEW i \in 1..Len(new)
      PROVE  (new[i].fin => i = Len(new)) /\ (new[i].data = <<>> => new[i].fin)
  <2>1. CASE i = 1 BY <1>1, <1>3, <1>5, <1>6, <1>7, <2>1
  <2>2. CASE i # 1
    <3>1. i \in 2 .. n - 1 /\ i + 1 \in 1..n /\ (i + 1 = n => i = Len(new))
      BY <1>1, <1>7, <2>2
    <3>2. new[i] = rest[i + 1] BY <1>7, <3>1
    <3> QED BY <1>2, <3>1, <3>2, Zenon
  <2> QED BY <2>1, <2>2
<1>9. Orderly(new) BY <1>8 DEF Orderly
<1> QED BY <1>3, <1>5, <1>6, <1>7, <1>9 DEF new

LEMMA QueueOoseqKeeps ==
  ASSUME ServerInv, NEW c \in Conn, QueueOoseq(c), UNCHANGED task PROVE ServerInv'
<1> DEFINE side == tcp_process_refused_data(Side(recvmbox[c], refused_data[c]))
           s == Chain(to_send[c][1], to_send[c][2])
           new == <<s>> \o Tail(Tail(to_send[c]))
<1> USE DEF ServerInv
<1>1. /\ pcb[c] = "open" /\ recvmbox[c] \in Mailboxes /\ Len(to_send[c]) > 1
      /\ refused_data[c] \in Segments \cup {NULL} /\ to_send[c] \in Seq(Segments)
      /\ side.refused = NULL
  BY DEF QueueOoseq, Accepts, TypeOK, Valid
<1>2. /\ InOrder(recvmbox[c], refused_data[c], to_send[c])
      /\ Orderly(to_send[c]) /\ to_send[c] # <<>>
  BY <1>1 DEF ConnInv, QueueOoseq
<1>3. /\ recvmbox' = [recvmbox EXCEPT ![c] = side.mbox]
      /\ refused_data' = [refused_data EXCEPT ![c] = side.refused]
      /\ to_send' = [to_send EXCEPT ![c] = new]
      /\ UNCHANGED <<pcb, last_err, acceptmbox, task>>
  BY DEF QueueOoseq, Becomes
<1>4. new \in Seq(Segments) /\ Orderly(new) BY <1>1, <1>2, ChainIsOrderly
<1>5. side.mbox \in Mailboxes /\ InOrder(side.mbox, side.refused, to_send[c])
  <2>1. CASE refused_data[c] = NULL
    BY <1>1, <1>2, <2>1 DEF tcp_process_refused_data, Side
  <2>2. CASE refused_data[c] \in Segments BY <1>1, <1>2, <2>2, RetryInOrder
  <2> QED BY <1>1, <2>1, <2>2
<1> HIDE DEF side, new
<1>6. InOrder(side.mbox, side.refused, new)
  BY <1>1, <1>2, <1>4, <1>5 DEF InOrder
<1>7. TypeOK' BY <1>1, <1>3, <1>4, <1>5 DEF TypeOK, task
<1>8. last_err[c] = "ok" BY <1>1, <1>2 DEF ConnInv, AllRead, Placed, TypeOK
<1>9. ASSUME NEW d \in Conn PROVE ConnInv(d)'
  <2>1. CASE d = c
    BY <1>1, <1>3, <1>4, <1>5, <1>6, <1>8, <2>1
       DEF ConnInv, Placed, Waiting, AllRead, TypeOK, Valid, InOrder, task
  <2>2. CASE d # c
    BY <1>3, <2>2 DEF ConnInv, Placed, Waiting, AllRead, TypeOK, task
  <2> QED BY <2>1, <2>2
<1>10. TaskInv'
  BY <1>1, <1>3, <1>5, <1>8 DEF TaskInv, ConnInv, Placed, TypeOK, Valid, Fatal, task
<1> QED BY <1>7, <1>9, <1>10

(* The new connection is the last of acceptmbox.                           *)
LEMMA EstablishKeeps ==
  ASSUME ServerInv, NEW c \in Conn, Establish(c), UNCHANGED task PROVE ServerInv'
<1> USE DEF ServerInv
<1>1. /\ pcb[c] = "none" /\ acceptmbox' = Append(acceptmbox, c)
      /\ pcb' = [pcb EXCEPT ![c] = "open"] /\ recvmbox' = [recvmbox EXCEPT ![c] = <<>>]
      /\ UNCHANGED <<last_err, refused_data, to_send, task>>
  BY DEF Establish, clients
<1>2. /\ last_err[c] = "ok" /\ refused_data[c] = NULL
      /\ ~Waiting(c) /\ c # sock
  BY <1>1 DEF ConnInv, Placed
<1>3. /\ acceptmbox \in Seq(Conn) /\ Len(acceptmbox') = Len(acceptmbox) + 1
      /\ acceptmbox' \in Seq(Conn)
      /\ \A i \in 1..Len(acceptmbox) : acceptmbox'[i] = acceptmbox[i]
      /\ acceptmbox'[Len(acceptmbox) + 1] = c
  BY <1>1 DEF TypeOK
<1>4. <<>> \in Mailboxes /\ <<>> # NULL BY EmptySeq, MailboxIsNotNULL DEF Mailboxes
<1>5. TypeOK' BY <1>1, <1>3, <1>4 DEF TypeOK, task
<1>6. ASSUME NEW d \in Conn PROVE Waiting(d)' <=> Waiting(d) \/ d = c
  <2>1. Len(acceptmbox) \in Nat BY <1>3
  <2>2. 1..Len(acceptmbox') = 1..Len(acceptmbox) \cup {Len(acceptmbox) + 1} BY <1>3, <2>1
  <2> QED BY <1>3, <2>2 DEF Waiting
<1>7. ASSUME NEW d \in Conn PROVE ConnInv(d)'
  <2>1. CASE d = c
    BY <1>1, <1>2, <1>4, <1>6, <2>1
       DEF ConnInv, Placed, AllRead, TypeOK, Valid, InOrder, task
  <2>2. CASE d # c
    BY <1>1, <1>6, <2>2 DEF ConnInv, Placed, AllRead, TypeOK, task
  <2> QED BY <2>1, <2>2
<1>8. \A i, j \in 1..Len(acceptmbox') : acceptmbox'[i] = acceptmbox'[j] => i = j
  <2>1. Len(acceptmbox) \in Nat BY <1>3
  <2>2. 1..Len(acceptmbox') = 1..Len(acceptmbox) \cup {Len(acceptmbox) + 1} BY <1>3, <2>1
  <2>3. \A i \in 1..Len(acceptmbox) : acceptmbox'[i] = acceptmbox[i] /\ acceptmbox[i] # c
    BY <1>2, <1>3 DEF Waiting
  <2> QED BY <1>3, <2>2, <2>3 DEF TaskInv
<1>9. TaskInv'
  BY <1>1, <1>2, <1>4, <1>8 DEF TaskInv, TypeOK, Valid, Fatal, task
<1> QED BY <1>5, <1>7, <1>9

LEMMA RefuseKeeps ==
  ASSUME ServerInv, NEW c \in Conn, Refuse(c), UNCHANGED task PROVE ServerInv'
<1> USE DEF ServerInv
<1>1. /\ pcb[c] = "none" /\ pcb' = [pcb EXCEPT ![c] = "gone"]
      /\ UNCHANGED <<last_err, recvmbox, refused_data, acceptmbox, to_send, task>>
  BY DEF Refuse
<1>2. TypeOK' BY <1>1 DEF TypeOK, task
<1>3. ASSUME NEW d \in Conn PROVE ConnInv(d)'
  BY <1>1 DEF ConnInv, Placed, Waiting, AllRead, TypeOK, task
<1>4. TaskInv' BY <1>1 DEF TaskInv, Fatal, task
<1> QED BY <1>2, <1>3, <1>4

LEMMA ErrKeeps ==
  ASSUME ServerInv, NEW c \in Conn, err_tcp(c), UNCHANGED task PROVE ServerInv'
<1> USE DEF ServerInv
<1>1. /\ pcb[c] = "open"
      /\ pcb' = [pcb EXCEPT ![c] = "gone"] /\ last_err' = [last_err EXCEPT ![c] = "reset"]
      /\ refused_data' = [refused_data EXCEPT ![c] = NULL]
      /\ to_send' = [to_send EXCEPT ![c] = <<>>]
      /\ recvmbox' = [recvmbox EXCEPT ![c] = Trypost(@, NULL)]
      /\ UNCHANGED <<acceptmbox, task>>
  BY DEF err_tcp, Break, TypeOK
<1>2. CASE recvmbox[c] = NULL
  <2>1. Trypost(recvmbox[c], NULL) = NULL BY <1>2 DEF Trypost, Valid
  <2>2. TypeOK' BY <1>1, <2>1 DEF TypeOK, task
  <2>3. ASSUME NEW d \in Conn PROVE ConnInv(d)'
    BY <1>1, <1>2, <2>1 DEF ConnInv, Placed, Waiting, AllRead, TypeOK, Valid, Orderly, task
  <2>4. TaskInv'
    BY <1>1, <1>2, <2>1 DEF TaskInv, TypeOK, Valid, Fatal, ConnInv, Placed, task
  <2> QED BY <2>2, <2>3, <2>4
<1>3. CASE recvmbox[c] # NULL
  <2>1. recvmbox[c] \in Mailboxes /\ Len(recvmbox[c]) <= MailboxSize
    BY <1>3 DEF TypeOK, ConnInv, Valid
  <2>2. /\ recvmbox'[c] \in Mailboxes /\ Len(recvmbox'[c]) <= MailboxSize
        /\ recvmbox'[c] # <<>> /\ recvmbox'[c] # NULL
    BY <1>1, <2>1, TrypostKeeps DEF TypeOK
  <2>3. TypeOK' BY <1>1, <2>2 DEF TypeOK, task
  <2>4. ASSUME NEW d \in Conn PROVE ConnInv(d)'
    BY <1>1, <1>3, <2>2 DEF ConnInv, Placed, Waiting, AllRead, TypeOK, Valid, Orderly, task
  <2>5. TaskInv'
    BY <1>1, <2>2 DEF TaskInv, TypeOK, Valid, Fatal, ConnInv, Placed, task
  <2> QED BY <2>3, <2>4, <2>5
<1> QED BY <1>2, <1>3

LEMMA GiveUpKeeps ==
  ASSUME ServerInv, NEW c \in Conn, GiveUp(c), UNCHANGED task PROVE ServerInv'
<1> DEFINE fin == [data |-> <<>>, push |-> FALSE, fin |-> TRUE, after |-> 0]
<1> USE DEF ServerInv
<1>1. /\ pcb[c] = "open" /\ to_send[c] # <<>>
      /\ refused_data[c] = NULL /\ recvmbox[c] = <<>>
      /\ to_send' = [to_send EXCEPT ![c] = <<fin>>]
      /\ UNCHANGED <<channel, acceptmbox, task>>
  BY DEF GiveUp
<1>2. <<fin>> \in Seq(Segments) /\ Orderly(<<fin>>) BY DEF Segments, Orderly
<1> HIDE DEF fin
<1>3. TypeOK' BY <1>1, <1>2 DEF TypeOK, channel, task
<1>4. last_err[c] # "closed" BY <1>1 DEF ConnInv, AllRead
<1>5. InOrder(<<>>, NULL, <<fin>>) BY <1>2 DEF InOrder
<1>6. ASSUME NEW d \in Conn PROVE ConnInv(d)'
  <2>1. CASE d = c
    <3>1. to_send'[c] = <<fin>> BY <1>1 DEF TypeOK
    <3>2. recvmbox'[c] = <<>> /\ refused_data'[c] = NULL BY <1>1 DEF channel
    <3>3. Orderly(to_send[c])' BY <1>2, <3>1
    <3>4. Placed(c)' BY <1>1, <2>1 DEF ConnInv, Placed, Waiting, channel, task
    <3>5. Len(recvmbox'[c]) =< MailboxSize BY <3>2
    <3>6. InOrder(recvmbox[c], refused_data[c], to_send[c])' BY <1>5, <3>1, <3>2
    <3>7. last_err'[c] # "closed" BY <1>1, <1>4 DEF channel
    <3> QED BY <2>1, <3>3, <3>4, <3>5, <3>6, <3>7 DEF ConnInv
  <2>2. CASE d # c
    <3>1. to_send'[d] = to_send[d] BY <1>1, <2>2 DEF TypeOK
    <3>2. ConnInv(d) OBVIOUS
    <3> QED BY <1>1, <3>1, <3>2 DEF ConnInv, Placed, Waiting, AllRead, channel, task
  <2> QED BY <2>1, <2>2
<1>7. TaskInv' BY <1>1 DEF TaskInv, Fatal, channel, task
<1> QED BY <1>3, <1>6, <1>7

-----------------------------------------------------------------------------
(* The steps of the server *)

LEMMA AcceptKeeps ==
  ASSUME ServerInv, netconn_accept PROVE ServerInv'
<1> DEFINE n == Len(acceptmbox)
<1> USE DEF ServerInv
<1>1. /\ server = "accept" /\ acceptmbox # <<>> /\ acceptmbox \in Seq(Conn)
      /\ acceptmbox' = Tail(acceptmbox) /\ sock' = Head(acceptmbox)
      /\ server' = "peer"
      /\ UNCHANGED <<channel, to_send, rx_buffer, lastdata>>
  BY DEF netconn_accept, clients, TypeOK
<1>2. sock = NULL BY <1>1 DEF TaskInv
<1>3. /\ acceptmbox' \in Seq(Conn) /\ Len(acceptmbox') = n - 1 /\ n \in Nat \ {0}
      /\ \A i \in 1..Len(acceptmbox') : acceptmbox'[i] = acceptmbox[i + 1]
      /\ sock' \in Conn /\ sock' = acceptmbox[1]
  BY <1>1, HeadTailProperties, EmptySeq
<1> HIDE DEF n
<1>4. \A i, j \in 1..n : acceptmbox[i] = acceptmbox[j] => i = j BY DEF TaskInv, n
<1>5. ASSUME NEW i \in 1..Len(acceptmbox'), NEW j \in 1..Len(acceptmbox'),
             acceptmbox'[i] = acceptmbox'[j]
      PROVE  i = j
  <2>1. i + 1 \in 1..n /\ j + 1 \in 1..n /\ (i + 1 = j + 1 => i = j) BY <1>3
  <2>2. acceptmbox[i + 1] = acceptmbox[j + 1] BY <1>3, <1>5
  <2> QED BY <1>4, <2>1, <2>2, Zenon
<1>6. ASSUME NEW d \in Conn
      PROVE  (Waiting(d)' => Waiting(d) /\ d # sock') /\ (Waiting(d) => Waiting(d)' \/ d = sock')
  <2>1. 1 \in 1..n /\ \A i \in 1..Len(acceptmbox') : i + 1 \in 1..n /\ i + 1 # 1 BY <1>3
  <2>2. Waiting(d)' => Waiting(d) /\ d # sock' BY <1>3, <1>4, <2>1 DEF Waiting, n
  <2>3. ASSUME Waiting(d), d # sock' PROVE Waiting(d)'
    <3>1. PICK i \in 1..n : acceptmbox[i] = d BY <2>3 DEF Waiting, n
    <3>2. i # 1 BY <1>3, <2>3, <3>1
    <3>3. i - 1 \in 1..Len(acceptmbox') /\ (i - 1) + 1 = i BY <1>3, <3>1, <3>2
    <3>4. acceptmbox'[i - 1] = d BY <1>3, <3>1, <3>3
    <3> QED BY <3>3, <3>4 DEF Waiting
  <2> QED BY <2>2, <2>3
<1> DEFINE h == acceptmbox[1]
<1>7. Waiting(h) /\ h \in Conn BY <1>3 DEF Waiting, n
<1> HIDE DEF h
<1>8. Valid(recvmbox[h]) /\ last_err[h] # "closed" BY <1>7 DEF ConnInv, Placed
<1>9. TypeOK' BY <1>1, <1>3 DEF TypeOK, channel
<1>10. ASSUME NEW d \in Conn PROVE ConnInv(d)'
  <2>1. Waiting(d) <=> Waiting(d)' \/ d = sock' BY <1>3, <1>6, <1>7 DEF h
  <2>2. Waiting(d)' => d # sock' BY <1>6
  <2>3. d # sock BY <1>2
  <2>4. UNCHANGED <<pcb, last_err, recvmbox, refused_data, to_send>> BY <1>1 DEF channel
  <2>5. ConnInv(d) OBVIOUS
  <2>6. Placed(d)' BY <2>1, <2>2, <2>3, <2>4, <2>5 DEF ConnInv, Placed
  <2> QED BY <2>4, <2>5, <2>6 DEF ConnInv, AllRead
<1>11. sock' = h /\ sock' # NULL BY <1>3 DEF h
<1>12. Valid(recvmbox'[sock']) /\ last_err'[sock'] # "closed"
  BY <1>1, <1>8, <1>11 DEF channel, Valid
<1>13. TaskInv' BY <1>1, <1>5, <1>11, <1>12 DEF TaskInv, Valid
<1> QED BY <1>9, <1>10, <1>13

LEMMA PeerKeeps ==
  ASSUME ServerInv, do_getaddr PROVE ServerInv'
<1> USE DEF ServerInv
<1>1. /\ server = "peer" /\ sock \in Conn
      /\ UNCHANGED <<pcb, last_err, refused_data, acceptmbox, to_send, rx_buffer, lastdata>>
  BY DEF do_getaddr, clients, TaskInv, TypeOK
<1>2. CASE pcb[sock] = "open"
  <2>1. server' = "recv" /\ UNCHANGED <<recvmbox, sock>> BY <1>2 DEF do_getaddr
  <2>2. TypeOK' BY <1>1, <2>1 DEF TypeOK
  <2>3. ASSUME NEW d \in Conn PROVE ConnInv(d)'
    BY <1>1, <2>1 DEF ConnInv, Placed, Waiting, AllRead
  <2>4. TaskInv' BY <1>1, <2>1 DEF TaskInv
  <2> QED BY <2>2, <2>3, <2>4
<1>3. CASE pcb[sock] # "open"
  <2>1. /\ server' = "clean_up" /\ sock' = NULL
        /\ recvmbox' = [recvmbox EXCEPT ![sock] = NULL]
    BY <1>3 DEF do_getaddr
  <2>2. TypeOK' BY <1>1, <2>1 DEF TypeOK
  <2>3. ASSUME NEW d \in Conn PROVE ConnInv(d)'
    BY <1>1, <1>3, <2>1 DEF ConnInv, Placed, Waiting, AllRead, TypeOK, Valid
  <2>4. TaskInv' BY <1>1, <2>1 DEF TaskInv, Valid
  <2> QED BY <2>2, <2>3, <2>4
<1> QED BY <1>2, <1>3

LEMMA CleanUpKeeps ==
  ASSUME ServerInv, CleanUp PROVE ServerInv'
<1> USE DEF ServerInv
<1>1. /\ server = "clean_up" /\ server' = "deleted" /\ sock = NULL
      /\ acceptmbox' = <<>> /\ acceptmbox \in Seq(Conn)
      /\ UNCHANGED <<sock, rx_buffer, lastdata>>
  BY DEF CleanUp, TaskInv, TypeOK
<1>2. \A d \in Conn : d \in ToSet(acceptmbox) <=> Waiting(d)
  <2>1. DOMAIN acceptmbox = 1..Len(acceptmbox) BY <1>1
  <2> QED BY <2>1, Zenon DEF ToSet, Waiting
<1>3. \A d \in Conn : Waiting(d) /\ pcb[d] = "open" <=> d \in {c \in ToSet(acceptmbox) : pcb[c] = "open"}
  BY <1>2
<1>4. TypeOK'
  BY <1>1 DEF CleanUp, Break, TypeOK
<1>5. ASSUME NEW d \in Conn PROVE ConnInv(d)'
  <2>1. CASE Waiting(d)
    BY <1>1, <1>2, <2>1 DEF CleanUp, Break, ConnInv, Placed, Waiting, AllRead, Valid, Orderly, TypeOK
  <2>2. CASE ~Waiting(d)
    BY <1>1, <1>2, <2>2 DEF CleanUp, Break, ConnInv, Placed, Waiting, AllRead, Valid, TypeOK
  <2> QED BY <2>1, <2>2
<1>6. TaskInv' BY <1>1 DEF TaskInv, CleanUp
<1> QED BY <1>4, <1>5, <1>6

LEMMA CopyKeeps ==
  ASSUME rx_buffer \in Seq(Unit), NEW p \in Pbufs, NEW mbox, Copy(p, mbox)
  PROVE  /\ rx_buffer' \in Seq(Unit) /\ rx_buffer' # <<>>
         /\ lastdata' \in Pbufs \cup {NULL}
         /\ server' \in {"json_wp", "recv"}
<1> DEFINE data == rx_buffer \o p.data
           rest == SubSeq(data, Fits(data) + 1, Len(data))
<1>1. p.data \in Seq(Unit) /\ p.data # <<>> BY DEF Pbufs
<1>2. data \in Seq(Unit) /\ Len(data) \in Nat \ {0}
  BY <1>1, EmptySeq
<1> HIDE DEF data
<1>3. Fits(data) \in 1..Len(data) BY <1>2 DEF Fits
<1>4. SubSeq(data, 1, Fits(data)) \in Seq(Unit) /\ SubSeq(data, 1, Fits(data)) # <<>>
  BY <1>2, <1>3
<1>5. rest \in Seq(Unit) BY <1>2, <1>3
<1>6. /\ rx_buffer' = SubSeq(data, 1, Fits(data))
      /\ lastdata' = IF rest = <<>> THEN NULL ELSE [p EXCEPT !.data = rest]
      /\ server' \in {"json_wp", "recv"}
  BY DEF Copy, data
<1> HIDE DEF rest
<1>7. rest # <<>> => [p EXCEPT !.data = rest] \in Pbufs BY <1>5 DEF Pbufs
<1> QED BY <1>4, <1>6, <1>7

(* A step of the task alone, which keeps its connection.                   *)
LEMMA ConnectionsStay ==
  ASSUME ServerInv,
         UNCHANGED <<pcb, last_err, recvmbox, refused_data, to_send, acceptmbox, sock>>
  PROVE  \A c \in Conn : ConnInv(c)'
BY DEF ServerInv, ConnInv, Placed, Waiting, AllRead

LEMMA RecvRestKeeps ==
  ASSUME ServerInv, RecvRest PROVE ServerInv'
<1> USE DEF ServerInv
<1>1. /\ server = "recv" /\ lastdata \in Pbufs /\ Copy(lastdata, recvmbox[sock])
      /\ UNCHANGED <<pcb, last_err, recvmbox, refused_data, to_send, acceptmbox, sock>>
      /\ rx_buffer \in Seq(Unit)
  BY DEF RecvRest, netconnVars, channel, clients, TypeOK
<1>2. /\ rx_buffer' \in Seq(Unit) /\ rx_buffer' # <<>>
      /\ lastdata' \in Pbufs \cup {NULL} /\ server' \in {"json_wp", "recv"}
  BY <1>1, CopyKeeps
<1>3. TypeOK' BY <1>1, <1>2 DEF TypeOK
<1>4. TaskInv' BY <1>1, <1>2 DEF TaskInv
<1> QED BY <1>1, <1>3, <1>4, ConnectionsStay

LEMMA TestErrorKeeps ==
  ASSUME ServerInv, TestError PROVE ServerInv'
<1> USE DEF ServerInv
<1>1. /\ server = "recv" /\ UNCHANGED <<rx_buffer, lastdata>>
      /\ UNCHANGED <<pcb, last_err, recvmbox, refused_data, to_send, acceptmbox, sock>>
      /\ \/ Fatal(sock) /\ server' = "shutdown"
         \/ Fatal(sock) /\ server' = "json_wp" /\ rx_buffer # <<>>
         \/ ~Fatal(sock) /\ server' = "fetch"
  BY DEF TestError, Ended, netconnVars, channel, clients
<1>2. TypeOK' BY <1>1 DEF TypeOK
<1>3. TaskInv' BY <1>1 DEF TaskInv, Fatal
<1> QED BY <1>1, <1>2, <1>3, ConnectionsStay

LEMMA FetchLeavesRest ==
  ASSUME NEW m \in Mailboxes, m # <<>>
  PROVE  /\ Tail(m) \in Mailboxes /\ Len(Tail(m)) = Len(m) - 1 /\ Len(m) \in Nat \ {0}
         /\ Head(m) = m[1] /\ Head(m) \in Pbufs \cup {NULL}
         /\ \A i \in 1..Len(Tail(m)) : Tail(m)[i] = m[i + 1]
         /\ Tail(m) = <<>> <=> Len(Tail(m)) = 0
<1>1. /\ Tail(m) \in Mailboxes /\ Len(Tail(m)) = Len(m) - 1
      /\ Head(m) = m[1] /\ Head(m) \in Pbufs \cup {NULL}
      /\ \A i \in 1..Len(Tail(m)) : Tail(m)[i] = m[i + 1]
  BY HeadTailProperties DEF Mailboxes
<1>2. Len(m) \in Nat \ {0} /\ (Tail(m) = <<>> <=> Len(Tail(m)) = 0)
  BY <1>1, EmptySeq DEF Mailboxes
<1> QED BY <1>1, <1>2

(* What is behind the first pbuf is in order too.                          *)
LEMMA FetchInOrder ==
  ASSUME NEW m \in Mailboxes, m # <<>>, NEW refused, NEW rest, InOrder(m, refused, rest)
  PROVE  /\ InOrder(Tail(m), refused, rest)
         /\ Head(m) = NULL => Tail(m) = <<>> /\ refused = NULL /\ rest = <<>>
<1> DEFINE t == Tail(m)
           n == Len(m)
<1>1. /\ Len(t) = n - 1 /\ n \in Nat \ {0} /\ Head(m) = m[1]
      /\ \A i \in 1..Len(t) : t[i] = m[i + 1]
      /\ t = <<>> <=> Len(t) = 0
  BY FetchLeavesRest
<1>2. \A i \in 1..n : m[i] = NULL => i = n /\ refused = NULL /\ rest = <<>>
  BY DEF InOrder
<1>3. n <= MailboxSize BY DEF InOrder
<1> HIDE DEF t, n
<1>4. \A i \in 1..Len(t) : i + 1 \in 1..n /\ (i + 1 = n => i = Len(t)) BY <1>1
<1>5. \A i \in 1..Len(t) : t[i] = NULL => i = Len(t) /\ refused = NULL /\ rest = <<>>
  BY <1>1, <1>2, <1>4, Zenon
<1>6. Len(t) <= MailboxSize BY <1>1, <1>3
<1>7. InOrder(t, refused, rest) BY <1>5, <1>6 DEF InOrder
<1>8. 1 \in 1..n /\ (1 = n => Len(t) = 0) BY <1>1
<1> QED BY <1>1, <1>2, <1>7, <1>8 DEF t

(* The end is fetched last: when last_err is set, all has been read.       *)
LEMMA FetchKeeps ==
  ASSUME ServerInv, Fetch PROVE ServerInv'
<1> DEFINE m == recvmbox[sock]
<1> USE DEF ServerInv
<1>1. /\ server = "fetch" /\ m # <<>> /\ sock \in Conn /\ rx_buffer \in Seq(Unit)
      /\ recvmbox' = [recvmbox EXCEPT ![sock] = Tail(m)]
      /\ UNCHANGED <<pcb, refused_data, to_send, acceptmbox, sock>>
  BY DEF Fetch, clients, TaskInv, TypeOK
<1>2. m \in Mailboxes /\ m # NULL /\ Len(m) <= MailboxSize
  BY <1>1 DEF TaskInv, TypeOK, Valid, ConnInv
<1>3. /\ Tail(m) \in Mailboxes /\ Len(Tail(m)) = Len(m) - 1 /\ Len(m) \in Nat \ {0}
      /\ Head(m) \in Pbufs \cup {NULL} /\ Tail(m) # NULL
  BY <1>1, <1>2, FetchLeavesRest, MailboxIsNotNULL
<1>4. pcb[sock] = "open" =>
        /\ InOrder(Tail(m), refused_data[sock], to_send[sock])
        /\ Head(m) = NULL => Tail(m) = <<>> /\ refused_data[sock] = NULL /\ to_send[sock] = <<>>
  <2>1. pcb[sock] = "open" => InOrder(m, refused_data[sock], to_send[sock])
    BY <1>1, <1>2 DEF ConnInv, Valid
  <2> QED BY <1>1, <1>2, <2>1, FetchInOrder
<1>5. /\ last_err[sock] \in {"ok", "reset"}
      /\ last_err[sock] = "ok" => pcb[sock] = "open"
  BY <1>1, <1>2 DEF ConnInv, AllRead, Placed, TypeOK
<1>6. Len(Tail(m)) <= MailboxSize BY <1>2, <1>3
<1>7. CASE Head(m) = NULL
  <2>1. /\ last_err' = [last_err EXCEPT ![sock] = IF @ = "ok" THEN "closed" ELSE @]
        /\ UNCHANGED <<rx_buffer, lastdata>>
        /\ \/ server' = "shutdown"
           \/ server' = "json_wp" /\ rx_buffer # <<>>
    BY <1>7 DEF Fetch, Ended
  <2> HIDE DEF m
  <2>2. TypeOK' BY <1>1, <1>3, <2>1 DEF TypeOK
  <2>3. ASSUME NEW d \in Conn PROVE ConnInv(d)'
    <3>1. CASE d = sock
      BY <1>1, <1>3, <1>4, <1>5, <1>6, <1>7, <2>1, <3>1
         DEF ConnInv, Placed, Waiting, AllRead, Valid, TypeOK
    <3>2. CASE d # sock
      BY <1>1, <2>1, <3>2 DEF ConnInv, Placed, Waiting, AllRead, TypeOK
    <3> QED BY <3>1, <3>2
  <2>4. TaskInv' BY <1>1, <1>3, <1>5, <2>1 DEF TaskInv, TypeOK, Valid, Fatal
  <2> QED BY <2>2, <2>3, <2>4
<1>8. CASE Head(m) # NULL
  <2>1. UNCHANGED last_err /\ Copy(Head(m), Tail(m)) BY <1>8 DEF Fetch
  <2>2. /\ rx_buffer' \in Seq(Unit) /\ rx_buffer' # <<>>
        /\ lastdata' \in Pbufs \cup {NULL} /\ server' \in {"json_wp", "recv"}
    BY <1>1, <1>3, <1>8, <2>1, CopyKeeps
  <2> HIDE DEF m
  <2>3. TypeOK' BY <1>1, <1>3, <2>1, <2>2 DEF TypeOK
  <2>4. ASSUME NEW d \in Conn PROVE ConnInv(d)'
    <3>1. CASE d = sock
      BY <1>1, <1>3, <1>4, <1>5, <1>6, <2>1, <3>1
         DEF ConnInv, Placed, Waiting, AllRead, Valid, TypeOK
    <3>2. CASE d # sock
      BY <1>1, <2>1, <3>2 DEF ConnInv, Placed, Waiting, AllRead, TypeOK
    <3> QED BY <3>1, <3>2
  <2>5. TaskInv' BY <1>1, <1>3, <2>1, <2>2 DEF TaskInv, TypeOK, Valid
  <2> QED BY <2>3, <2>4, <2>5
<1> QED BY <1>7, <1>8

LEMMA JsonKeeps ==
  ASSUME ServerInv, json_wp PROVE ServerInv'
<1> USE DEF ServerInv
<1>1. /\ server = "json_wp" /\ server' \in {"recv", "header"}
      /\ rx_buffer' = <<>> /\ UNCHANGED lastdata
      /\ UNCHANGED <<pcb, last_err, recvmbox, refused_data, to_send, acceptmbox, sock>>
  BY DEF json_wp, NotParsed, Execute, netconnVars, channel, clients
<1>2. TypeOK' BY <1>1, EmptySeq DEF TypeOK
<1>3. TaskInv' BY <1>1 DEF TaskInv
<1> QED BY <1>1, <1>2, <1>3, ConnectionsStay

LEMMA SendKeeps ==
  ASSUME ServerInv, SendHeader \/ SendBody PROVE ServerInv'
<1> USE DEF ServerInv
<1>1. /\ server \in {"header", "body"} /\ server' \in {"body", "recv"}
      /\ UNCHANGED <<rx_buffer, lastdata>>
      /\ UNCHANGED <<pcb, last_err, recvmbox, refused_data, to_send, acceptmbox, sock>>
  BY DEF SendHeader, SendBody, Send, channel
<1>2. TypeOK' BY <1>1 DEF TypeOK
<1>3. TaskInv' BY <1>1 DEF TaskInv
<1> QED BY <1>1, <1>2, <1>3, ConnectionsStay

(* The connection that is closed has been read to its end or was reset.    *)
LEMMA CloseKeeps ==
  ASSUME ServerInv, do_close PROVE ServerInv'
<1> USE DEF ServerInv
<1>1. /\ server = "shutdown" /\ server' = "close" /\ sock \in Conn /\ Fatal(sock)
      /\ UNCHANGED <<pcb, last_err, to_send, acceptmbox, sock, rx_buffer, lastdata>>
  BY DEF do_close, clients, TaskInv, TypeOK
<1>2. CASE pcb[sock] = "open"
  <2>1. /\ recvmbox' = [recvmbox EXCEPT ![sock] = NULL]
        /\ refused_data' = [refused_data EXCEPT ![sock] = NULL]
    BY <1>2 DEF do_close, Becomes, Side
  <2>2. TypeOK' BY <1>1, <2>1 DEF TypeOK
  <2>3. ASSUME NEW d \in Conn PROVE ConnInv(d)'
    BY <1>1, <2>1 DEF ConnInv, Placed, Waiting, AllRead, Valid, TypeOK
  <2>4. TaskInv' BY <1>1, <2>1 DEF TaskInv, Fatal
  <2> QED BY <2>2, <2>3, <2>4
<1>3. CASE pcb[sock] # "open"
  <2>1. UNCHANGED <<recvmbox, refused_data>> BY <1>3 DEF do_close
  <2>2. TypeOK' BY <1>1, <2>1 DEF TypeOK
  <2>3. TaskInv' BY <1>1, <2>1 DEF TaskInv, Fatal
  <2> QED BY <1>1, <2>1, <2>2, <2>3, ConnectionsStay
<1> QED BY <1>2, <1>3

LEMMA DelconnKeeps ==
  ASSUME ServerInv, do_delconn PROVE ServerInv'
<1> USE DEF ServerInv
<1>1. /\ server = "close" /\ server' = "accept" /\ sock \in Conn /\ Fatal(sock)
      /\ recvmbox' = [recvmbox EXCEPT ![sock] = NULL]
      /\ sock' = NULL /\ lastdata' = NULL
      /\ UNCHANGED <<last_err, refused_data, to_send, acceptmbox, rx_buffer>>
      /\ pcb' = [pcb EXCEPT ![sock] = IF @ = "open" THEN "gone" ELSE @]
  BY DEF do_delconn, TaskInv, TypeOK
<1>2. refused_data[sock] = NULL
  BY <1>1 DEF ConnInv, Placed, AllRead, TypeOK, Fatal
<1>3. TypeOK' BY <1>1 DEF TypeOK
<1>4. ASSUME NEW d \in Conn PROVE ConnInv(d)'
  <2>1. CASE d = sock
    BY <1>1, <1>2, <2>1 DEF ConnInv, Placed, Waiting, AllRead, Valid, TypeOK
  <2>2. CASE d # sock
    BY <1>1, <2>2 DEF ConnInv, Placed, Waiting, AllRead, TypeOK
  <2> QED BY <2>1, <2>2
<1>5. TaskInv' BY <1>1 DEF TaskInv
<1> QED BY <1>3, <1>4, <1>5

-----------------------------------------------------------------------------
LEMMA NextKeeps ==
  ASSUME ServerInv, [Next]_vars PROVE ServerInv'
<1>1. CASE ServerTask
  BY <1>1, AcceptKeeps, PeerKeeps, CleanUpKeeps, RecvRestKeeps, TestErrorKeeps,
     FetchKeeps, JsonKeeps, SendKeeps, CloseKeeps, DelconnKeeps DEF ServerTask
<1>2. ASSUME NEW c \in Conn, Network(c), UNCHANGED task PROVE ServerInv'
  BY <1>2, DeliverKeeps, QueueOoseqKeeps, FasttmrKeeps, EstablishKeeps, RefuseKeeps,
     ErrKeeps, GiveUpKeeps DEF Network
<1>3. CASE UNCHANGED vars
  <2>1. /\ UNCHANGED <<pcb, last_err, recvmbox, refused_data, to_send, acceptmbox, sock>>
        /\ UNCHANGED <<server, rx_buffer, lastdata>>
    BY <1>3 DEF vars, netconnVars, channel, clients, task
  <2>2. TypeOK' /\ TaskInv' BY <2>1 DEF ServerInv, TypeOK, TaskInv, Fatal
  <2> QED BY <2>1, <2>2, ConnectionsStay DEF ServerInv
<1> QED BY <1>1, <1>2, <1>3 DEF Next

(* Whatever clients send and however the mailboxes fill, the end of a      *)
(* connection is fetched when everything before it has been, the server    *)
(* closes nothing unread, and a connection waits in one place only.        *)
THEOREM ServerInvariant == Spec => []ServerInv
<1>1. Init => ServerInv BY InitInvariant
<1>2. ServerInv /\ [Next]_vars => ServerInv' BY NextKeeps
<1> QED BY <1>1, <1>2, PTL DEF Spec

(* The server does not sleep on an empty mailbox of a broken connection,   *)
(* for any mailbox size and any number of connections.                     *)
THEOREM NeverStrandedAnySize == Spec => []NeverStranded
<1>1. ServerInv => NeverStranded BY DEF ServerInv, TaskInv, NeverStranded
<1> QED BY <1>1, ServerInvariant, PTL
-----------------------------------------------------------------------------
(* The answers *)

Answers == {"header", "body"} \X Unit

\* The frames the connection is still to get.
Owed(c) ==
  IF c # sock THEN 0
  ELSE IF server = "header" THEN 2 ELSE IF server = "body" THEN 1 ELSE 0

\* What came back, g, is of the answers s and, if the pcb is gone, ends.
Framed(g, s, state, error, owed) ==
  LET n == IF state = "gone" THEN Len(g) - 1 ELSE Len(g)
  IN  /\ g \in Seq(Answers \cup Ends) /\ s \in Seq(Unit)
      /\ state = "gone" => Len(g) > 0 /\ g[Len(g)] \in Ends
      /\ n + owed <= 2 * Len(s)
      /\ error = "ok" => n + owed = 2 * Len(s)
      /\ \A i \in 1..n : g[i] = Frame(s, i)

ConnFramed(c) == Framed(got[c], replies[c], pcb[c], last_err[c], Owed(c))

\* SendHeader and SendBody send the answer made last.
RequestLast ==
  server \in {"header", "body"} =>
    Len(replies[sock]) > 0 /\ request = replies[sock][Len(replies[sock])]

AnswersInv ==
  /\ got \in [Conn -> Seq(Answers \cup Ends)] /\ replies \in [Conn -> Seq(Unit)]
  /\ \A c \in Conn : ConnFramed(c)
  /\ RequestLast

LEMMA FrameKeeps ==
  ASSUME NEW s \in Seq(Unit), NEW r, NEW i \in 1 .. 2 * Len(s)
  PROVE  Frame(Append(s, r), i) = Frame(s, i)
<1>1. (i + 1) \div 2 \in 1..Len(s) OBVIOUS
<1>2. Append(s, r)[(i + 1) \div 2] = s[(i + 1) \div 2] BY <1>1
<1> QED BY <1>2 DEF Frame

LEMMA LastFrames ==
  ASSUME NEW s \in Seq(Unit), Len(s) > 0
  PROVE  /\ Frame(s, 2 * Len(s) - 1) = <<"header", s[Len(s)]>>
         /\ Frame(s, 2 * Len(s)) = <<"body", s[Len(s)]>>
<1> DEFINE n == Len(s)
<1>1. n \in Nat \ {0} OBVIOUS
<1> HIDE DEF n
<1>2. (2 * n - 1) % 2 = 1 /\ ((2 * n - 1) + 1) \div 2 = n BY <1>1
<1>3. (2 * n) % 2 = 0 /\ ((2 * n) + 1) \div 2 = n BY <1>1
<1>4. Frame(s, 2 * n - 1) = <<"header", s[n]>> BY <1>2 DEF Frame
<1>5. Frame(s, 2 * n) = <<"body", s[n]>> BY <1>3 DEF Frame
<1> QED BY <1>4, <1>5 DEF n

LEMMA FrameIsAnswer ==
  ASSUME NEW s \in Seq(Unit), NEW i \in 1 .. 2 * Len(s)
  PROVE  Frame(s, i) \in Answers
<1>1. (i + 1) \div 2 \in 1..Len(s) OBVIOUS
<1>2. s[(i + 1) \div 2] \in Unit BY <1>1
<1> QED BY <1>2 DEF Frame, Answers

LEMMA AnswersDoNotEnd == Answers \cap Ends = {}
<1> SUFFICES ASSUME NEW a \in Answers, a \in Ends PROVE FALSE OBVIOUS
<1>1. a[1] \in {"header", "body"} BY DEF Answers
<1>2. a[1] \in {"rst", "fin"} BY DEF Ends
<1> QED BY <1>1, <1>2

(* The end of the connection is the last a client gets.                    *)
LEMMA EndKeepsFramed ==
  ASSUME NEW g, NEW s, NEW state, NEW error, NEW error2, NEW owed \in Nat,
         Framed(g, s, state, error, owed), state # "gone",
         error2 = "ok" => error = "ok", NEW x \in Ends
  PROVE  Framed(Append(g, x), s, "gone", error2, owed)
<1> DEFINE g2 == Append(g, x)
<1>1. g \in Seq(Answers \cup Ends) /\ s \in Seq(Unit) BY DEF Framed
<1>2. /\ g2 \in Seq(Answers \cup Ends) /\ Len(g2) = Len(g) + 1
      /\ g2[Len(g2)] = x /\ \A i \in 1..Len(g) : g2[i] = g[i]
      /\ Len(g) \in Nat
  BY <1>1
<1>3. /\ Len(g) + owed <= 2 * Len(s)
      /\ error2 = "ok" => Len(g) + owed = 2 * Len(s)
      /\ \A i \in 1..Len(g) : g[i] = Frame(s, i)
  BY DEF Framed
<1> HIDE DEF g2
<1>4. Len(g2) > 0 /\ Len(g2) - 1 = Len(g) BY <1>2
<1>5. Framed(g2, s, "gone", error2, owed) BY <1>1, <1>2, <1>3, <1>4 DEF Framed
<1> QED BY <1>5 DEF g2

(* A step that sends nothing and answers nothing.                          *)
LEMMA QuietKeepsFramed ==
  ASSUME NEW g, NEW s, NEW state, NEW error, NEW owed,
         Framed(g, s, state, error, owed),
         NEW state2, NEW error2, (state2 = "gone") <=> (state = "gone"),
         error2 = "ok" => error = "ok"
  PROVE  Framed(g, s, state2, error2, owed)
BY DEF Framed

(* json_wp has made an answer.                                             *)
LEMMA JsonKeepsFramed ==
  ASSUME NEW g, NEW s, NEW state, NEW error, NEW r \in Unit,
         Framed(g, s, state, error, 0)
  PROVE  Framed(g, Append(s, r), state, error, 2)
<1> DEFINE s2 == Append(s, r)
           n == IF state = "gone" THEN Len(g) - 1 ELSE Len(g)
<1>1. s \in Seq(Unit) /\ g \in Seq(Answers \cup Ends) BY DEF Framed
<1>2. s2 \in Seq(Unit) /\ Len(s2) = Len(s) + 1 /\ Len(s) \in Nat BY <1>1
<1>3. /\ state = "gone" => Len(g) > 0 /\ g[Len(g)] \in Ends
      /\ n <= 2 * Len(s)
      /\ error = "ok" => n = 2 * Len(s)
      /\ \A i \in 1..n : g[i] = Frame(s, i)
      /\ n \in Nat
  BY <1>1 DEF Framed
<1>4. ASSUME NEW i \in 1..n PROVE Frame(s2, i) = Frame(s, i)
  <2>1. i \in 1 .. 2 * Len(s) BY <1>2, <1>3
  <2> QED BY <1>1, <2>1, FrameKeeps
<1> HIDE DEF s2
<1> QED BY <1>1, <1>2, <1>3, <1>4 DEF Framed, s2

(* The header or the body that is sent is the next frame.                  *)
LEMMA SendKeepsFramed ==
  ASSUME NEW g, NEW s, NEW state, state # "gone", NEW owed \in {1, 2},
         Framed(g, s, state, "ok", owed), Len(s) > 0,
         NEW x, x = <<IF owed = 2 THEN "header" ELSE "body", s[Len(s)]>>
  PROVE  Framed(Append(g, x), s, state, "ok", owed - 1) /\ x \in Answers
<1> DEFINE g2 == Append(g, x)
<1>1. g \in Seq(Answers \cup Ends) /\ s \in Seq(Unit) BY DEF Framed
<1>2. /\ Len(g) + owed = 2 * Len(s)
      /\ \A i \in 1..Len(g) : g[i] = Frame(s, i)
  BY DEF Framed
<1>3. Len(g) \in Nat /\ Len(s) \in Nat \ {0} BY <1>1
<1>4. Frame(s, Len(g) + 1) = x
  <2>1. CASE owed = 2
    <3>1. Len(g) + 1 = 2 * Len(s) - 1 BY <1>2, <1>3, <2>1
    <3> QED BY <1>1, <2>1, <3>1, LastFrames
  <2>2. CASE owed = 1
    <3>1. Len(g) + 1 = 2 * Len(s) BY <1>2, <1>3, <2>2
    <3> QED BY <1>1, <2>2, <3>1, LastFrames
  <2> QED BY <2>1, <2>2
<1>5. x \in Answers
  <2>1. Len(g) + 1 \in 1 .. 2 * Len(s) BY <1>2, <1>3
  <2>2. Frame(s, Len(g) + 1) \in Answers BY <1>1, <2>1, FrameIsAnswer
  <2> QED BY <1>4, <2>2
<1>6. /\ g2 \in Seq(Answers \cup Ends) /\ Len(g2) = Len(g) + 1
      /\ g2[Len(g) + 1] = x /\ \A i \in 1..Len(g) : g2[i] = g[i]
  BY <1>1, <1>5
<1> HIDE DEF g2
<1>7. \A i \in 1..Len(g2) : g2[i] = Frame(s, i)
  <2> TAKE i \in 1..Len(g2)
  <2>1. i \in 1..Len(g) \/ i = Len(g) + 1 BY <1>3, <1>6
  <2> QED BY <1>2, <1>4, <1>6, <2>1
<1>8. Len(g2) + (owed - 1) = 2 * Len(s) /\ Len(g2) \in Nat /\ owed - 1 \in Nat
  BY <1>2, <1>3, <1>6
<1> HIDE DEF Answers, Ends
<1>9. Framed(g2, s, state, "ok", owed - 1)
  BY <1>1, <1>6, <1>7, <1>8 DEF Framed
<1> QED BY <1>5, <1>9 DEF g2

Quiet(c) ==
  /\ got'[c] = got[c] /\ (pcb'[c] = "gone" <=> pcb[c] = "gone")
  /\ last_err'[c] = "ok" => last_err[c] = "ok"

EndOf(c) ==
  /\ pcb[c] # "gone" /\ pcb'[c] = "gone"
  /\ \E x \in Ends : got'[c] = Append(got[c], x)
  /\ last_err'[c] = "ok" => last_err[c] = "ok"

LEMMA OwedType == ASSUME NEW c PROVE Owed(c) \in {0, 1, 2}
BY DEF Owed

LEMMA StepKeepsAnswers ==
  ASSUME AnswersInv, UNCHANGED replies, RequestLast',
         got' = [c \in Conn |-> got'[c]],
         \A c \in Conn : (Quiet(c) \/ EndOf(c)) /\ Owed(c)' = Owed(c)
  PROVE  AnswersInv'
<1>1. ASSUME NEW c \in Conn PROVE ConnFramed(c)'
  <2>1. Framed(got[c], replies[c], pcb[c], last_err[c], Owed(c))
    BY DEF AnswersInv, ConnFramed
  <2>2. CASE Quiet(c)
    <3>1. Framed(got[c], replies[c], pcb'[c], last_err'[c], Owed(c))
      BY <2>1, <2>2, QuietKeepsFramed DEF Quiet
    <3> QED BY <2>2, <3>1 DEF ConnFramed, Quiet
  <2>3. CASE EndOf(c)
    <3>1. PICK x \in Ends : got'[c] = Append(got[c], x) BY <2>3 DEF EndOf
    <3>2. Owed(c) \in Nat BY OwedType
    <3>3. Framed(Append(got[c], x), replies[c], "gone", last_err'[c], Owed(c))
      BY <2>1, <2>3, <3>2, EndKeepsFramed DEF EndOf
    <3> QED BY <2>3, <3>1, <3>3 DEF ConnFramed, EndOf
  <2> QED BY <2>2, <2>3
<1>2. \A c \in Conn : got'[c] \in Seq(Answers \cup Ends)
  BY <1>1 DEF ConnFramed, Framed
<1>3. got' \in [Conn -> Seq(Answers \cup Ends)] BY <1>2
<1> QED BY <1>1, <1>3 DEF AnswersInv

(* While a connection is made and requests come in, nothing goes back.     *)
LEMMA InitAnswers == Init => AnswersInv
<1> SUFFICES ASSUME Init PROVE AnswersInv OBVIOUS
<1>1. /\ got = [c \in Conn |-> <<>>] /\ replies = [c \in Conn |-> <<>>]
      /\ pcb = [c \in Conn |-> "none"] /\ server = "accept"
  BY DEF Init, NetconnInit
<1>2. ASSUME NEW c \in Conn PROVE ConnFramed(c)
  <2>1. Owed(c) = 0 BY <1>1 DEF Owed
  <2>2. Len(<<>>) = 0 /\ <<>> \in Seq(Answers \cup Ends) /\ <<>> \in Seq(Unit)
    BY EmptySeq
  <2> QED BY <1>1, <2>1, <2>2 DEF ConnFramed, Framed
<1>3. RequestLast BY <1>1 DEF RequestLast
<1> QED BY <1>1, <1>2, <1>3, EmptySeq DEF AnswersInv

LEMMA NetworkKeepsAnswers ==
  ASSUME ServerInv, AnswersInv, NEW d \in Conn, Network(d), UNCHANGED task
  PROVE  AnswersInv'
<1>1. UNCHANGED replies /\ RequestLast' /\ \A c \in Conn : Owed(c)' = Owed(c)
  BY DEF task, AnswersInv, RequestLast, Owed
<1>2. got \in [Conn -> Seq(Answers \cup Ends)] BY DEF AnswersInv
<1>3. /\ pcb \in [Conn -> {"none", "open", "gone"}]
      /\ last_err \in [Conn -> {"ok", "closed", "reset"}]
  BY DEF ServerInv, TypeOK
<1>4. CASE Deliver(d) \/ QueueOoseq(d) \/ tcp_fasttmr(d) \/ GiveUp(d) \/ Establish(d)
  <2>1. got' = got /\ last_err' = last_err
    BY <1>4 DEF Deliver, QueueOoseq, tcp_fasttmr, GiveUp, Establish, clients, channel
  <2>2. \A c \in Conn : pcb'[c] = "gone" <=> pcb[c] = "gone"
    BY <1>3, <1>4 DEF Deliver, QueueOoseq, tcp_fasttmr, GiveUp, Establish, channel
  <2>3. got' = [c \in Conn |-> got'[c]] BY <1>2, <2>1
  <2>4. \A c \in Conn : Quiet(c) BY <2>1, <2>2 DEF Quiet
  <2> QED BY <1>1, <2>3, <2>4, StepKeepsAnswers
<1>5. CASE Refuse(d)
  <2>1. /\ pcb[d] = "none" /\ pcb' = [pcb EXCEPT ![d] = "gone"]
        /\ got' = [got EXCEPT ![d] = Append(@, <<"rst">>)] /\ last_err' = last_err
    BY <1>5 DEF Refuse, Tell
  <2>2. got' = [c \in Conn |-> got'[c]] BY <1>2, <2>1
  <2>3. \A c \in Conn : Quiet(c) \/ EndOf(c)
    BY <1>2, <1>3, <2>1 DEF Quiet, EndOf, Ends
  <2> QED BY <1>1, <2>2, <2>3, StepKeepsAnswers
<1>6. CASE err_tcp(d)
  <2>1. pcb[d] = "open" /\ Break({d}) BY <1>6 DEF err_tcp
  <2>2. got' = [c \in Conn |-> got'[c]] BY <2>1 DEF Break
  <2>3. \A c \in Conn : Quiet(c) \/ EndOf(c)
    BY <2>1 DEF Quiet, EndOf, Ends, Break
  <2> QED BY <1>1, <2>2, <2>3, StepKeepsAnswers
<1> QED BY <1>4, <1>5, <1>6 DEF Network

(* The server's steps that neither answer nor send.                        *)
LEMMA TaskKeepsAnswers ==
  ASSUME ServerInv, AnswersInv,
         \/ netconn_accept \/ do_getaddr \/ CleanUp \/ RecvRest
         \/ TestError \/ Fetch \/ do_close \/ do_delconn
  PROVE  AnswersInv'
<1>1. got \in [Conn -> Seq(Answers \cup Ends)] BY DEF AnswersInv
<1>2. /\ pcb \in [Conn -> {"none", "open", "gone"}]
      /\ last_err \in [Conn -> {"ok", "closed", "reset"}]
  BY DEF ServerInv, TypeOK
<1>3. server \notin {"header", "body"}
  BY DEF netconn_accept, do_getaddr, CleanUp, RecvRest, TestError, Fetch, do_close, do_delconn
<1>4. server' \notin {"header", "body"}
  BY DEF netconn_accept, do_getaddr, CleanUp, RecvRest, TestError, Fetch, do_close, do_delconn,
         Ended, Copy
<1>5. UNCHANGED replies
  BY DEF netconn_accept, do_getaddr, CleanUp, RecvRest, TestError, Fetch, do_close, do_delconn
<1>6. RequestLast' BY <1>4 DEF RequestLast
<1>7. ASSUME NEW c \in Conn PROVE Owed(c)' = Owed(c) BY <1>3, <1>4 DEF Owed
<1>8. CASE netconn_accept \/ do_getaddr \/ RecvRest \/ TestError \/ Fetch \/ do_close
  <2>1. got' = got /\ pcb' = pcb
    BY <1>8 DEF netconn_accept, do_getaddr, RecvRest, TestError, Fetch, do_close,
                netconnVars, channel, clients
  <2>2. \A c \in Conn : last_err'[c] = "ok" => last_err[c] = "ok"
    <3>1. CASE netconn_accept \/ do_getaddr \/ RecvRest \/ TestError \/ do_close
      BY <3>1 DEF netconn_accept, do_getaddr, RecvRest, TestError, do_close, netconnVars, channel
    <3>2. CASE Fetch
      BY <1>2, <3>2 DEF Fetch
    <3> QED BY <1>8, <3>1, <3>2
  <2>3. got' = [c \in Conn |-> got'[c]] BY <1>1, <2>1
  <2>4. \A c \in Conn : Quiet(c) BY <2>1, <2>2 DEF Quiet
  <2> QED BY <1>5, <1>6, <1>7, <2>3, <2>4, StepKeepsAnswers
<1>9. CASE CleanUp
  <2>1. Break({c \in ToSet(acceptmbox) : pcb[c] = "open"}) BY <1>9 DEF CleanUp
  <2>2. got' = [c \in Conn |-> got'[c]] BY <2>1 DEF Break
  <2>3. \A c \in Conn : Quiet(c) \/ EndOf(c)
    BY <2>1 DEF Quiet, EndOf, Ends, Break
  <2> QED BY <1>5, <1>6, <1>7, <2>2, <2>3, StepKeepsAnswers
<1>10. CASE do_delconn
  <2>1. /\ last_err' = last_err
        /\ IF pcb[sock] = "open"
             THEN /\ pcb' = [pcb EXCEPT ![sock] = "gone"]
                  /\ got' = [got EXCEPT ![sock] = Append(@, <<"fin">>)]
             ELSE pcb' = pcb /\ got' = got
    BY <1>10 DEF do_delconn, Tell
  <2>2. got' = [c \in Conn |-> got'[c]] BY <1>1, <2>1
  <2>3. \A c \in Conn : Quiet(c) \/ EndOf(c)
    BY <1>1, <1>2, <2>1 DEF Quiet, EndOf, Ends
  <2> QED BY <1>5, <1>6, <1>7, <2>2, <2>3, StepKeepsAnswers
<1> QED BY <1>8, <1>9, <1>10

LEMMA ParsedType ==
  ASSUME NEW buffer \in Seq(Unit), buffer # <<>>
  PROVE  Parsed(buffer) \in Requests \cup {NULL}
<1>1. buffer[1] \in Unit BY EmptySeq
<1> QED BY <1>1 DEF Parsed, Requests

LEMMA JsonKeepsAnswers ==
  ASSUME ServerInv, AnswersInv, json_wp PROVE AnswersInv'
<1> DEFINE r == rx_buffer[1]
<1>1. /\ server = "json_wp" /\ rx_buffer \in Seq(Unit) /\ rx_buffer # <<>>
      /\ sock \in Conn /\ UNCHANGED <<got, pcb, last_err, sock>>
  BY DEF json_wp, ServerInv, TypeOK, TaskInv, netconnVars, channel, clients
<1>2. r \in Unit BY <1>1, EmptySeq
<1>3. got \in [Conn -> Seq(Answers \cup Ends)] /\ replies \in [Conn -> Seq(Unit)]
  BY DEF AnswersInv
<1>4. CASE server' = "recv" /\ UNCHANGED replies
  <2>1. RequestLast' /\ \A c \in Conn : Owed(c)' = Owed(c)
    BY <1>1, <1>4 DEF RequestLast, Owed
  <2>2. \A c \in Conn : Quiet(c) BY <1>1 DEF Quiet
  <2>3. got' = [c \in Conn |-> got'[c]] BY <1>1, <1>3
  <2> QED BY <1>4, <2>1, <2>2, <2>3, StepKeepsAnswers
<1>5. CASE /\ server' = "header" /\ request' = r
           /\ replies' = [replies EXCEPT ![sock] = Append(@, r)]
  <2>1. r \in Unit BY <1>2
  <2> HIDE DEF r
  <2>2. replies' \in [Conn -> Seq(Unit)] BY <1>1, <1>3, <1>5, <2>1
  <2>3. RequestLast'
    <3>1. replies'[sock] = Append(replies[sock], r) /\ replies[sock] \in Seq(Unit)
      BY <1>1, <1>3, <1>5
    <3>2. /\ Len(replies'[sock]) = Len(replies[sock]) + 1 /\ Len(replies[sock]) \in Nat
          /\ replies'[sock][Len(replies[sock]) + 1] = r
      BY <2>1, <3>1
    <3> QED BY <1>1, <1>5, <3>2 DEF RequestLast
  <2>4. ASSUME NEW c \in Conn PROVE ConnFramed(c)'
    <3>1. Framed(got[c], replies[c], pcb[c], last_err[c], Owed(c))
      BY DEF AnswersInv, ConnFramed
    <3>2. Owed(c) = 0 BY <1>1 DEF Owed
    <3>3. CASE c = sock
      <4>1. Owed(c)' = 2 BY <1>1, <1>5, <3>3 DEF Owed
      <4>2. replies'[c] = Append(replies[c], r) BY <1>1, <1>3, <1>5, <3>3
      <4>3. Framed(got[c], Append(replies[c], r), pcb[c], last_err[c], 2)
        BY <2>1, <3>1, <3>2, JsonKeepsFramed
      <4> QED BY <1>1, <4>1, <4>2, <4>3 DEF ConnFramed
    <3>4. CASE c # sock
      <4>1. Owed(c)' = 0 BY <1>1, <3>4 DEF Owed
      <4>2. replies'[c] = replies[c] BY <1>3, <1>5, <3>4
      <4> QED BY <1>1, <3>1, <3>2, <4>1, <4>2 DEF ConnFramed
    <3> QED BY <3>3, <3>4
  <2> QED BY <1>1, <1>3, <2>2, <2>3, <2>4 DEF AnswersInv
<1> QED BY <1>4, <1>5 DEF json_wp, NotParsed, Execute

(* The next frame goes out, or none for ever: last_err stays fatal.        *)
LEMMA SendKeepsAnswers ==
  ASSUME ServerInv, AnswersInv, SendHeader \/ SendBody PROVE AnswersInv'
<1> DEFINE s == replies[sock]
           x == <<server, request>>
<1>1. /\ sock \in Conn /\ server \in {"header", "body"}
      /\ server' = (IF server = "header" THEN "body" ELSE "recv")
      /\ UNCHANGED <<pcb, last_err, sock, replies>>
      /\ server = "header" => request' = request
      /\ Write(x)
  BY DEF SendHeader, SendBody, Send, ServerInv, TypeOK, TaskInv, channel
<1>2. got \in [Conn -> Seq(Answers \cup Ends)] /\ replies \in [Conn -> Seq(Unit)]
  BY DEF AnswersInv
<1>3. Len(s) > 0 /\ request = s[Len(s)] /\ s \in Seq(Unit)
  BY <1>1, <1>2 DEF AnswersInv, RequestLast
<1>4. RequestLast' BY <1>1, <1>3 DEF RequestLast
<1>5. /\ Owed(sock) \in {1, 2} /\ Owed(sock)' = Owed(sock) - 1
      /\ Owed(sock) = 2 <=> server = "header"
      /\ \A c \in Conn : c # sock => Owed(c) = 0 /\ Owed(c)' = 0
  BY <1>1 DEF Owed
<1>6. \A c \in Conn : Framed(got[c], replies[c], pcb[c], last_err[c], Owed(c))
  BY DEF AnswersInv, ConnFramed
<1>7. CASE pcb[sock] = "open" /\ ~Fatal(sock)
  <2>1. got' = [got EXCEPT ![sock] = Append(@, x)] BY <1>1, <1>7 DEF Write, Tell
  <2>2. x = <<IF Owed(sock) = 2 THEN "header" ELSE "body", s[Len(s)]>>
    BY <1>1, <1>3, <1>5
  <2> HIDE DEF x
  <2>3. /\ Framed(Append(got[sock], x), s, pcb[sock], "ok", Owed(sock) - 1)
        /\ x \in Answers
    <3>1. last_err[sock] = "ok" /\ pcb[sock] # "gone" BY <1>7 DEF Fatal
    <3>2. Framed(got[sock], s, pcb[sock], "ok", Owed(sock)) BY <1>1, <1>6, <3>1
    <3> HIDE DEF s
    <3> QED BY <1>3, <1>5, <2>2, <3>1, <3>2, SendKeepsFramed
  <2>4. got' \in [Conn -> Seq(Answers \cup Ends)] BY <1>1, <1>2, <2>1, <2>3
  <2>5. ASSUME NEW c \in Conn PROVE ConnFramed(c)'
    <3>1. CASE c = sock
      <4>1. got'[c] = Append(got[sock], x) BY <1>1, <1>2, <2>1, <3>1
      <4>2. last_err'[c] = "ok" /\ pcb'[c] = pcb[sock] /\ replies'[c] = s
        BY <1>1, <1>7, <3>1 DEF Fatal
      <4>3. Owed(c)' = Owed(sock) - 1 BY <1>1, <1>5, <3>1
      <4> QED BY <2>3, <4>1, <4>2, <4>3 DEF ConnFramed
    <3>2. CASE c # sock
      <4>1. got'[c] = got[c] BY <1>2, <2>1, <3>2
      <4> QED BY <1>1, <1>5, <1>6, <3>2, <4>1 DEF ConnFramed
    <3> QED BY <3>1, <3>2
  <2> QED BY <1>1, <1>2, <1>4, <2>4, <2>5 DEF AnswersInv
<1>8. CASE ~(pcb[sock] = "open" /\ ~Fatal(sock))
  <2>1. got' = got BY <1>1, <1>8 DEF Write
  <2>2. last_err[sock] # "ok"
    BY <1>1, <1>8 DEF Fatal, ServerInv, ConnInv, Placed
  <2>3. ASSUME NEW c \in Conn PROVE ConnFramed(c)'
    <3>1. CASE c = sock
      <4>1. Framed(got[c], s, pcb[c], last_err[c], Owed(sock) - 1)
        <5>1. Framed(got[c], s, pcb[c], last_err[c], Owed(sock)) BY <1>6, <3>1
        <5>2. last_err[c] # "ok" BY <2>2, <3>1
        <5> QED BY <1>5, <5>1, <5>2 DEF Framed
      <4> QED BY <1>1, <1>5, <2>1, <3>1, <4>1 DEF ConnFramed
    <3>2. CASE c # sock
      BY <1>1, <1>5, <1>6, <2>1, <3>2 DEF ConnFramed
    <3> QED BY <3>1, <3>2
  <2> QED BY <1>1, <1>2, <1>4, <2>1, <2>3 DEF AnswersInv
<1> QED BY <1>7, <1>8

LEMMA NextKeepsAnswers ==
  ASSUME ServerInv, AnswersInv, [Next]_vars PROVE AnswersInv'
<1>1. CASE ServerTask
  BY <1>1, TaskKeepsAnswers, JsonKeepsAnswers, SendKeepsAnswers DEF ServerTask
<1>2. ASSUME NEW c \in Conn, Network(c), UNCHANGED task PROVE AnswersInv'
  BY <1>2, NetworkKeepsAnswers
<1>3. CASE UNCHANGED vars
  <2>1. UNCHANGED <<got, replies, pcb, last_err, sock, server, request>>
    BY <1>3 DEF vars, netconnVars, channel, clients, task
  <2> QED BY <2>1 DEF AnswersInv, ConnFramed, RequestLast, Owed
<1> QED BY <1>1, <1>2, <1>3 DEF Next

(* What AnswersInv counts is what AnswersFramed says.                      *)
LEMMA FramedIsPrefix ==
  ASSUME AnswersInv, NEW c \in Conn
  PROVE  /\ IsPrefix(Sent(c), Frames(c))
         /\ last_err[c] = "ok" /\ ~(c = sock /\ server \in {"header", "body"}) =>
              Sent(c) = Frames(c)
<1> DEFINE g == got[c]
           s == replies[c]
           n == IF pcb[c] = "gone" THEN Len(g) - 1 ELSE Len(g)
<1>1. /\ g \in Seq(Answers \cup Ends) /\ s \in Seq(Unit)
      /\ pcb[c] = "gone" => Len(g) > 0 /\ g[Len(g)] \in Ends
      /\ n + Owed(c) <= 2 * Len(s)
      /\ last_err[c] = "ok" => n + Owed(c) = 2 * Len(s)
      /\ \A i \in 1..n : g[i] = Frame(s, i)
  BY DEF AnswersInv, ConnFramed, Framed
<1>2. Len(g) \in Nat /\ Len(s) \in Nat /\ n \in Nat /\ n <= Len(g) BY <1>1
<1>3. n <= 2 * Len(s)
  <2>1. Owed(c) \in {0, 1, 2} BY OwedType
  <2>2. n + Owed(c) <= 2 * Len(s) BY <1>1
  <2>3. 2 * Len(s) \in Nat BY <1>2
  <2> HIDE DEF n, s
  <2> QED BY <1>2, <2>1, <2>2, <2>3
<1>4. Sent(c) = SubSeq(g, 1, n)
  <2>1. CASE pcb[c] = "gone"
    <3>1. g # <<>> /\ Last(g) \in Ends BY <1>1, <2>1 DEF Last
    <3> QED BY <2>1, <3>1 DEF Sent, Front
  <2>2. CASE pcb[c] # "gone"
    <3>1. g = <<>> \/ Last(g) \notin Ends
      <4>1. CASE Len(g) > 0
        <5>1. Len(g) \in 1..n /\ Len(g) \in 1 .. 2 * Len(s) BY <1>2, <1>3, <2>2, <4>1
        <5>2. Last(g) = Frame(s, Len(g)) BY <1>1, <5>1 DEF Last
        <5>3. Last(g) \in Answers BY <1>1, <5>1, <5>2, FrameIsAnswer
        <5> QED BY <5>3, AnswersDoNotEnd
      <4>2. CASE ~(Len(g) > 0) BY <1>1, <1>2, <4>2, EmptySeq
      <4> QED BY <4>1, <4>2
    <3>2. Sent(c) = g BY <3>1 DEF Sent
    <3>3. SubSeq(g, 1, Len(g)) = g BY <1>1, SubSeqFull
    <3> QED BY <2>2, <3>2, <3>3
  <2> QED BY <2>1, <2>2
<1>5. Frames(c) = [i \in 1 .. 2 * Len(s) |-> Frame(s, i)] BY DEF Frames
<1> HIDE DEF n, g, s
<1>6. /\ Sent(c) \in Seq(Answers \cup Ends) /\ Len(Sent(c)) = n
      /\ \A i \in 1..n : Sent(c)[i] = Frame(s, i)
  <2>1. SubSeq(g, 1, n) \in Seq(Answers \cup Ends) /\ Len(SubSeq(g, 1, n)) = n
    BY <1>1, <1>2
  <2>2. \A i \in 1..n : SubSeq(g, 1, n)[i] = g[i] BY <1>1, <1>2
  <2> QED BY <1>1, <1>4, <2>1, <2>2
<1>7. Frames(c) \in Seq(Answers) /\ Len(Frames(c)) = 2 * Len(s)
  <2>1. \A i \in 1 .. 2 * Len(s) : Frame(s, i) \in Answers BY <1>1, FrameIsAnswer
  <2>2. 2 * Len(s) \in Nat BY <1>2
  <2>3. Frames(c) \in [1 .. 2 * Len(s) -> Answers] BY <1>5, <2>1
  <2> QED BY <2>2, <2>3
<1>8. /\ SubSeq(Frames(c), 1, n) \in Seq(Answers) /\ Len(SubSeq(Frames(c), 1, n)) = n
      /\ \A i \in 1..n : SubSeq(Frames(c), 1, n)[i] = Frame(s, i)
  BY <1>2, <1>3, <1>5, <1>7, SubSeqProperties
<1>9. SubSeq(Sent(c), 1, Len(Sent(c))) = Sent(c) BY <1>6, SubSeqFull
<1>10. Sent(c) = SubSeq(Frames(c), 1, n) BY <1>6, <1>8, SeqEqual
<1>11. IsPrefix(Sent(c), Frames(c)) BY <1>3, <1>6, <1>7, <1>9, <1>10 DEF IsPrefix
<1>12. ASSUME last_err[c] = "ok", ~(c = sock /\ server \in {"header", "body"})
       PROVE  Sent(c) = Frames(c)
  <2>1. Owed(c) = 0 BY <1>12 DEF Owed
  <2>2. n = Len(Frames(c)) BY <1>1, <1>2, <1>7, <1>12, <2>1 DEF n, g, s
  <2> QED BY <1>7, <1>10, <2>2, SubSeqFull
<1> QED BY <1>11, <1>12

(* For any number of connections, any scripts and any order of breaks, a   *)
(* client gets header and body in turn, of the requests that were          *)
(* answered, in order and without a gap, all of them while last_err allows *)
(* it, and after the end of the connection nothing.                        *)
THEOREM AnswersFramedAlways == Spec => []AnswersFramed
<1>1. Init => AnswersInv BY InitAnswers
<1>2. ServerInv /\ AnswersInv /\ [Next]_vars => AnswersInv' BY NextKeepsAnswers
<1>3. AnswersInv => AnswersFramed BY FramedIsPrefix DEF AnswersFramed
<1> QED BY <1>1, <1>2, <1>3, ServerInvariant, PTL DEF Spec


-----------------------------------------------------------------------------
(* Where a request is *)

(* A request leads what it comes in, until it comes behind another's.      *)

PlainUnit(u) == u = <<u[1], 1, 1>>

\* Whole requests, those behind the first among the joined ones.
PlainChain(data, J) ==
  data # <<>> /\ \A i \in DOMAIN data : PlainUnit(data[i]) /\ (i = 1 \/ data[i] \in J)

PlainPart(s, J) == s.data # <<>> => PlainChain(s.data, J) /\ s.push /\ s.after = 0
PlainPbuf(p, J) == p # NULL => PlainChain(p.data, J) /\ p.push

\* What has not come to the server is plain.
Flow(c) ==
  /\ \A s \in ToSet(to_send[c]) : PlainPart(s, joined[c])
  /\ refused_data[c] # NULL => PlainPart(refused_data[c], joined[c])
  /\ recvmbox[c] # NULL => \A p \in ToSet(recvmbox[c]) : PlainPbuf(p, joined[c])

\* What did not fit in rx_buffer was joined.
PlainRest(p, J) ==
  p # NULL => p.push /\ \A i \in DOMAIN p.data : PlainUnit(p.data[i]) /\ p.data[i] \in J

\* The server takes one pbuf at a time.
Desk(c) ==
  c = sock =>
    /\ PlainRest(lastdata, joined[c])
    /\ server = "json_wp" => PlainChain(rx_buffer, joined[c])
    /\ server \in {"recv", "fetch"} => rx_buffer = <<>>
    /\ server \in {"recv", "json_wp", "header", "body"} => last_err[c] # "closed"

Leads(u, s) == s.data # <<>> /\ s.data[1] = u

InFlight(c, u) ==
  \/ \E s \in ToSet(to_send[c]) : Leads(u, s)
  \/ refused_data[c] # NULL /\ Leads(u, refused_data[c])
  \/ recvmbox[c] # NULL /\ \E p \in ToSet(recvmbox[c]) : p # NULL /\ Leads(u, p)

InHand(c, u) ==
  /\ c = sock
  /\ \/ server = "json_wp" /\ rx_buffer[1] = u
     \/ server \in {"header", "body"} /\ request = u

Done(c, u) ==
  <<"body", u>> \in ToSet(got[c]) \/ u[1] \in unanswered[c] \/ u \in joined[c]

Kept(c) ==
  last_err[c] # "reset" =>
    \A s \in ToSet(Script[c]) :
      LET u == s.data[1]
      IN  s.data # <<>> => InFlight(c, u) \/ InHand(c, u) \/ Done(c, u)

Closed(c) ==
  <<"fin">> \in ToSet(got[c]) => pcb[c] = "gone" /\ last_err[c] = "closed"

PlainConn(c) == Flow(c) /\ Desk(c) /\ Kept(c) /\ Closed(c)

\* What the server has of a connection it has done with.
Cleared ==
  /\ server \in {"recv", "fetch", "json_wp"} \/ rx_buffer = <<>>
  /\ server \notin {"recv", "json_wp", "header", "body"} => lastdata = NULL
  /\ unanswered \in [Conn -> SUBSET Requests] /\ joined \in [Conn -> SUBSET Unit]
  /\ executed \in [Conn -> Seq(Requests)]

PlainInv == Cleared /\ \A c \in Conn : Plain(c) => PlainConn(c)

LEMMA AppendSet ==
  ASSUME NEW S, NEW m \in Seq(S), NEW x \in S
  PROVE  ToSet(Append(m, x)) = ToSet(m) \cup {x}
<1>1. Len(Append(m, x)) = Len(m) + 1 /\ Len(m) \in Nat OBVIOUS
<1>2. DOMAIN Append(m, x) = DOMAIN m \cup {Len(m) + 1} BY <1>1
<1>3. \A i \in DOMAIN m : Append(m, x)[i] = m[i] OBVIOUS
<1>4. Append(m, x)[Len(m) + 1] = x OBVIOUS
<1> QED BY <1>2, <1>3, <1>4 DEF ToSet

LEMMA TailSet ==
  ASSUME NEW S, NEW m \in Seq(S), m # <<>>
  PROVE  /\ m[1] \in ToSet(m) /\ ToSet(Tail(m)) \subseteq ToSet(m)
         /\ \A x \in ToSet(m) : x = m[1] \/ x \in ToSet(Tail(m))
<1> DEFINE t == Tail(m)
           n == Len(m)
<1>1. /\ t \in Seq(S) /\ Len(t) = n - 1 /\ n \in Nat \ {0}
      /\ \A i \in 1..Len(t) : t[i] = m[i + 1]
  BY HeadTailProperties, EmptySeq
<1>2. DOMAIN m = 1..n /\ DOMAIN t = 1..Len(t) BY <1>1
<1> HIDE DEF t, n
<1>3. 1 \in DOMAIN m /\ \A i \in DOMAIN t : i + 1 \in DOMAIN m BY <1>1, <1>2
<1>4. \A i \in DOMAIN m : i = 1 \/ (i - 1 \in DOMAIN t /\ t[i - 1] = m[i])
  <2> TAKE i \in DOMAIN m
  <2>1. i = 1 \/ (i - 1 \in 1..Len(t) /\ (i - 1) + 1 = i) BY <1>1, <1>2
  <2> QED BY <1>1, <1>2, <2>1
<1>5. m[1] \in ToSet(m) BY <1>3 DEF ToSet
<1>6. ASSUME NEW x \in ToSet(t) PROVE x \in ToSet(m)
  <2>1. PICK i \in DOMAIN t : x = t[i] BY <1>6 DEF ToSet
  <2> QED BY <1>1, <1>2, <1>3, <2>1 DEF ToSet
<1>7. ASSUME NEW x \in ToSet(m) PROVE x = m[1] \/ x \in ToSet(t)
  <2>1. PICK i \in DOMAIN m : x = m[i] BY <1>7 DEF ToSet
  <2> QED BY <1>4, <2>1 DEF ToSet
<1> QED BY <1>5, <1>6, <1>7 DEF t

LEMMA HeadsSet ==
  ASSUME NEW S, NEW m \in Seq(S), Len(m) > 1
  PROVE  /\ m[1] \in S /\ m[2] \in S /\ Tail(Tail(m)) \in Seq(S)
         /\ \A x : x \in ToSet(m) <=> x = m[1] \/ x = m[2] \/ x \in ToSet(Tail(Tail(m)))
<1> DEFINE t == Tail(m)
<1>1. m # <<>> /\ 1 \in DOMAIN m /\ 2 \in DOMAIN m BY EmptySeq
<1>2. /\ t \in Seq(S) /\ Len(t) = Len(m) - 1
      /\ \A i \in 1..Len(t) : t[i] = m[i + 1]
  BY <1>1, HeadTailProperties
<1>3. Len(t) > 0 /\ 1 \in 1..Len(t) BY <1>2
<1> HIDE DEF t
<1>4. t # <<>> /\ t[1] = m[2] BY <1>2, <1>3, EmptySeq
<1>5. Tail(t) \in Seq(S) BY <1>2, <1>4, HeadTailProperties
<1>6. \A x : x \in ToSet(m) => x = m[1] \/ x \in ToSet(t) BY <1>1, TailSet DEF t
<1>7. ToSet(t) \subseteq ToSet(m) BY <1>1, TailSet DEF t
<1>8. /\ \A x : x \in ToSet(t) => x = t[1] \/ x \in ToSet(Tail(t))
      /\ ToSet(Tail(t)) \subseteq ToSet(t)
  BY <1>2, <1>4, TailSet
<1>9. m[1] \in ToSet(m) /\ m[2] \in ToSet(m) BY <1>1 DEF ToSet
<1>10. m[1] \in S /\ m[2] \in S BY <1>1
<1> QED BY <1>4, <1>5, <1>6, <1>7, <1>8, <1>9, <1>10 DEF t

LEMMA PrependSet ==
  ASSUME NEW S, NEW m \in Seq(S), NEW y \in S
  PROVE  \A x : x \in ToSet(<<y>> \o m) <=> x = y \/ x \in ToSet(m)
<1> DEFINE new == <<y>> \o m
<1>1. /\ new \in Seq(S) /\ Len(new) = Len(m) + 1 /\ new[1] = y
      /\ \A i \in 1..Len(m) : new[i + 1] = m[i]
      /\ \A i \in 2..Len(new) : new[i] = m[i - 1] /\ i - 1 \in 1..Len(m)
  OBVIOUS
<1>2. DOMAIN new = 1..Len(new) /\ DOMAIN m = 1..Len(m) /\ Len(m) \in Nat BY <1>1
<1> HIDE DEF new
<1>3. \A i \in DOMAIN new : i = 1 \/ i \in 2..Len(new) BY <1>1, <1>2
<1>4. 1 \in DOMAIN new /\ \A i \in DOMAIN m : i + 1 \in DOMAIN new BY <1>1, <1>2
<1>5. ASSUME NEW x \in ToSet(new) PROVE x = y \/ x \in ToSet(m)
  <2>1. PICK i \in DOMAIN new : x = new[i] BY <1>5 DEF ToSet
  <2> QED BY <1>1, <1>2, <1>3, <2>1 DEF ToSet
<1>6. ASSUME NEW x \in ToSet(m) PROVE x \in ToSet(new)
  <2>1. PICK i \in DOMAIN m : x = m[i] BY <1>6 DEF ToSet
  <2>2. i + 1 \in DOMAIN new /\ new[i + 1] = x BY <1>1, <1>2, <1>4, <2>1
  <2> QED BY <2>2 DEF ToSet
<1>7. y \in ToSet(new) BY <1>1, <1>4 DEF ToSet
<1> QED BY <1>5, <1>6, <1>7 DEF new

LEMMA ChainSet ==
  ASSUME NEW rest \in Seq(Segments), Len(rest) > 1, Orderly(rest),
         NEW s, s = Chain(rest[1], rest[2])
  PROVE  \A x : x \in ToSet(<<s>> \o Tail(Tail(rest))) <=>
                  x = s \/ x \in ToSet(Tail(Tail(rest)))
<1>1. s \in Segments /\ Tail(Tail(rest)) \in Seq(Segments) BY ChainIsOrderly, HeadsSet
<1>2. PICK t : t = Tail(Tail(rest)) OBVIOUS
<1>3. t \in Seq(Segments) BY <1>1, <1>2
<1>4. \A x : x \in ToSet(<<s>> \o t) <=> x = s \/ x \in ToSet(t)
  BY <1>1, <1>3, PrependSet
<1> QED BY <1>2, <1>4

LEMMA TrypostCarries ==
  ASSUME NEW m \in Mailboxes
  PROVE  /\ ToSet(m) \subseteq ToSet(Trypost(m, NULL))
         /\ ToSet(Trypost(m, NULL)) \subseteq ToSet(m) \cup {NULL}
<1>1. ToSet(Append(m, NULL)) = ToSet(m) \cup {NULL} BY AppendSet DEF Mailboxes
<1> QED BY <1>1 DEF Trypost

(* What recv_tcp is given is in the mailbox or refused.                    *)
LEMMA HandCarries ==
  ASSUME NEW m \in Mailboxes, NEW s \in Segments, s.data # <<>>
  PROVE  /\ ToSet(m) \subseteq ToSet(Hand(m, s).mbox)
         /\ ToSet(Hand(m, s).mbox) \subseteq ToSet(m) \cup {Pbuf(s), NULL}
         /\ \/ Hand(m, s).refused = s
            \/ Hand(m, s).refused = NULL /\ Pbuf(s) \in ToSet(Hand(m, s).mbox)
         /\ Hand(m, s).mbox \in Mailboxes
<1> DEFINE m2 == Append(m, Pbuf(s))
<1>1. Pbuf(s) \in Pbufs BY PbufType
<1>2. ToSet(m2) = ToSet(m) \cup {Pbuf(s)} BY <1>1, AppendSet DEF Mailboxes
<1>3. m2 \in Mailboxes BY <1>1 DEF Mailboxes
<1>4. CASE ~(Len(m) < MailboxSize) BY <1>4 DEF Hand, Side
<1>5. CASE Len(m) < MailboxSize /\ ~s.fin
  <2>1. Hand(m, s) = Side(m2, NULL) BY <1>5 DEF Hand
  <2> QED BY <1>2, <1>3, <2>1 DEF Side
<1>6. CASE Len(m) < MailboxSize /\ s.fin
  <2>1. Hand(m, s) = Side(Trypost(m2, NULL), NULL) BY <1>6 DEF Hand
  <2>2. Trypost(m2, NULL) \in Mailboxes BY <1>3 DEF Trypost, Mailboxes
  <2> HIDE DEF m2
  <2>3. /\ ToSet(m2) \subseteq ToSet(Trypost(m2, NULL))
        /\ ToSet(Trypost(m2, NULL)) \subseteq ToSet(m2) \cup {NULL}
    BY <1>3, TrypostCarries
  <2> QED BY <1>2, <2>1, <2>2, <2>3 DEF Side
<1> QED BY <1>4, <1>5, <1>6

\* A side that was tcp_process_refused_data or tcp_input: all that was there
\* is, and no more.
Passes(m, r, s, side) ==
  /\ ToSet(m) \subseteq ToSet(side.mbox)
  /\ r # NULL /\ r # side.refused => Pbuf(r) \in ToSet(side.mbox)
  /\ s # NULL /\ s.data # <<>> /\ s # side.refused => Pbuf(s) \in ToSet(side.mbox)
  /\ side.refused \in {NULL, r, s}
  /\ \A p \in ToSet(side.mbox) :
       \/ p \in ToSet(m) \/ p = NULL
       \/ r # NULL /\ p = Pbuf(r)
       \/ s # NULL /\ s.data # <<>> /\ p = Pbuf(s)

LEMMA RetryPasses ==
  ASSUME NEW m \in Mailboxes, NEW r \in Segments \cup {NULL},
         r # NULL => r.data # <<>>
  PROVE  LET side == tcp_process_refused_data(Side(m, r))
         IN  Passes(m, r, NULL, side) /\ side.mbox \in Mailboxes
<1>1. CASE r = NULL
  <2>1. tcp_process_refused_data(Side(m, r)) = Side(m, r)
    BY <1>1 DEF tcp_process_refused_data, Side
  <2> QED BY <1>1, <2>1 DEF Side, Passes
<1>2. CASE r # NULL
  <2>1. tcp_process_refused_data(Side(m, r)) = Hand(m, r)
    BY <1>2 DEF tcp_process_refused_data, Side
  <2>2. r \in Segments /\ r.data # <<>> BY <1>2
  <2> QED BY <1>2, <2>1, <2>2, HandCarries DEF Passes
<1> QED BY <1>1, <1>2

LEMMA InputPasses ==
  ASSUME NEW m \in Mailboxes, NEW r \in Segments \cup {NULL},
         r # NULL => r.data # <<>>, NEW s \in Segments,
         tcp_process_refused_data(Side(m, r)).refused = NULL
  PROVE  Passes(m, r, s, tcp_input(Side(m, r), s))
<1> DEFINE m2 == tcp_process_refused_data(Side(m, r)).mbox
           side == tcp_input(Side(m, r), s)
<1>1. Passes(m, r, NULL, tcp_process_refused_data(Side(m, r))) /\ m2 \in Mailboxes
  BY RetryPasses
<1>2. /\ ToSet(m) \subseteq ToSet(m2)
      /\ r # NULL => Pbuf(r) \in ToSet(m2)
      /\ \A p \in ToSet(m2) : p \in ToSet(m) \/ p = NULL \/ (r # NULL /\ p = Pbuf(r))
  BY <1>1 DEF Passes
<1>3. CASE s.data = <<>>
  <2>1. side = Side(Trypost(m2, NULL), NULL) BY <1>3 DEF tcp_input
  <2> HIDE DEF m2
  <2>2. /\ ToSet(m2) \subseteq ToSet(Trypost(m2, NULL))
        /\ ToSet(Trypost(m2, NULL)) \subseteq ToSet(m2) \cup {NULL}
    BY <1>1, TrypostCarries
  <2>3. side.mbox = Trypost(m2, NULL) /\ side.refused = NULL BY <2>1 DEF Side
  <2> HIDE DEF side
  <2>4. Passes(m, r, s, side) BY <1>2, <1>3, <2>2, <2>3 DEF Passes
  <2> QED BY <2>4 DEF side
<1>4. CASE s.data # <<>>
  <2>1. side = Hand(m2, s) BY <1>4 DEF tcp_input
  <2> HIDE DEF m2, side
  <2>2. /\ ToSet(m2) \subseteq ToSet(side.mbox)
        /\ ToSet(side.mbox) \subseteq ToSet(m2) \cup {Pbuf(s), NULL}
        /\ side.refused = s \/ (side.refused = NULL /\ Pbuf(s) \in ToSet(side.mbox))
    BY <1>1, <1>4, <2>1, HandCarries
  <2>3. s # NULL OBVIOUS
  <2>4. Passes(m, r, s, side) BY <1>2, <1>4, <2>2, <2>3 DEF Passes
  <2> QED BY <2>4 DEF side
<1> QED BY <1>3, <1>4

LEMMA PlainPbufOf ==
  ASSUME NEW s, NEW J, PlainPart(s, J), s.data # <<>>
  PROVE  PlainPbuf(Pbuf(s), J) /\ Pbuf(s).data = s.data
BY DEF PlainPbuf, PlainPart, Pbuf

LEMMA LeadsPbuf == ASSUME NEW s, NEW u PROVE Leads(u, Pbuf(s)) <=> Leads(u, s)
BY DEF Leads, Pbuf

(* More requests are joined: what was plain is.                            *)
LEMMA JoinedGrows ==
  ASSUME NEW J, NEW K, J \subseteq K, NEW s
  PROVE  /\ PlainPart(s, J) => PlainPart(s, K)
         /\ PlainPbuf(s, J) => PlainPbuf(s, K)
         /\ PlainRest(s, J) => PlainRest(s, K)
BY DEF PlainPart, PlainPbuf, PlainRest, PlainChain

LEMMA ScriptSegment ==
  ASSUME NEW c \in Conn, NEW s \in ToSet(Script[c]) PROVE s \in Segments
<1>1. Script[c] \in Seq(Segments) OBVIOUS
<1> QED BY <1>1 DEF ToSet

\* Nothing of the connection itself changes.
Still(c) ==
  /\ to_send'[c] = to_send[c] /\ refused_data'[c] = refused_data[c]
  /\ recvmbox'[c] = recvmbox[c] /\ got'[c] = got[c] /\ pcb'[c] = pcb[c]
  /\ last_err'[c] = last_err[c] /\ unanswered'[c] = unanswered[c]
  /\ joined'[c] = joined[c]

\* Nothing of what the server has of it.
DeskStill == UNCHANGED <<sock, server, lastdata, rx_buffer, request>>

LEMMA StillKeepsPlain ==
  ASSUME NEW c \in Conn, PlainConn(c), Still(c), DeskStill \/ (c # sock /\ c # sock')
  PROVE  PlainConn(c)'
<1>1. Flow(c)' BY DEF PlainConn, Flow, Still
<1>2. Desk(c)' BY DEF PlainConn, Desk, Still, DeskStill
<1>3. Closed(c)' BY DEF PlainConn, Closed, Still
<1>4. Kept(c)'
  <2>1. \A s : InFlight(c, s) => InFlight(c, s)' BY DEF InFlight, Still
  <2>2. \A s : InHand(c, s) => InHand(c, s)' BY DEF InHand, DeskStill
  <2>3. \A s : Done(c, s) => Done(c, s)' BY DEF Done, Still
  <2> QED BY <2>1, <2>2, <2>3 DEF PlainConn, Kept, Still
<1> QED BY <1>1, <1>2, <1>3, <1>4 DEF PlainConn

(* tcpip_thread takes a segment or tries one again: what was on the way    *)
(* still is.                                                               *)
LEMMA PassKeepsPlain ==
  ASSUME ServerInv, NEW c \in Conn, PlainConn(c), recvmbox[c] # NULL,
         NEW s \in Segments \cup {NULL}, NEW side,
         Passes(recvmbox[c], refused_data[c], s, side), side.mbox # NULL,
         s # NULL => PlainPart(s, joined[c]),
         refused_data[c] # NULL => refused_data[c].data # <<>>,
         recvmbox'[c] = side.mbox, refused_data'[c] = side.refused,
         joined[c] \subseteq joined'[c],
         \A x \in ToSet(to_send'[c]) : PlainPart(x, joined'[c]),
         \A x \in ToSet(to_send[c]) : \A u :
           Leads(u, x) =>
             \/ x = s \/ u \in joined'[c]
             \/ \E y \in ToSet(to_send'[c]) : Leads(u, y),
         got'[c] = got[c], pcb'[c] = pcb[c], last_err'[c] = last_err[c],
         unanswered'[c] = unanswered[c], DeskStill
  PROVE  PlainConn(c)'
<1> DEFINE m == recvmbox[c]
           r == refused_data[c]
           J == joined[c]
           K == joined'[c]
<1>1. Flow(c)'
  <2>1. r # NULL => PlainPart(r, J) BY DEF PlainConn, Flow
  <2>2. \A x : (PlainPart(x, J) => PlainPart(x, K)) /\ (PlainPbuf(x, J) => PlainPbuf(x, K))
    BY JoinedGrows
  <2> HIDE DEF J, K
  <2>3. refused_data'[c] # NULL => PlainPart(refused_data'[c], K)
    BY <2>1, <2>2 DEF Passes, J
  <2>4. ASSUME NEW p \in ToSet(side.mbox) PROVE PlainPbuf(p, K)
    <3>1. CASE p \in ToSet(m) BY <2>2, <3>1 DEF PlainConn, Flow, J
    <3>2. CASE p = NULL BY <3>2 DEF PlainPbuf
    <3>3. CASE r # NULL /\ p = Pbuf(r) BY <2>1, <2>2, <3>3, PlainPbufOf
    <3>4. CASE s # NULL /\ s.data # <<>> /\ p = Pbuf(s) BY <2>2, <3>4, PlainPbufOf DEF J
    <3> QED BY <3>1, <3>2, <3>3, <3>4 DEF Passes
  <2> QED BY <2>3, <2>4 DEF Flow, K
<1>2. Desk(c)'
  <2>1. PlainRest(lastdata, J) => PlainRest(lastdata, K) BY JoinedGrows
  <2>2. PlainChain(rx_buffer, J) => PlainChain(rx_buffer, K) BY DEF PlainChain
  <2> HIDE DEF J, K
  <2> QED BY <2>1, <2>2 DEF PlainConn, Desk, DeskStill, J, K
<1>3. Closed(c)' BY DEF PlainConn, Closed
<1>4. ASSUME NEW u, InFlight(c, u) PROVE InFlight(c, u)' \/ u \in joined'[c]
  <2>1. ASSUME NEW x \in Segments, Leads(u, x),
               Pbuf(x) \in ToSet(side.mbox) \/ x = side.refused
        PROVE  InFlight(c, u)'
    <3>1. x # NULL /\ x.data # <<>> BY <2>1 DEF Leads
    <3>2. Pbuf(x) # NULL /\ Leads(u, Pbuf(x)) BY <2>1, <3>1, PbufType, LeadsPbuf
    <3> QED BY <2>1, <3>1, <3>2 DEF InFlight
  <2>2. CASE \E x \in ToSet(to_send[c]) : Leads(u, x)
    <3>1. PICK x \in ToSet(to_send[c]) : Leads(u, x) BY <2>2
    <3>2. CASE x = s
      <4>1. x.data # <<>> BY <3>1 DEF Leads
      <4>2. s # NULL
        <5>1. to_send[c] \in Seq(Segments) BY DEF ServerInv, TypeOK
        <5>2. x \in Segments BY <5>1 DEF ToSet
        <5> QED BY <3>2, <5>2
      <4> QED BY <2>1, <3>1, <3>2, <4>1, <4>2 DEF Passes
    <3>3. CASE x # s BY <3>1, <3>3 DEF InFlight
    <3> QED BY <3>2, <3>3
  <2>3. CASE r # NULL /\ Leads(u, r)
    <3>1. r \in Segments BY <2>3 DEF ServerInv, TypeOK
    <3> QED BY <2>1, <2>3, <3>1 DEF Passes
  <2>4. CASE \E p \in ToSet(m) : p # NULL /\ Leads(u, p)
    BY <2>4 DEF InFlight, Passes
  <2> QED BY <1>4, <2>2, <2>3, <2>4 DEF InFlight
<1>5. Kept(c)'
  <2>1. \A u : InHand(c, u) => InHand(c, u)' BY DEF InHand, DeskStill
  <2>2. \A u : Done(c, u) => Done(c, u)' BY DEF Done
  <2>3. \A u : u \in joined'[c] => Done(c, u)' BY DEF Done
  <2> QED BY <1>4, <2>1, <2>2, <2>3 DEF PlainConn, Kept
<1> QED BY <1>1, <1>2, <1>3, <1>5 DEF PlainConn

LEMMA NoEndYet ==
  ASSUME NEW c, Closed(c), pcb[c] # "gone" PROVE <<"fin">> \notin ToSet(got[c])
BY DEF Closed

(* A reset is no end the client asked for.                                 *)
LEMMA ResetKeepsClosed ==
  ASSUME AnswersInv, NEW c \in Conn, <<"fin">> \notin ToSet(got[c])
  PROVE  <<"fin">> \notin ToSet(Append(got[c], <<"rst">>))
<1>1. got[c] \in Seq(Answers \cup Ends) /\ <<"rst">> \in Answers \cup Ends
  BY DEF AnswersInv, Ends
<1>2. <<"rst">> # <<"fin">> OBVIOUS
<1> QED BY <1>1, <1>2, AppendSet

LEMMA BrokenIsPlain ==
  ASSUME AnswersInv, NEW c \in Conn, PlainConn(c), pcb[c] # "gone",
         last_err'[c] = "reset", refused_data'[c] = NULL, to_send'[c] = <<>>,
         got'[c] = Append(got[c], <<"rst">>), joined'[c] = joined[c],
         recvmbox'[c] # NULL => \A p \in ToSet(recvmbox'[c]) : PlainPbuf(p, joined'[c]),
         DeskStill \/ c # sock'
  PROVE  PlainConn(c)'
<1>1. Flow(c)' BY DEF Flow, ToSet
<1>2. Desk(c)' BY DEF PlainConn, Desk, DeskStill
<1>3. Kept(c)' BY DEF Kept
<1>4. <<"fin">> \notin ToSet(got'[c]) BY NoEndYet, ResetKeepsClosed DEF PlainConn
<1>5. Closed(c)' BY <1>4 DEF Closed
<1> QED BY <1>1, <1>2, <1>3, <1>5 DEF PlainConn

(* At first every request is with its client.                              *)
LEMMA InitPlain == Init => PlainInv
<1> SUFFICES ASSUME Init PROVE PlainInv OBVIOUS
<1>1. /\ to_send = Script /\ refused_data = [c \in Conn |-> NULL]
      /\ recvmbox = [c \in Conn |-> NULL] /\ got = [c \in Conn |-> <<>>]
      /\ server = "accept" /\ sock = NULL /\ rx_buffer = <<>> /\ lastdata = NULL
      /\ unanswered = [c \in Conn |-> {}] /\ joined = [c \in Conn |-> {}]
      /\ executed = [c \in Conn |-> <<>>]
  BY DEF Init, NetconnInit
<1>2. ASSUME NEW c \in Conn, Plain(c) PROVE PlainConn(c)
  <2>1. ASSUME NEW s \in ToSet(Script[c]) PROVE PlainPart(s, joined[c])
    <3>1. PlainSegment(s) BY <1>2 DEF Plain, ToSet
    <3>2. ASSUME s.data # <<>> PROVE PlainChain(s.data, joined[c])
      <4>1. s.data = <<<<s.data[1][1], 1, 1>>>>
        BY <3>1, <3>2, Zenon DEF PlainSegment, PlainData
      <4>2. DOMAIN s.data = {1} /\ s.data[1] = <<s.data[1][1], 1, 1>> BY <4>1
      <4> QED BY <3>2, <4>2 DEF PlainChain, PlainUnit
    <3> QED BY <3>1, <3>2 DEF PlainPart, PlainSegment
  <2>2. Flow(c) BY <1>1, <2>1 DEF Flow
  <2>3. c # sock BY <1>1
  <2>4. ToSet(got[c]) = {} BY <1>1 DEF ToSet
  <2>5. Kept(c) BY <1>1 DEF Kept, InFlight, Leads
  <2> QED BY <1>1, <2>2, <2>3, <2>4, <2>5 DEF PlainConn, Desk, Closed
<1>3. Cleared BY <1>1, EmptySeq DEF Cleared
<1> QED BY <1>2, <1>3 DEF PlainInv

LEMMA DeliverKeepsPlain ==
  ASSUME ServerInv, NEW c \in Conn, PlainConn(c), Deliver(c), UNCHANGED task
  PROVE  PlainConn(c)'
<1> DEFINE s == to_send[c][1]
           side == tcp_input(Side(recvmbox[c], refused_data[c]), s)
<1>1. /\ pcb[c] = "open" /\ recvmbox[c] \in Mailboxes /\ recvmbox[c] # NULL
      /\ refused_data[c] \in Segments \cup {NULL} /\ to_send[c] \in Seq(Segments)
      /\ to_send[c] # <<>>
      /\ tcp_process_refused_data(Side(recvmbox[c], refused_data[c])).refused = NULL
  BY DEF Deliver, Accepts, Sends, ServerInv, TypeOK, Valid
<1>2. InOrder(recvmbox[c], refused_data[c], to_send[c])
  BY <1>1 DEF ServerInv, ConnInv, Valid
<1>3. refused_data[c] # NULL => refused_data[c].data # <<>> BY <1>2 DEF InOrder
<1>4. s \in Segments /\ s \in ToSet(to_send[c])
  BY <1>1, TailSet, TailIsOrderly DEF ServerInv, ConnInv
<1>5. Passes(recvmbox[c], refused_data[c], s, side)
  BY <1>1, <1>3, <1>4, InputPasses
<1>6. side.mbox # NULL BY <1>1, <1>2, InputInOrder
<1>7. PlainPart(s, joined[c]) BY <1>4 DEF PlainConn, Flow
<1>8. /\ recvmbox'[c] = side.mbox /\ refused_data'[c] = side.refused
      /\ to_send'[c] = Tail(to_send[c])
      /\ got' = got /\ pcb' = pcb /\ last_err' = last_err
      /\ unanswered' = unanswered /\ joined' = joined /\ DeskStill
  BY DEF Deliver, Becomes, history, ServerInv, TypeOK, task, DeskStill
<1>9. /\ \A x \in ToSet(to_send'[c]) : PlainPart(x, joined'[c])
      /\ \A x \in ToSet(to_send[c]) : x = s \/ x \in ToSet(to_send'[c])
  BY <1>1, <1>8, TailSet DEF PlainConn, Flow
<1> HIDE DEF s, side
<1> QED BY <1>1, <1>3, <1>4, <1>5, <1>6, <1>7, <1>8, <1>9, PassKeepsPlain

(* The requests of the next segment come behind another's from now on.     *)
LEMMA QueueOoseqKeepsPlain ==
  ASSUME ServerInv, PlainInv, NEW c \in Conn, PlainConn(c), QueueOoseq(c), UNCHANGED task
  PROVE  PlainConn(c)'
<1> DEFINE side == tcp_process_refused_data(Side(recvmbox[c], refused_data[c]))
           f == to_send[c][1]
           g == to_send[c][2]
           s == Chain(f, g)
           new == <<s>> \o Tail(Tail(to_send[c]))
           J == joined'[c]
<1>1. /\ pcb[c] = "open" /\ recvmbox[c] \in Mailboxes /\ recvmbox[c] # NULL
      /\ refused_data[c] \in Segments \cup {NULL} /\ to_send[c] \in Seq(Segments)
      /\ Len(to_send[c]) > 1
  BY DEF QueueOoseq, ServerInv, TypeOK, Valid
<1>2. InOrder(recvmbox[c], refused_data[c], to_send[c]) /\ Orderly(to_send[c])
  BY <1>1 DEF ServerInv, ConnInv, Valid
<1>3. refused_data[c] # NULL => refused_data[c].data # <<>> BY <1>2 DEF InOrder
<1>4. Passes(recvmbox[c], refused_data[c], NULL, side) /\ side.mbox \in Mailboxes
  BY <1>1, <1>3, RetryPasses
<1>5. side.mbox # NULL BY <1>4
<1>6. /\ recvmbox'[c] = side.mbox /\ refused_data'[c] = side.refused
      /\ to_send'[c] = new /\ J = joined[c] \cup ToSet(g.data)
      /\ got' = got /\ pcb' = pcb /\ last_err' = last_err
      /\ unanswered' = unanswered /\ DeskStill
  BY DEF QueueOoseq, Becomes, ServerInv, TypeOK, task, DeskStill, PlainInv, Cleared
<1>7. s.data # <<>> /\ f.data # <<>> BY <1>1, <1>2, ChainIsOrderly
<1>8. \A x : x \in ToSet(to_send[c]) <=> x = f \/ x = g \/ x \in ToSet(Tail(Tail(to_send[c])))
  BY <1>1, HeadsSet
<1>9. \A x : x \in ToSet(new) <=> x = s \/ x \in ToSet(Tail(Tail(to_send[c])))
  BY <1>1, <1>2, ChainSet
<1>10. /\ f \in Segments /\ g \in Segments /\ f \in ToSet(to_send[c]) /\ g \in ToSet(to_send[c])
  BY <1>1, <1>8
<1>11. /\ s.data = f.data \o g.data /\ s.push = f.push /\ s.after = f.after
       /\ f.data \in Seq(Unit) /\ g.data \in Seq(Unit)
  BY <1>10 DEF Chain, Segments
<1>12. PlainPart(f, joined[c]) /\ PlainPart(g, joined[c])
  BY <1>10 DEF PlainConn, Flow
<1> HIDE DEF side, f, g, s, new, J
<1>13. /\ DOMAIN f.data = 1..Len(f.data) /\ DOMAIN g.data = 1..Len(g.data)
       /\ Len(f.data) \in Nat \ {0} /\ Len(g.data) \in Nat
       /\ DOMAIN s.data = 1 .. Len(f.data) + Len(g.data)
       /\ \A i \in 1 .. Len(f.data) + Len(g.data) :
            s.data[i] = IF i <= Len(f.data) THEN f.data[i] ELSE g.data[i - Len(f.data)]
  <2>1. PICK x, y : x = f.data /\ y = g.data OBVIOUS
  <2>2. x \in Seq(Unit) /\ y \in Seq(Unit) /\ Len(x) # 0 BY <1>7, <1>11, <2>1, EmptySeq
  <2>3. /\ x \o y \in Seq(Unit) /\ Len(x \o y) = Len(x) + Len(y)
        /\ \A i \in 1 .. Len(x) + Len(y) :
             (x \o y)[i] = IF i <= Len(x) THEN x[i] ELSE y[i - Len(x)]
    BY <2>2, ConcatProperties
  <2>4. /\ DOMAIN x = 1..Len(x) /\ DOMAIN y = 1..Len(y)
        /\ Len(x) \in Nat \ {0} /\ Len(y) \in Nat
    BY <2>2
  <2>5. DOMAIN (x \o y) = 1 .. Len(x) + Len(y) BY <2>3
  <2>6. s.data = x \o y BY <1>11, <2>1
  <2>7. DOMAIN s.data = 1 .. Len(x) + Len(y) BY <2>5, <2>6
  <2>8. \A i \in 1 .. Len(x) + Len(y) :
          s.data[i] = IF i <= Len(x) THEN x[i] ELSE y[i - Len(x)]
    BY <2>3, <2>6
  <2> QED BY <2>1, <2>4, <2>7, <2>8
<1>14. ASSUME NEW i \in DOMAIN s.data, ~(i \in DOMAIN f.data /\ s.data[i] = f.data[i])
       PROVE  \E j \in DOMAIN g.data : s.data[i] = g.data[j]
  <2>1. PICK l, m : l = Len(f.data) /\ m = Len(g.data) OBVIOUS
  <2>2. l \in Nat /\ m \in Nat /\ i \in 1 .. l + m BY <1>13, <1>14, <2>1
  <2>3. s.data[i] = IF i <= l THEN f.data[i] ELSE g.data[i - l] BY <1>13, <2>1, <2>2
  <2>4. ~(i <= l)
    <3>1. SUFFICES ASSUME i <= l PROVE FALSE OBVIOUS
    <3>2. i \in 1..l BY <2>2, <3>1
    <3>3. i \in DOMAIN f.data /\ s.data[i] = f.data[i] BY <1>13, <2>1, <2>3, <3>1, <3>2
    <3> QED BY <1>14, <3>3
  <2>5. i - l \in 1..m BY <2>2, <2>4
  <2>6. i - l \in DOMAIN g.data BY <1>13, <2>1, <2>5
  <2> QED BY <2>3, <2>4, <2>6
<1>15. PlainPart(s, J)
  <2>1. PlainChain(f.data, joined[c]) /\ f.push /\ f.after = 0
    BY <1>7, <1>12 DEF PlainPart
  <2>2. g.data # <<>> => PlainChain(g.data, joined[c]) BY <1>12 DEF PlainPart
  <2>3. ASSUME NEW i \in DOMAIN s.data
        PROVE  PlainUnit(s.data[i]) /\ (i = 1 \/ s.data[i] \in J)
    <3>1. \/ i \in DOMAIN f.data /\ s.data[i] = f.data[i]
          \/ \E j \in DOMAIN g.data : s.data[i] = g.data[j]
      BY <1>14
    <3>2. CASE i \in DOMAIN f.data /\ s.data[i] = f.data[i]
      BY <1>6, <2>1, <3>2 DEF PlainChain
    <3>3. ASSUME NEW j \in DOMAIN g.data, s.data[i] = g.data[j]
          PROVE  PlainUnit(s.data[i]) /\ s.data[i] \in J
      <4>1. g.data # <<>> BY <1>11, <3>3, EmptySeq
      <4> QED BY <1>6, <2>2, <3>3, <4>1 DEF PlainChain, ToSet
    <3> QED BY <3>1, <3>2, <3>3
  <2> QED BY <1>7, <1>11, <2>1, <2>3 DEF PlainPart, PlainChain
<1>16. ASSUME NEW x \in ToSet(new) PROVE PlainPart(x, J)
  <2>1. CASE x = s BY <1>15, <2>1
  <2>2. CASE x \in ToSet(Tail(Tail(to_send[c])))
    <3>1. PlainPart(x, joined[c]) BY <1>8, <2>2 DEF PlainConn, Flow
    <3> QED BY <1>6, <3>1, JoinedGrows
  <2> QED BY <1>9, <2>1, <2>2
<1>17. ASSUME NEW x \in ToSet(to_send[c]), NEW u, Leads(u, x)
       PROVE  u \in J \/ \E y \in ToSet(new) : Leads(u, y)
  <2>1. CASE x = f
    <3>1. s.data[1] = f.data[1]
      <4>1. PICK l, m : l = Len(f.data) /\ m = Len(g.data) OBVIOUS
      <4>2. l \in Nat \ {0} /\ m \in Nat BY <1>13, <4>1
      <4>3. 1 \in 1 .. l + m /\ 1 <= l BY <4>2
      <4> QED BY <1>13, <4>1, <4>3
    <3> QED BY <1>7, <1>9, <1>17, <2>1, <3>1 DEF Leads
  <2>2. CASE x = g
    <3>1. u \in ToSet(g.data) BY <1>11, <1>17, <2>2, EmptySeq DEF Leads, ToSet
    <3> QED BY <1>6, <3>1
  <2>3. CASE x \in ToSet(Tail(Tail(to_send[c]))) BY <1>9, <1>17, <2>3
  <2> QED BY <1>8, <2>1, <2>2, <2>3
<1> QED
  BY <1>1, <1>3, <1>4, <1>5, <1>6, <1>16, <1>17, PassKeepsPlain DEF J

LEMMA FasttmrKeepsPlain ==
  ASSUME ServerInv, NEW c \in Conn, PlainConn(c), tcp_fasttmr(c), UNCHANGED task
  PROVE  PlainConn(c)'
<1> DEFINE side == tcp_process_refused_data(Side(recvmbox[c], refused_data[c]))
<1>1. /\ pcb[c] = "open" /\ recvmbox[c] \in Mailboxes /\ recvmbox[c] # NULL
      /\ refused_data[c] \in Segments /\ refused_data[c] # NULL
  BY DEF tcp_fasttmr, ServerInv, TypeOK, Valid
<1>2. InOrder(recvmbox[c], refused_data[c], to_send[c])
  BY <1>1 DEF ServerInv, ConnInv, Valid
<1>3. refused_data[c].data # <<>> BY <1>1, <1>2 DEF InOrder
<1>4. Passes(recvmbox[c], refused_data[c], NULL, side) /\ side.mbox \in Mailboxes
  BY <1>1, <1>3, RetryPasses
<1>5. side.mbox # NULL BY <1>4
<1>6. /\ recvmbox'[c] = side.mbox /\ refused_data'[c] = side.refused
      /\ to_send' = to_send /\ got' = got /\ pcb' = pcb /\ last_err' = last_err
      /\ unanswered' = unanswered /\ joined' = joined /\ DeskStill
  BY DEF tcp_fasttmr, Becomes, clients, history, ServerInv, TypeOK, task, DeskStill
<1>7. \A x \in ToSet(to_send[c]) : PlainPart(x, joined[c]) BY DEF PlainConn, Flow
<1> HIDE DEF side
<1> QED BY <1>1, <1>3, <1>4, <1>5, <1>6, <1>7, PassKeepsPlain

(* Who gives up has sent his requests: none of them waits for an answer.   *)
LEMMA GiveUpKeepsPlain ==
  ASSUME ServerInv, AnswersInv, NEW c \in Conn, PlainConn(c), GiveUp(c), UNCHANGED task
  PROVE  PlainConn(c)'
<1> DEFINE fin == [data |-> <<>>, push |-> FALSE, fin |-> TRUE, after |-> 0]
           head == to_send[c][1]
<1>1. /\ to_send[c] \in Seq(Segments) /\ to_send[c] # <<>> /\ Orderly(to_send[c])
      /\ to_send'[c] = <<fin>> /\ ~Sends(c)
      /\ UNCHANGED <<pcb, last_err, recvmbox, refused_data, got>>
      /\ unanswered' = unanswered /\ joined' = joined /\ DeskStill
  BY DEF GiveUp, channel, ServerInv, ConnInv, TypeOK, task, DeskStill
<1>2. /\ head \in ToSet(to_send[c]) /\ head \in Segments
      /\ \A x \in ToSet(to_send[c]) : x = head \/ x \in ToSet(Tail(to_send[c]))
      /\ head.fin => Tail(to_send[c]) = <<>>
      /\ head.data = <<>> => head.fin
  BY <1>1, TailSet, TailIsOrderly
<1>3. PlainPart(head, joined[c]) BY <1>2 DEF PlainConn, Flow
<1>4. Answered(c) \in Nat
  <2>1. got[c] \in Seq(Answers \cup Ends) BY DEF AnswersInv
  <2>2. IsFiniteSet(1..Len(got[c])) BY <2>1, FS_Interval
  <2>3. {i \in DOMAIN got[c] : got[c][i][1] = "body"} \subseteq 1..Len(got[c])
    BY <2>1
  <2>4. IsFiniteSet({i \in DOMAIN got[c] : got[c][i][1] = "body"})
    BY <2>2, <2>3, FS_Subset
  <2> QED BY <2>4, FS_CardinalityType DEF Answered
<1>5. head.data = <<>>
  <2>1. ~(Answered(c) >= head.after) BY <1>1 DEF Sends
  <2> QED BY <1>3, <1>4, <2>1 DEF PlainPart
<1>6. ASSUME NEW x \in ToSet(to_send[c]) PROVE x.data = <<>>
  <2>1. ToSet(Tail(to_send[c])) = {} BY <1>2, <1>5 DEF ToSet
  <2> QED BY <1>2, <1>5, <1>6, <2>1
<1>7. \A x \in ToSet(to_send'[c]) : PlainPart(x, joined[c])
  BY <1>1 DEF ToSet, PlainPart
<1> HIDE DEF fin
<1>8. Flow(c)' BY <1>1, <1>7 DEF PlainConn, Flow
<1>9. Desk(c)' /\ Closed(c)' BY <1>1 DEF PlainConn, Desk, Closed, DeskStill
<1>10. Kept(c)'
  <2>1. \A x : InFlight(c, x) => InFlight(c, x)'
    BY <1>1, <1>6 DEF InFlight, Leads
  <2>2. \A x : InHand(c, x) => InHand(c, x)' BY <1>1 DEF InHand, DeskStill
  <2>3. \A x : Done(c, x) => Done(c, x)' BY <1>1 DEF Done
  <2> QED BY <1>1, <2>1, <2>2, <2>3 DEF PlainConn, Kept
<1> QED BY <1>8, <1>9, <1>10 DEF PlainConn

LEMMA EstablishKeepsPlain ==
  ASSUME ServerInv, NEW c \in Conn, PlainConn(c), Establish(c), UNCHANGED task
  PROVE  PlainConn(c)'
<1>1. /\ pcb[c] = "none" /\ pcb'[c] = "open" /\ recvmbox'[c] = <<>>
      /\ UNCHANGED <<last_err, refused_data, to_send, got>>
      /\ unanswered' = unanswered /\ joined' = joined /\ DeskStill
  BY DEF Establish, clients, history, ServerInv, TypeOK, task, DeskStill
<1>2. recvmbox[c] = NULL BY <1>1 DEF ServerInv, ConnInv, Placed
<1>3. Flow(c)' BY <1>1 DEF PlainConn, Flow, ToSet
<1>4. Desk(c)' BY <1>1 DEF PlainConn, Desk, DeskStill
<1>5. Closed(c)' BY <1>1 DEF PlainConn, Closed
<1>6. Kept(c)'
  <2>1. \A x : InFlight(c, x) => InFlight(c, x)' BY <1>1, <1>2 DEF InFlight
  <2>2. \A x : InHand(c, x) => InHand(c, x)' BY <1>1 DEF InHand, DeskStill
  <2>3. \A x : Done(c, x) => Done(c, x)' BY <1>1 DEF Done
  <2> QED BY <1>1, <2>1, <2>2, <2>3 DEF PlainConn, Kept
<1> QED BY <1>3, <1>4, <1>5, <1>6 DEF PlainConn

LEMMA RefuseKeepsPlain ==
  ASSUME ServerInv, AnswersInv, NEW c \in Conn, PlainConn(c), Refuse(c), UNCHANGED task
  PROVE  PlainConn(c)'
<1>1. /\ pcb[c] = "none" /\ got'[c] = Append(got[c], <<"rst">>)
      /\ UNCHANGED <<last_err, recvmbox, refused_data, to_send>>
      /\ unanswered' = unanswered /\ joined' = joined /\ DeskStill
  BY DEF Refuse, Tell, history, AnswersInv, task, DeskStill
<1>2. <<"fin">> \notin ToSet(got'[c])
  BY <1>1, NoEndYet, ResetKeepsClosed DEF PlainConn
<1>3. ToSet(got[c]) \subseteq ToSet(got'[c])
  <2>1. got[c] \in Seq(Answers \cup Ends) /\ <<"rst">> \in Answers \cup Ends
    BY DEF AnswersInv, Ends
  <2> QED BY <1>1, <2>1, AppendSet
<1>4. Flow(c)' /\ Desk(c)' /\ Closed(c)'
  BY <1>1, <1>2 DEF PlainConn, Flow, Desk, Closed, DeskStill
<1>5. Kept(c)'
  <2>1. \A x : InFlight(c, x) => InFlight(c, x)' BY <1>1 DEF InFlight
  <2>2. \A x : InHand(c, x) => InHand(c, x)' BY <1>1 DEF InHand, DeskStill
  <2>3. \A x : Done(c, x) => Done(c, x)' BY <1>1, <1>3 DEF Done
  <2> QED BY <1>1, <2>1, <2>2, <2>3 DEF PlainConn, Kept
<1> QED BY <1>4, <1>5 DEF PlainConn

LEMMA ErrKeepsPlain ==
  ASSUME ServerInv, AnswersInv, NEW c \in Conn, PlainConn(c), err_tcp(c), UNCHANGED task
  PROVE  PlainConn(c)'
<1>1. /\ pcb[c] = "open" /\ last_err'[c] = "reset" /\ refused_data'[c] = NULL
      /\ to_send'[c] = <<>> /\ got'[c] = Append(got[c], <<"rst">>)
      /\ recvmbox'[c] = Trypost(recvmbox[c], NULL) /\ DeskStill
      /\ joined' = joined
  BY DEF err_tcp, Break, history, ServerInv, TypeOK, task, DeskStill
<1>2. ASSUME recvmbox'[c] # NULL, NEW p \in ToSet(recvmbox'[c]) PROVE PlainPbuf(p, joined[c])
  <2>1. recvmbox[c] # NULL BY <1>1, <1>2 DEF Trypost, Valid
  <2>2. recvmbox[c] \in Mailboxes BY <2>1 DEF ServerInv, TypeOK
  <2>3. p \in ToSet(recvmbox[c]) \cup {NULL} BY <1>1, <1>2, <2>2, TrypostCarries
  <2> QED BY <2>1, <2>3 DEF PlainConn, Flow, PlainPbuf
<1> QED BY <1>1, <1>2, BrokenIsPlain

LEMMA NetworkKeepsPlain ==
  ASSUME ServerInv, AnswersInv, PlainInv, NEW d \in Conn, Network(d), UNCHANGED task
  PROVE  PlainInv'
<1>1. Cleared'
  <2>1. Cleared /\ UNCHANGED <<server, rx_buffer, lastdata, unanswered, executed>>
    BY DEF PlainInv, task
  <2>2. joined' \in [Conn -> SUBSET Unit]
    <3>1. joined \in [Conn -> SUBSET Unit] BY DEF PlainInv, Cleared
    <3>2. CASE QueueOoseq(d)
      <4>1. to_send[d] \in Seq(Segments) /\ Len(to_send[d]) > 1
        BY <3>2 DEF QueueOoseq, ServerInv, TypeOK
      <4>2. to_send[d][2] \in Segments BY <4>1, HeadsSet
      <4>3. to_send[d][2].data \in Seq(Unit) BY <4>2 DEF Segments
      <4>4. ToSet(to_send[d][2].data) \subseteq Unit BY <4>3 DEF ToSet
      <4>5. joined' = [joined EXCEPT ![d] = @ \cup ToSet(to_send[d][2].data)]
        BY <3>2 DEF QueueOoseq
      <4> QED BY <3>1, <4>4, <4>5
    <3>3. CASE ~QueueOoseq(d)
      BY <3>1, <3>3 DEF Network, Deliver, tcp_fasttmr, GiveUp, Establish, Refuse, err_tcp,
                        clients, history
    <3> QED BY <3>2, <3>3
  <2> QED BY <2>1, <2>2 DEF Cleared
<1>2. ASSUME NEW c \in Conn, Plain(c) PROVE PlainConn(c)'
  <2>1. PlainConn(c) BY <1>2 DEF PlainInv
  <2>2. CASE c = d
    BY <2>1, <2>2, DeliverKeepsPlain, QueueOoseqKeepsPlain, FasttmrKeepsPlain, GiveUpKeepsPlain,
       EstablishKeepsPlain, RefuseKeepsPlain, ErrKeepsPlain DEF Network
  <2>3. CASE c # d
    <3>1. DeskStill /\ unanswered' = unanswered BY DEF task, DeskStill
    <3>2. got \in [Conn -> Seq(Answers \cup Ends)] BY DEF AnswersInv
    <3>3. TypeOK /\ joined \in [Conn -> SUBSET Unit] BY DEF ServerInv, PlainInv, Cleared
    <3>4. Still(c)
      BY <2>3, <3>1, <3>2, <3>3
         DEF Network, Deliver, QueueOoseq, tcp_fasttmr, GiveUp, Establish, Refuse, err_tcp,
             Break, Becomes, Tell, clients, history, channel, TypeOK, Still
    <3> QED BY <2>1, <3>1, <3>4, StillKeepsPlain
  <2> QED BY <2>2, <2>3
<1>3. ASSUME NEW c \in Conn, Plain(c)' PROVE PlainConn(c)'
  BY <1>2, <1>3 DEF Plain
<1> QED BY <1>1, <1>3 DEF PlainInv

\* What the task leaves alone in most steps.
Outside == UNCHANGED <<pcb, last_err, recvmbox, refused_data, to_send, got, joined>>

LEMMA AcceptKeepsPlain ==
  ASSUME ServerInv, PlainInv, netconn_accept, NEW c \in Conn, PlainConn(c)
  PROVE  PlainConn(c)'
<1>1. /\ server = "accept" /\ server' = "peer" /\ sock = NULL
      /\ Outside /\ UNCHANGED <<lastdata, rx_buffer, unanswered>>
  BY DEF netconn_accept, ServerInv, TaskInv, Outside, channel, clients, history
<1>2. lastdata = NULL BY <1>1 DEF PlainInv, Cleared
<1>3. Flow(c)' /\ Closed(c)' BY <1>1 DEF PlainConn, Flow, Closed, Outside
<1>4. Desk(c)' BY <1>1, <1>2 DEF Desk, PlainRest
<1>5. Kept(c)' BY <1>1 DEF PlainConn, Kept, InFlight, InHand, Done, Outside
<1> QED BY <1>3, <1>4, <1>5 DEF PlainConn

\* The task stops here for a connection that is reset.
LEMMA PeerKeepsPlain ==
  ASSUME ServerInv, PlainInv, do_getaddr, NEW c \in Conn, PlainConn(c)
  PROVE  PlainConn(c)'
<1>1. /\ server = "peer" /\ sock \in Conn
      /\ UNCHANGED <<pcb, last_err, refused_data, to_send, got, lastdata, rx_buffer,
                     unanswered, joined>>
      /\ rx_buffer = <<>> /\ lastdata = NULL /\ last_err[sock] # "closed"
  BY DEF do_getaddr, ServerInv, TypeOK, TaskInv, clients, history, PlainInv, Cleared
<1>2. CASE pcb[sock] = "open"
  <2>1. server' = "recv" /\ UNCHANGED <<recvmbox, sock>> BY <1>2 DEF do_getaddr
  <2>2. Flow(c)' /\ Closed(c)' BY <1>1, <2>1 DEF PlainConn, Flow, Closed
  <2>3. Desk(c)' BY <1>1, <2>1 DEF Desk, PlainRest
  <2>4. Kept(c)' BY <1>1, <2>1 DEF PlainConn, Kept, InFlight, InHand, Done
  <2> QED BY <2>2, <2>3, <2>4 DEF PlainConn
<1>3. CASE pcb[sock] # "open"
  <2>1. /\ server' = "clean_up" /\ sock' = NULL
        /\ recvmbox' = [recvmbox EXCEPT ![sock] = NULL]
        /\ last_err[sock] = "reset"
    BY <1>1, <1>3 DEF do_getaddr, ServerInv, ConnInv, Placed
  <2>2. recvmbox \in [Conn -> Mailboxes \cup {NULL}] BY DEF ServerInv, TypeOK
  <2>3. CASE c = sock
    <3>1. recvmbox'[c] = NULL BY <1>1, <2>1, <2>2, <2>3
    <3>2. Flow(c)' /\ Closed(c)' BY <1>1, <3>1 DEF PlainConn, Flow, Closed
    <3>3. Desk(c)' BY <2>1 DEF Desk
    <3>4. Kept(c)' BY <1>1, <2>1, <2>3 DEF Kept
    <3> QED BY <3>2, <3>3, <3>4 DEF PlainConn
  <2>4. CASE c # sock
    <3>1. Still(c) BY <1>1, <2>1, <2>2, <2>4 DEF Still
    <3> QED BY <2>1, <2>4, <3>1, StillKeepsPlain
  <2> QED BY <2>3, <2>4
<1> QED BY <1>2, <1>3

LEMMA CleanUpKeepsPlain ==
  ASSUME ServerInv, AnswersInv, PlainInv, CleanUp, NEW c \in Conn, PlainConn(c)
  PROVE  PlainConn(c)'
<1> DEFINE broken == {b \in ToSet(acceptmbox) : pcb[b] = "open"}
<1>1. /\ server = "clean_up" /\ sock = NULL /\ sock' = NULL
      /\ Break(broken) /\ UNCHANGED <<lastdata, rx_buffer, unanswered>>
      /\ recvmbox' = [b \in Conn |-> IF b \in ToSet(acceptmbox) THEN NULL ELSE recvmbox[b]]
      /\ server' = "deleted" /\ joined' = joined
  BY DEF CleanUp, history, ServerInv, TaskInv
<1>2. CASE c \in broken
  BY <1>1, <1>2, BrokenIsPlain DEF Break
<1>3. CASE c \in ToSet(acceptmbox) /\ pcb[c] # "open"
  <2>1. Waiting(c) BY <1>3 DEF ToSet, Waiting, ServerInv, TypeOK
  <2>2. last_err[c] = "reset" BY <1>3, <2>1 DEF ServerInv, ConnInv, Placed
  <2>3. /\ recvmbox'[c] = NULL /\ to_send'[c] = to_send[c] /\ got'[c] = got[c]
        /\ refused_data'[c] = refused_data[c] /\ pcb'[c] = pcb[c]
        /\ last_err'[c] = last_err[c] /\ joined'[c] = joined[c]
    BY <1>1, <1>3 DEF Break
  <2>4. Flow(c)' /\ Closed(c)' BY <2>3 DEF PlainConn, Flow, Closed
  <2>5. Desk(c)' BY <1>1 DEF Desk
  <2>6. Kept(c)' BY <2>2, <2>3 DEF Kept
  <2> QED BY <2>4, <2>5, <2>6 DEF PlainConn
<1>4. CASE c \notin ToSet(acceptmbox)
  <2>1. Still(c) BY <1>1, <1>4 DEF Break, Still
  <2> QED BY <1>1, <2>1, StillKeepsPlain
<1> QED BY <1>2, <1>3, <1>4

(* What is copied of a pushed pbuf starts with what it started with.       *)
LEMMA CopyPlain ==
  ASSUME rx_buffer = <<>>, NEW p \in Pbufs, NEW mbox, Copy(p, mbox), p.push,
         p.data # <<>>
  PROVE  /\ server' = "json_wp" /\ rx_buffer' # <<>>
         /\ \A i \in DOMAIN rx_buffer' : i \in DOMAIN p.data /\ rx_buffer'[i] = p.data[i]
         /\ rx_buffer'[1] = p.data[1]
         /\ lastdata' # NULL =>
              /\ lastdata'.push
              /\ \A i \in DOMAIN lastdata'.data :
                   \E j \in DOMAIN p.data : j # 1 /\ lastdata'.data[i] = p.data[j]
<1> DEFINE n == Fits(p.data)
           rest == SubSeq(p.data, n + 1, Len(p.data))
<1>1. p.data \in Seq(Unit) /\ Len(p.data) \in Nat /\ Len(p.data) # 0
  BY EmptySeq DEF Pbufs
<1>2. rx_buffer \o p.data = p.data BY <1>1, ConcatEmptySeq
<1>3. n \in 1..Len(p.data) BY <1>1 DEF Fits
<1>4. /\ rx_buffer' = SubSeq(p.data, 1, n) /\ server' = "json_wp"
      /\ lastdata' = IF rest = <<>> THEN NULL ELSE [p EXCEPT !.data = rest]
  BY <1>2 DEF Copy
<1> HIDE DEF n
<1>5. /\ rx_buffer' \in Seq(Unit) /\ Len(rx_buffer') = n
      /\ \A i \in 1..n : rx_buffer'[i] = p.data[i]
  BY <1>1, <1>3, <1>4, SubSeqProperties
<1>6. rx_buffer' # <<>> /\ rx_buffer'[1] = p.data[1] BY <1>3, <1>5, EmptySeq
<1>8. \A i \in DOMAIN rx_buffer' : i \in DOMAIN p.data /\ rx_buffer'[i] = p.data[i]
  <2>1. DOMAIN rx_buffer' = 1..n /\ DOMAIN p.data = 1..Len(p.data) BY <1>1, <1>5
  <2> QED BY <1>1, <1>3, <1>5, <2>1
<1>7. ASSUME lastdata' # NULL
      PROVE  /\ lastdata'.push
             /\ \A i \in DOMAIN lastdata'.data :
                  \E j \in DOMAIN p.data : j # 1 /\ lastdata'.data[i] = p.data[j]
  <2>1. /\ lastdata' = [p EXCEPT !.data = rest] BY <1>4, <1>7
  <2>2. lastdata'.data = rest /\ lastdata'.push BY <2>1 DEF Pbufs
  <2>3. /\ rest \in Seq(Unit) /\ Len(rest) = Len(p.data) - n
        /\ \A i \in 1..Len(rest) : rest[i] = p.data[n + i]
    BY <1>1, <1>3, SubSeqProperties
  <2> HIDE DEF rest
  <2>4. ASSUME NEW i \in DOMAIN rest
        PROVE  \E j \in DOMAIN p.data : j # 1 /\ rest[i] = p.data[j]
    <3>1. i \in 1..Len(rest) BY <2>3
    <3>2. n + i \in DOMAIN p.data /\ n + i # 1 BY <1>1, <1>3, <2>3, <3>1
    <3> QED BY <2>3, <3>1, <3>2
  <2> QED BY <2>2, <2>4
<1> QED BY <1>4, <1>6, <1>7, <1>8

LEMMA RecvRestKeepsPlain ==
  ASSUME ServerInv, PlainInv, RecvRest, NEW c \in Conn, PlainConn(c)
  PROVE  PlainConn(c)'
<1>1. /\ lastdata # NULL /\ server = "recv" /\ sock' = sock /\ unanswered' = unanswered
      /\ Outside /\ Copy(lastdata, recvmbox[sock]) /\ lastdata \in Pbufs
  BY DEF RecvRest, netconnVars, channel, clients, history, Outside, ServerInv, TypeOK
<1>2. CASE c # sock
  <2>1. Still(c) BY <1>1 DEF Still, Outside
  <2> QED BY <1>1, <1>2, <2>1, StillKeepsPlain
<1>3. CASE c = sock
  <2>1. /\ rx_buffer = <<>> /\ PlainRest(lastdata, joined[c]) /\ last_err[c] # "closed"
    BY <1>1, <1>3 DEF PlainConn, Desk
  <2>2. /\ lastdata.push /\ lastdata.data # <<>>
        /\ \A i \in DOMAIN lastdata.data :
             PlainUnit(lastdata.data[i]) /\ lastdata.data[i] \in joined[c]
    BY <1>1, <2>1 DEF PlainRest, Pbufs
  <2>3. /\ server' = "json_wp" /\ rx_buffer' # <<>>
        /\ \A i \in DOMAIN rx_buffer' :
             i \in DOMAIN lastdata.data /\ rx_buffer'[i] = lastdata.data[i]
        /\ lastdata' # NULL =>
             /\ lastdata'.push
             /\ \A i \in DOMAIN lastdata'.data :
                  \E j \in DOMAIN lastdata.data : j # 1 /\ lastdata'.data[i] = lastdata.data[j]
    BY <1>1, <2>1, <2>2, CopyPlain
  <2>4. PlainChain(rx_buffer', joined[c]) BY <2>2, <2>3 DEF PlainChain
  <2>5. PlainRest(lastdata', joined[c]) BY <2>2, <2>3 DEF PlainRest
  <2>6. Desk(c)' BY <1>1, <2>1, <2>3, <2>4, <2>5 DEF Desk, Outside
  <2>7. Flow(c)' /\ Closed(c)' BY <1>1 DEF PlainConn, Flow, Closed, Outside
  <2>8. Kept(c)' BY <1>1 DEF PlainConn, Kept, InFlight, InHand, Done, Outside
  <2> QED BY <2>6, <2>7, <2>8 DEF PlainConn
<1> QED BY <1>2, <1>3

LEMMA TestErrorKeepsPlain ==
  ASSUME ServerInv, PlainInv, TestError, NEW c \in Conn, PlainConn(c)
  PROVE  PlainConn(c)'
<1>1. /\ server = "recv" /\ sock' = sock /\ Outside
      /\ UNCHANGED <<lastdata, rx_buffer, unanswered>>
      /\ \/ server' = "shutdown"
         \/ server' = "json_wp" /\ rx_buffer # <<>>
         \/ server' = "fetch"
  BY DEF TestError, Ended, netconnVars, channel, clients, history, Outside
<1>2. CASE c # sock
  <2>1. Still(c) BY <1>1 DEF Still, Outside
  <2> QED BY <1>1, <1>2, <2>1, StillKeepsPlain
<1>3. CASE c = sock
  <2>1. rx_buffer = <<>> /\ PlainRest(lastdata, joined[c])
    BY <1>1, <1>3 DEF PlainConn, Desk
  <2>2. Flow(c)' /\ Closed(c)' BY <1>1 DEF PlainConn, Flow, Closed, Outside
  <2>3. Desk(c)' BY <1>1, <2>1 DEF Desk, Outside
  <2>4. Kept(c)' BY <1>1 DEF PlainConn, Kept, InFlight, InHand, Done, Outside
  <2> QED BY <2>2, <2>3, <2>4 DEF PlainConn
<1> QED BY <1>2, <1>3

(* Whatever is behind it, the first request is parsed.                     *)
LEMMA PlainIsParsed ==
  ASSUME NEW data \in Seq(Unit), NEW J, PlainChain(data, J)
  PROVE  Parsed(data) = data[1][1]
<1>1. Len(data) >= 1 /\ 1 \in DOMAIN data BY EmptySeq DEF PlainChain
<1>2. data[1] = <<data[1][1], 1, 1>> BY <1>1 DEF PlainChain, PlainUnit
<1>3. data[1][3] = 1 /\ \A k \in 1..1 : data[k] = <<data[1][1], k, 1>> BY <1>2
<1> QED BY <1>1, <1>3 DEF Parsed

LEMMA FetchKeepsPlain ==
  ASSUME ServerInv, PlainInv, Fetch, NEW c \in Conn, PlainConn(c)
  PROVE  PlainConn(c)'
<1> DEFINE m == recvmbox[sock]
<1>1. /\ server = "fetch" /\ m # <<>> /\ sock \in Conn /\ sock' = sock
      /\ recvmbox' = [recvmbox EXCEPT ![sock] = Tail(m)]
      /\ UNCHANGED <<pcb, refused_data, to_send, got, unanswered, joined>>
  BY DEF Fetch, clients, history, ServerInv, TaskInv, TypeOK
<1>2. m \in Mailboxes /\ m # NULL
  BY <1>1 DEF ServerInv, TaskInv, TypeOK, Valid
<1>3. /\ Tail(m) \in Mailboxes /\ Head(m) \in Pbufs \cup {NULL} /\ Head(m) = m[1]
  BY <1>1, <1>2, FetchLeavesRest
<1>4. /\ m[1] \in ToSet(m) /\ ToSet(Tail(m)) \subseteq ToSet(m)
      /\ \A x \in ToSet(m) : x = m[1] \/ x \in ToSet(Tail(m))
  BY <1>1, <1>2, TailSet DEF Mailboxes
<1>5. TypeOK BY DEF ServerInv
<1>6. CASE c # sock
  <2>1. last_err'[c] = last_err[c] BY <1>5, <1>6 DEF Fetch, TypeOK
  <2>2. recvmbox'[c] = recvmbox[c] BY <1>1, <1>5, <1>6 DEF TypeOK
  <2>3. Still(c) BY <1>1, <2>1, <2>2 DEF Still
  <2> QED BY <1>1, <1>6, <2>3, StillKeepsPlain
<1>7. CASE c = sock
  <2>1. rx_buffer = <<>> /\ lastdata = NULL
    BY <1>1, <1>7 DEF PlainConn, Desk, PlainInv, Cleared
  <2>2. recvmbox'[c] = Tail(m) BY <1>1, <1>5, <1>7 DEF TypeOK
  <2>3. last_err[c] # "closed"
    BY <1>1, <1>2, <1>7 DEF ServerInv, ConnInv, AllRead
  <2>4. Flow(c)'
    <3>1. \A p \in ToSet(Tail(m)) : PlainPbuf(p, joined[c])
      BY <1>2, <1>4, <1>7 DEF PlainConn, Flow
    <3> QED BY <1>1, <2>2, <3>1 DEF PlainConn, Flow
  <2>5. CASE Head(m) = NULL
    <3>1. /\ server' = "shutdown" /\ UNCHANGED <<rx_buffer, lastdata>>
          /\ last_err'[c] = "closed" \/ last_err'[c] = "reset"
          /\ last_err[c] = "reset" => last_err'[c] = "reset"
      BY <1>5, <1>7, <2>1, <2>3, <2>5 DEF Fetch, Ended, TypeOK
    <3>2. Desk(c)' BY <2>1, <3>1 DEF Desk, PlainRest
    <3>3. Closed(c)' BY <1>1, <2>3 DEF PlainConn, Closed
    <3>4. ASSUME NEW s, InFlight(c, s) PROVE InFlight(c, s)'
      <4>1. m[1] = NULL BY <1>3, <2>5
      <4>2. Tail(m) # NULL BY <1>3
      <4> QED BY <1>1, <1>4, <1>7, <2>2, <3>4, <4>1, <4>2 DEF InFlight
    <3>5. \A s : ~InHand(c, s) BY <1>1 DEF InHand
    <3>6. \A s : Done(c, s) => Done(c, s)' BY <1>1 DEF Done
    <3>7. Kept(c)' BY <3>1, <3>4, <3>5, <3>6 DEF PlainConn, Kept
    <3> QED BY <2>4, <3>2, <3>3, <3>7 DEF PlainConn
  <2>6. CASE Head(m) # NULL
    <3>1. Copy(Head(m), Tail(m)) /\ last_err' = last_err BY <2>6 DEF Fetch
    <3>2. Head(m) \in Pbufs BY <1>3, <2>6
    <3>3. PlainChain(Head(m).data, joined[c]) /\ Head(m).push
      BY <1>2, <1>3, <1>4, <1>7, <2>6 DEF PlainConn, Flow, PlainPbuf
    <3>4. /\ server' = "json_wp" /\ rx_buffer' # <<>>
          /\ \A i \in DOMAIN rx_buffer' :
               i \in DOMAIN Head(m).data /\ rx_buffer'[i] = Head(m).data[i]
          /\ rx_buffer'[1] = Head(m).data[1]
          /\ lastdata' # NULL =>
               /\ lastdata'.push
               /\ \A i \in DOMAIN lastdata'.data :
                    \E j \in DOMAIN Head(m).data :
                      j # 1 /\ lastdata'.data[i] = Head(m).data[j]
      BY <2>1, <3>1, <3>2, <3>3, CopyPlain DEF PlainChain
    <3>5. PlainChain(rx_buffer', joined[c]) BY <3>3, <3>4 DEF PlainChain
    <3>12. PlainRest(lastdata', joined[c]) BY <3>3, <3>4 DEF PlainChain, PlainRest
    <3>6. Desk(c)' BY <1>1, <2>3, <3>1, <3>4, <3>5, <3>12 DEF Desk
    <3>7. Closed(c)' BY <1>1, <3>1 DEF PlainConn, Closed
    <3>8. ASSUME NEW s, InFlight(c, s) PROVE InFlight(c, s)' \/ InHand(c, s)'
      <4>1. CASE Leads(s, m[1])
        BY <1>1, <1>3, <1>7, <3>4, <4>1 DEF InHand, Leads
      <4>2. CASE ~Leads(s, m[1])
        <5>1. Tail(m) # NULL BY <1>3
        <5> QED BY <1>1, <1>4, <1>7, <2>2, <3>8, <4>2, <5>1 DEF InFlight
      <4> QED BY <4>1, <4>2
    <3>9. \A s : ~InHand(c, s) BY <1>1 DEF InHand
    <3>10. \A s : Done(c, s) => Done(c, s)' BY <1>1 DEF Done
    <3>11. Kept(c)' BY <3>1, <3>8, <3>9, <3>10 DEF PlainConn, Kept
    <3> QED BY <2>4, <3>6, <3>7, <3>11 DEF PlainConn
  <2> QED BY <2>5, <2>6
<1> QED BY <1>6, <1>7

LEMMA JsonKeepsPlain ==
  ASSUME ServerInv, PlainInv, json_wp, NEW c \in Conn, PlainConn(c)
  PROVE  PlainConn(c)'
<1> DEFINE r == Parsed(rx_buffer)
<1>1. /\ server = "json_wp" /\ rx_buffer \in Seq(Unit) /\ rx_buffer # <<>>
      /\ rx_buffer' = <<>> /\ sock' = sock /\ lastdata' = lastdata /\ Outside
      /\ unanswered \in [Conn -> SUBSET Requests]
  BY DEF json_wp, ServerInv, TypeOK, TaskInv, netconnVars, channel, clients, history,
         Outside, PlainInv, Cleared
<1>2. CASE c # sock
  <2>1. unanswered'[c] = unanswered[c]
    BY <1>1, <1>2 DEF json_wp, NotParsed, Execute, Deny
  <2>2. Still(c) BY <1>1, <2>1 DEF Still, Outside
  <2> QED BY <1>1, <1>2, <2>2, StillKeepsPlain
<1>3. CASE c = sock
  <2>1. /\ PlainChain(rx_buffer, joined[c]) /\ PlainRest(lastdata, joined[c])
        /\ last_err[c] # "closed"
    BY <1>1, <1>3 DEF PlainConn, Desk
  <2>2. r = rx_buffer[1][1] BY <1>1, <2>1, PlainIsParsed
  <2>3. r # NULL
    <3>1. rx_buffer[1] \in Unit BY <1>1, EmptySeq
    <3> QED BY <2>2, <3>1 DEF Requests
  <2>4. \/ server' = "header" /\ request' = rx_buffer[1] /\ unanswered' = unanswered
        \/ /\ server' = "recv"
           /\ unanswered' = [unanswered EXCEPT ![sock] = @ \cup {r}]
    BY <2>3 DEF json_wp, NotParsed, Execute, Deny
  <2> HIDE DEF r
  <2>5. Flow(c)' /\ Closed(c)' BY <1>1 DEF PlainConn, Flow, Closed, Outside
  <2>6. Desk(c)' BY <1>1, <2>1, <2>4 DEF Desk, Outside
  <2>7. \A s : InFlight(c, s) => InFlight(c, s)' BY <1>1 DEF InFlight, Outside
  <2>8. \A s : InHand(c, s) => InHand(c, s)' \/ Done(c, s)'
    <3> SUFFICES ASSUME NEW s, InHand(c, s) PROVE InHand(c, s)' \/ Done(c, s)' OBVIOUS
    <3>1. s = rx_buffer[1] BY <1>1 DEF InHand
    <3>2. CASE server' = "header" /\ request' = rx_buffer[1]
      BY <1>1, <1>3, <3>1, <3>2 DEF InHand
    <3>3. CASE unanswered' = [unanswered EXCEPT ![sock] = @ \cup {r}]
      BY <1>1, <1>3, <2>2, <3>1, <3>3 DEF Done
    <3> QED BY <2>4, <3>2, <3>3
  <2>9. \A s : Done(c, s) => Done(c, s)' BY <1>1, <1>3, <2>4 DEF Done, Outside
  <2>10. Kept(c)' BY <1>1, <2>7, <2>8, <2>9 DEF PlainConn, Kept, Outside
  <2> QED BY <2>5, <2>6, <2>10 DEF PlainConn
<1> QED BY <1>2, <1>3

(* The connection of a request that is answered is open or was reset.      *)
LEMMA SendKeepsPlain ==
  ASSUME ServerInv, AnswersInv, PlainInv, SendHeader \/ SendBody,
         NEW c \in Conn, PlainConn(c)
  PROVE  PlainConn(c)'
<1> DEFINE x == <<server, request>>
<1>1. /\ sock \in Conn /\ server \in {"header", "body"} /\ sock' = sock
      /\ server = "header" => server' = "body" /\ request' = request
      /\ server = "body" => server' = "recv"
      /\ UNCHANGED <<pcb, last_err, recvmbox, refused_data, to_send, lastdata,
                     rx_buffer, unanswered, joined>>
      /\ Write(x)
  BY DEF SendHeader, SendBody, Send, ServerInv, TypeOK, TaskInv, channel, history
<1>2. /\ got \in [Conn -> Seq(Answers \cup Ends)] /\ x \in Answers
  <2>1. Len(replies[sock]) > 0 /\ request = replies[sock][Len(replies[sock])]
    BY <1>1 DEF AnswersInv, RequestLast
  <2>2. replies[sock] \in Seq(Unit) BY <1>1 DEF AnswersInv
  <2>3. request \in Unit BY <2>1, <2>2
  <2> QED BY <1>1, <2>3 DEF Answers, AnswersInv
<1>3. CASE c # sock
  <2>1. got'[c] = got[c] BY <1>1, <1>2, <1>3 DEF Write, Tell
  <2>2. Still(c) BY <1>1, <2>1 DEF Still
  <2> QED BY <1>1, <1>3, <2>2, StillKeepsPlain
<1>4. CASE c = sock
  <2>1. /\ PlainRest(lastdata, joined[c]) /\ last_err[c] # "closed" /\ rx_buffer = <<>>
    BY <1>1, <1>4 DEF PlainConn, Desk, PlainInv, Cleared
  <2>2. \/ got'[c] = got[c] /\ last_err[c] = "reset"
        \/ got'[c] = Append(got[c], x)
    <3>1. pcb[c] = "open" \/ last_err[c] = "reset"
      BY <1>4 DEF ServerInv, ConnInv, Placed
    <3>2. last_err[c] \in {"ok", "closed", "reset"} BY DEF ServerInv, TypeOK
    <3> QED BY <1>1, <1>2, <1>4, <2>1, <3>1, <3>2 DEF Write, Tell, Fatal
  <2>3. ToSet(Append(got[c], x)) = ToSet(got[c]) \cup {x}
    <3>1. got[c] \in Seq(Answers \cup Ends) BY <1>2
    <3>2. x \in Answers \cup Ends BY <1>2
    <3> HIDE DEF x
    <3> QED BY <3>1, <3>2, AppendSet
  <2>4. x # <<"fin">>
    <3>1. x[1] # "fin" BY <1>1
    <3> QED BY <3>1
  <2>5. Closed(c)' BY <1>1, <2>2, <2>3, <2>4 DEF PlainConn, Closed
  <2>6. Flow(c)' BY <1>1 DEF PlainConn, Flow
  <2>7. Desk(c)' BY <1>1, <2>1 DEF Desk
  <2>8. Kept(c)'
    <3> SUFFICES ASSUME last_err[c] # "reset",
                        NEW t \in ToSet(Script[c]), t.data # <<>>,
                        NEW s, s = t.data[1]
                 PROVE  InFlight(c, s)' \/ InHand(c, s)' \/ Done(c, s)'
      BY <1>1 DEF Kept
    <3>1. InFlight(c, s) \/ InHand(c, s) \/ Done(c, s) BY DEF PlainConn, Kept
    <3>2. InFlight(c, s) => InFlight(c, s)' BY <1>1 DEF InFlight
    <3>3. Done(c, s) => Done(c, s)' BY <1>1, <2>2, <2>3 DEF Done
    <3>4. ASSUME InHand(c, s) PROVE InHand(c, s)' \/ Done(c, s)'
      <4>1. request = s BY <1>1, <3>4 DEF InHand
      <4>2. CASE server = "header" BY <1>1, <1>4, <4>1, <4>2 DEF InHand
      <4>3. CASE server = "body"
        <5>1. x \in ToSet(got'[c]) BY <2>2, <2>3
        <5> QED BY <4>1, <4>3, <5>1 DEF Done
      <4> QED BY <1>1, <4>2, <4>3
    <3> QED BY <3>1, <3>2, <3>3, <3>4
  <2> QED BY <2>5, <2>6, <2>7, <2>8 DEF PlainConn
<1> QED BY <1>3, <1>4

(* What close gives up is empty, or of a connection that was reset.        *)
LEMMA GivenUpIsEmpty ==
  ASSUME ServerInv, NEW c \in Conn, c = sock, server \in {"shutdown", "close"}
  PROVE  \/ last_err[c] = "reset"
         \/ last_err[c] = "closed" /\ pcb[c] = "open" /\ AllRead(c)
<1>1. Fatal(c) BY DEF ServerInv, TaskInv
<1>2. last_err[c] \in {"closed", "reset"} BY <1>1 DEF Fatal, ServerInv, TypeOK
<1> QED BY <1>2 DEF ServerInv, ConnInv, Placed

LEMMA CloseKeepsPlain ==
  ASSUME ServerInv, PlainInv, do_close, NEW c \in Conn, PlainConn(c)
  PROVE  PlainConn(c)'
<1>1. /\ server = "shutdown" /\ server' = "close" /\ sock \in Conn /\ sock' = sock
      /\ UNCHANGED <<pcb, last_err, to_send, got, lastdata, rx_buffer, unanswered,
                     joined>>
      /\ TypeOK
  BY DEF do_close, clients, history, ServerInv, TaskInv, TypeOK
<1>2. CASE c # sock
  <2>1. recvmbox'[c] = recvmbox[c] /\ refused_data'[c] = refused_data[c]
    BY <1>1, <1>2 DEF do_close, Becomes, TypeOK
  <2>2. Still(c) BY <1>1, <2>1 DEF Still
  <2> QED BY <1>1, <1>2, <2>2, StillKeepsPlain
<1>3. CASE c = sock
  <2>1. \/ recvmbox'[c] = NULL /\ refused_data'[c] = NULL
        \/ recvmbox'[c] = recvmbox[c] /\ refused_data'[c] = refused_data[c]
    BY <1>1, <1>3 DEF do_close, Becomes, Side, TypeOK
  <2>2. Flow(c)' /\ Closed(c)' BY <1>1, <2>1 DEF PlainConn, Flow, Closed
  <2>3. Desk(c)' BY <1>1 DEF PlainConn, Desk
  <2>4. last_err[c] = "reset" \/ AllRead(c) BY <1>1, <1>3, GivenUpIsEmpty
  <2>5. Kept(c)'
    <3> SUFFICES ASSUME last_err[c] # "reset",
                        NEW t \in ToSet(Script[c]), t.data # <<>>,
                        NEW s, s = t.data[1]
                 PROVE  Done(c, s)'
      BY <1>1 DEF Kept
    <3>1. InFlight(c, s) \/ InHand(c, s) \/ Done(c, s) BY DEF PlainConn, Kept
    <3>2. ~InHand(c, s) BY <1>1 DEF InHand
    <3>3. ~InFlight(c, s) BY <2>4 DEF InFlight, AllRead, ToSet
    <3> QED BY <1>1, <3>1, <3>2, <3>3 DEF Done
  <2> QED BY <2>2, <2>3, <2>5 DEF PlainConn
<1> QED BY <1>2, <1>3

LEMMA DelconnKeepsPlain ==
  ASSUME ServerInv, AnswersInv, PlainInv, do_delconn, NEW c \in Conn, PlainConn(c)
  PROVE  PlainConn(c)'
<1>1. /\ server = "close" /\ server' = "accept" /\ sock \in Conn /\ sock' = NULL
      /\ UNCHANGED <<last_err, refused_data, to_send, rx_buffer, unanswered, joined>>
      /\ recvmbox' = [recvmbox EXCEPT ![sock] = NULL]
      /\ TypeOK /\ got \in [Conn -> Seq(Answers \cup Ends)]
  BY DEF do_delconn, history, ServerInv, TaskInv, TypeOK, AnswersInv
<1>2. CASE c # sock
  <2>1. recvmbox'[c] = recvmbox[c] /\ pcb'[c] = pcb[c] /\ got'[c] = got[c]
    BY <1>1, <1>2 DEF do_delconn, Tell, TypeOK
  <2>2. Still(c) BY <1>1, <2>1 DEF Still
  <2> QED BY <1>1, <1>2, <2>2, StillKeepsPlain
<1>3. CASE c = sock
  <2>1. recvmbox'[c] = NULL BY <1>1, <1>3 DEF TypeOK
  <2>2. Flow(c)' BY <1>1, <2>1 DEF PlainConn, Flow
  <2>3. c # sock' BY <1>1
  <2>4. Desk(c)' BY <2>3 DEF Desk
  <2>5. \/ pcb[c] = "open" /\ pcb'[c] = "gone" /\ got'[c] = Append(got[c], <<"fin">>)
        \/ pcb[c] # "open" /\ pcb'[c] = pcb[c] /\ got'[c] = got[c]
    BY <1>1, <1>3 DEF do_delconn, Tell, TypeOK
  <2>6. \/ last_err[c] = "reset"
        \/ last_err[c] = "closed" /\ pcb[c] = "open" /\ AllRead(c)
    BY <1>1, <1>3, GivenUpIsEmpty
  <2>7. pcb[c] = "open" => last_err[c] = "closed"
    BY <2>6 DEF ServerInv, ConnInv, Placed
  <2>8. Closed(c)' BY <1>1, <2>5, <2>7 DEF PlainConn, Closed
  <2>9. ToSet(got[c]) \subseteq ToSet(got'[c])
    <3>1. <<"fin">> \in Answers \cup Ends BY DEF Ends
    <3>2. ToSet(Append(got[c], <<"fin">>)) = ToSet(got[c]) \cup {<<"fin">>}
      <4>1. got[c] \in Seq(Answers \cup Ends) BY <1>1
      <4> QED BY <3>1, <4>1, AppendSet
    <3> QED BY <2>5, <3>2
  <2>10. Kept(c)'
    <3> SUFFICES ASSUME last_err[c] # "reset",
                        NEW t \in ToSet(Script[c]), t.data # <<>>,
                        NEW s, s = t.data[1]
                 PROVE  Done(c, s)'
      BY <1>1 DEF Kept
    <3>1. InFlight(c, s) \/ InHand(c, s) \/ Done(c, s) BY DEF PlainConn, Kept
    <3>2. ~InHand(c, s) BY <1>1 DEF InHand
    <3>3. ~InFlight(c, s) BY <2>6 DEF InFlight, AllRead, ToSet
    <3> QED BY <1>1, <2>9, <3>1, <3>2, <3>3 DEF Done
  <2> QED BY <2>2, <2>4, <2>8, <2>10 DEF PlainConn
<1> QED BY <1>2, <1>3

LEMMA TaskKeepsCleared ==
  ASSUME ServerInv, PlainInv, ServerTask PROVE Cleared'
<1>1. Cleared /\ joined' = joined
  BY DEF PlainInv, ServerTask, netconn_accept, do_getaddr, CleanUp, RecvRest, TestError, Fetch,
         json_wp, SendHeader, SendBody, Send, do_close, do_delconn, netconnVars, clients, history
<1>2. CASE netconn_accept \/ do_getaddr \/ CleanUp \/ do_close
  BY <1>1, <1>2 DEF netconn_accept, do_getaddr, CleanUp, do_close, Cleared
<1>3. CASE RecvRest BY <1>1, <1>3 DEF RecvRest, Copy, Cleared
<1>4. CASE TestError BY <1>1, <1>4 DEF TestError, Ended, Cleared
<1>5. CASE Fetch BY <1>1, <1>5 DEF Fetch, Ended, Copy, Cleared
<1>6. CASE json_wp
  <2>1. server' \in {"header", "recv"} /\ rx_buffer' = <<>>
    BY <1>6 DEF json_wp, NotParsed, Execute
  <2>2. rx_buffer \in Seq(Unit) /\ rx_buffer # <<>> /\ sock \in Conn
    BY <1>6 DEF json_wp, ServerInv, TypeOK, TaskInv
  <2>3. Parsed(rx_buffer) \in Requests \cup {NULL} BY <2>2, ParsedType
  <2>4. unanswered' \in [Conn -> SUBSET Requests]
    <3>1. \/ UNCHANGED unanswered
          \/ /\ Parsed(rx_buffer) # NULL
             /\ unanswered' = [unanswered EXCEPT ![sock] = @ \cup {Parsed(rx_buffer)}]
      BY <1>6 DEF json_wp, NotParsed, Execute, Deny
    <3>2. unanswered \in [Conn -> SUBSET Requests] BY <1>1 DEF Cleared
    <3> QED BY <2>2, <2>3, <3>1, <3>2, SMTT(30)
  <2>5. executed' \in [Conn -> Seq(Requests)]
    <3>1. \/ UNCHANGED executed
          \/ /\ Parsed(rx_buffer) # NULL
             /\ executed' = [executed EXCEPT ![sock] = Append(@, Parsed(rx_buffer))]
      BY <1>6 DEF json_wp, NotParsed, Execute
    <3>2. executed \in [Conn -> Seq(Requests)] BY <1>1 DEF Cleared
    <3>3. CASE UNCHANGED executed BY <3>2, <3>3
    <3>4. CASE /\ Parsed(rx_buffer) # NULL
               /\ executed' = [executed EXCEPT ![sock] = Append(@, Parsed(rx_buffer))]
      <4>1. PICK r : r = Parsed(rx_buffer) OBVIOUS
      <4>2. r \in Requests BY <2>3, <3>4, <4>1
      <4>3. executed[sock] \in Seq(Requests) BY <2>2, <3>2
      <4>4. Append(executed[sock], r) \in Seq(Requests) BY <4>2, <4>3
      <4> QED BY <3>2, <3>4, <4>1, <4>4
    <3> QED BY <3>1, <3>3, <3>4
  <2> QED BY <1>1, <2>1, <2>4, <2>5 DEF Cleared
<1>7. CASE SendHeader \/ SendBody
  BY <1>1, <1>7 DEF SendHeader, SendBody, Send, Cleared
<1>8. CASE do_delconn BY <1>1, <1>8 DEF do_delconn, Cleared
<1> QED BY <1>2, <1>3, <1>4, <1>5, <1>6, <1>7, <1>8 DEF ServerTask

LEMMA NextKeepsPlain ==
  ASSUME ServerInv, AnswersInv, PlainInv, [Next]_vars PROVE PlainInv'
<1>1. CASE ServerTask
  <2>1. ASSUME NEW c \in Conn, Plain(c)' PROVE PlainConn(c)'
    <3>1. PlainConn(c) BY <2>1 DEF PlainInv, Plain
    <3> QED
      BY <1>1, <3>1, AcceptKeepsPlain, PeerKeepsPlain, CleanUpKeepsPlain,
         RecvRestKeepsPlain, TestErrorKeepsPlain, FetchKeepsPlain, JsonKeepsPlain,
         SendKeepsPlain, CloseKeepsPlain, DelconnKeepsPlain DEF ServerTask
  <2> QED BY <1>1, <2>1, TaskKeepsCleared DEF PlainInv
<1>2. ASSUME NEW c \in Conn, Network(c), UNCHANGED task PROVE PlainInv'
  BY <1>2, NetworkKeepsPlain
<1>3. CASE UNCHANGED vars
  <2>1. /\ \A c \in Conn : Still(c)
        /\ DeskStill /\ UNCHANGED <<unanswered, joined, executed>>
    BY <1>3 DEF vars, netconnVars, channel, clients, history, task, Still, DeskStill
  <2>2. Cleared' BY <2>1 DEF PlainInv, Cleared, DeskStill
  <2>3. ASSUME NEW c \in Conn, Plain(c)' PROVE PlainConn(c)'
    <3>1. PlainConn(c) BY <2>3 DEF PlainInv, Plain
    <3> QED BY <2>1, <3>1, StillKeepsPlain
  <2> QED BY <2>2, <2>3 DEF PlainInv
<1> QED BY <1>1, <1>2, <1>3 DEF Next

(* When the server closes a connection, nothing of it is on the way.       *)
LEMMA PlainIsAnswered ==
  ASSUME ServerInv, PlainInv, NEW c \in Conn, Plain(c), <<"fin">> \in ToSet(got[c]),
         NEW t \in ToSet(Script[c]), t.data # <<>>, NEW s, s = t.data[1]
  PROVE  Done(c, s)
<1>1. PlainConn(c) BY DEF PlainInv
<1>2. pcb[c] = "gone" /\ last_err[c] = "closed" BY <1>1 DEF PlainConn, Closed
<1>3. AllRead(c) /\ c # sock BY <1>2 DEF ServerInv, ConnInv, Placed
<1>4. InFlight(c, s) \/ InHand(c, s) \/ Done(c, s) BY <1>1, <1>2 DEF PlainConn, Kept
<1>5. ~InFlight(c, s) BY <1>3 DEF InFlight, AllRead, ToSet
<1> QED BY <1>3, <1>4, <1>5 DEF InHand

(* However requests come in, wait, are refused and tried again: a client   *)
(* that sends each in a pushed segment without waiting has, when the       *)
(* server closes its connection, the answer to every one, but for those    *)
(* the memory did not suffice for and those that came too early and were   *)
(* joined to the one before.  The pushes keep the others apart in          *)
(* rx_buffer, and of what was joined the first is parsed.                  *)
THEOREM AllAnsweredAlways == Spec => []AllAnswered
<1>1. Init => PlainInv BY InitPlain
<1>2. ServerInv /\ AnswersInv /\ PlainInv /\ [Next]_vars => PlainInv' BY NextKeepsPlain
<1>3. ServerInv /\ PlainInv => AllAnswered BY PlainIsAnswered DEF AllAnswered, Done
<1>4. Init => AnswersInv BY InitAnswers
<1>5. ServerInv /\ AnswersInv /\ [Next]_vars => AnswersInv' BY NextKeepsAnswers
<1> QED BY <1>1, <1>2, <1>3, <1>4, <1>5, ServerInvariant, PTL DEF Spec
-----------------------------------------------------------------------------
(* FlattenSeq joins what it is given, one after the other: that there is a *)
(* function of its recursion, by induction up to the length.               *)
LessNat == {pair \in Nat \X Nat : pair[1] < pair[2]}

LEMMA Least ==
  ASSUME NEW S \in SUBSET Nat, S # {}
  PROVE  \E n \in S : \A k \in S : n <= k
<1>1. \A x, y \in Nat : <<y, x>> \in LessNat <=> y < x BY DEF LessNat
<1>2. IsWellFoundedOn(LessNat, Nat)
  BY NatLessThanWellFounded, Zenon DEF LessNat, OpToRel
<1>3. PICK n \in S : \A k \in S : ~(<<k, n>> \in LessNat) BY <1>2, WFMin
<1>4. \A k \in S : ~(k < n) BY <1>1, <1>3
<1> QED BY <1>4

LEMMA Upwards ==
  ASSUME NEW n \in Nat, NEW S, 0 \in S, \A k \in 1..n : k - 1 \in S => k \in S
  PROVE  n \in S
<1> SUFFICES ASSUME n \notin S PROVE FALSE OBVIOUS
<1> DEFINE out == {k \in 0..n : k \notin S}
<1>1. PICK k \in out : \A j \in out : k <= j
  <2>1. out \in SUBSET Nat /\ n \in out OBVIOUS
  <2> HIDE DEF out
  <2> QED BY <2>1, Least
<1>2. k \in 1..n /\ k - 1 \in 0..n BY <1>1
<1>3. k - 1 \in S BY <1>1, <1>2
<1> QED BY <1>1, <1>2, <1>3

\* f[i] is the first i members of s, joined.
Joins(f, s, X) ==
  /\ f \in [0..Len(s) -> Seq(X)]
  /\ f[0] = <<>>
  /\ \A i \in 1..Len(s) : f[i] = f[i - 1] \o s[i]

LEMMA JoinsExist ==
  ASSUME NEW X, NEW s \in Seq(Seq(X)) PROVE \E f : Joins(f, s, X)
<1> DEFINE J(f, m) == /\ f[0] = <<>>
                      /\ \A i \in 1..m : f[i] = f[i - 1] \o s[i]
           S == {m \in 0..Len(s) : \E f \in [0..m -> Seq(X)] : J(f, m)}
<1>1. 0 \in S
  <2> DEFINE f == [k \in 0..0 |-> <<>>]
  <2>1. f \in [0..0 -> Seq(X)] /\ J(f, 0) /\ 0 \in 0..Len(s) BY EmptySeq
  <2> HIDE DEF f
  <2> QED BY <2>1
<1>2. ASSUME NEW m \in 1..Len(s), m - 1 \in S PROVE m \in S
  <2>1. PICK f \in [0..m - 1 -> Seq(X)] : J(f, m - 1) BY <1>2
  <2>2. PICK a, b : a = f[m - 1] /\ b = s[m] OBVIOUS
  <2>3. a \in Seq(X) /\ b \in Seq(X) BY <2>1, <2>2, ElementOfSeq
  <2>4. PICK x : x = a \o b OBVIOUS
  <2>5. x \in Seq(X) BY <2>3, <2>4, ConcatProperties
  <2> DEFINE g == [k \in 0..m |-> IF k = m THEN x ELSE f[k]]
  <2>6. \A k \in 0..m : k # m => k \in 0..m - 1 OBVIOUS
  <2>7. g \in [0..m -> Seq(X)] BY <2>1, <2>5, <2>6
  <2>8. g[0] = <<>> BY <2>1
  <2>9. ASSUME NEW i \in 1..m PROVE g[i] = g[i - 1] \o s[i]
    <3>1. i - 1 \in 0..m - 1 /\ g[i - 1] = f[i - 1] OBVIOUS
    <3>2. CASE i = m
      <4>1. g[i] = x BY <3>2
      <4> QED BY <2>2, <2>4, <3>1, <3>2, <4>1
    <3>3. CASE i # m
      <4>1. i \in 1..m - 1 /\ g[i] = f[i] BY <3>3
      <4>2. f[i] = f[i - 1] \o s[i] BY <2>1, <4>1
      <4> QED BY <3>1, <4>1, <4>2
    <3> QED BY <3>2, <3>3
  <2> HIDE DEF g
  <2>10. m \in 0..Len(s) OBVIOUS
  <2> QED BY <2>7, <2>8, <2>9, <2>10
<1>3. Len(s) \in Nat BY LenProperties
<1>4. Len(s) \in S
  <2> HIDE DEF S
  <2> QED BY <1>1, <1>2, <1>3, Upwards
<1> QED BY <1>4 DEF Joins

LEMMA FlattenIs ==
  ASSUME NEW X, NEW s \in Seq(Seq(X)), NEW f, Joins(f, s, X)
  PROVE  FlattenSeq(s) = f[Len(s)]
<1>1. CASE Len(s) = 0
  <2>1. s = <<>> BY <1>1, EmptySeq
  <2>2. FlattenSeq(s) = s BY <1>1 DEF FlattenSeq
  <2> QED BY <1>1, <2>1, <2>2 DEF Joins
<1>2. CASE Len(s) # 0
  <2> DEFINE Step(h, i) == IF i = 1 THEN s[i] ELSE h[i - 1] \o s[i]
             flat == CHOOSE h : h = [i \in 1..Len(s) |-> Step(h, i)]
  <2>1. FlattenSeq(s) = flat[Len(s)] BY <1>2 DEF FlattenSeq
  <2> DEFINE g == [i \in 1..Len(s) |-> f[i]]
  <2>2. g = [i \in 1..Len(s) |-> Step(g, i)]
    <3>1. ASSUME NEW i \in 1..Len(s) PROVE g[i] = Step(g, i)
      <4>1. f[i] = f[i - 1] \o s[i] BY DEF Joins
      <4>2. CASE i = 1
        <5>1. PICK x : x = s[i] OBVIOUS
        <5>2. x \in Seq(X) BY <5>1, ElementOfSeq
        <5>3. <<>> \o x = x BY <5>2, ConcatEmptySeq
        <5>4. i - 1 = 0 /\ f[0] = <<>> BY <4>2 DEF Joins
        <5>5. f[i - 1] = <<>> BY <5>4
        <5>6. f[i] = <<>> \o x BY <4>1, <5>1, <5>5
        <5> QED BY <4>2, <5>1, <5>3, <5>6
      <4>3. CASE i # 1
        <5>1. i - 1 \in 1..Len(s) BY <4>3
        <5> QED BY <4>1, <4>3, <5>1
      <4> QED BY <4>2, <4>3
    <3> HIDE DEF Step
    <3> QED BY <3>1
  <2>3. flat = [i \in 1..Len(s) |-> Step(flat, i)]
    <3> HIDE DEF g, Step
    <3> QED BY <2>2
  <2> DEFINE S == {k \in 0..Len(s) : k = 0 \/ flat[k] = f[k]}
  <2>4. 0 \in S BY LenProperties
  <2>5. ASSUME NEW k \in 1..Len(s), k - 1 \in S PROVE k \in S
    <3>1. flat[k] = Step(flat, k)
      <4> HIDE DEF flat, Step
      <4> QED BY <2>3
    <3>2. g[k] = Step(g, k)
      <4> HIDE DEF g, Step
      <4> QED BY <2>2
    <3>3. k # 1 => flat[k - 1] = g[k - 1]
      <4>1. k # 1 => k - 1 # 0 /\ k - 1 \in 1..Len(s) OBVIOUS
      <4> HIDE DEF flat
      <4> QED BY <2>5, <4>1
    <3>4. flat[k] = g[k]
      <4> HIDE DEF flat, g
      <4> QED BY <3>1, <3>2, <3>3
    <3>5. g[k] = f[k] OBVIOUS
    <3> HIDE DEF flat, g
    <3> QED BY <3>4, <3>5
  <2>6. Len(s) \in S
    <3> HIDE DEF S
    <3> QED BY <2>4, <2>5, LenProperties, Upwards
  <2> HIDE DEF flat
  <2> QED BY <1>2, <2>1, <2>6
<1> QED BY <1>1, <1>2

LEMMA FlattenType ==
  ASSUME NEW X, NEW s \in Seq(Seq(X)) PROVE FlattenSeq(s) \in Seq(X)
<1>1. PICK f : Joins(f, s, X) BY JoinsExist
<1>2. Len(s) \in 0..Len(s) BY LenProperties
<1>3. f[Len(s)] \in Seq(X) BY <1>1, <1>2 DEF Joins
<1>4. FlattenSeq(s) = f[Len(s)] BY <1>1, FlattenIs
<1> QED BY <1>3, <1>4

LEMMA FlattenAppend ==
  ASSUME NEW X, NEW s \in Seq(Seq(X)), NEW x \in Seq(X)
  PROVE  FlattenSeq(Append(s, x)) = FlattenSeq(s) \o x
<1>1. PICK t : t = Append(s, x) OBVIOUS
<1>2. /\ t \in Seq(Seq(X)) /\ Len(t) = Len(s) + 1
      /\ t[Len(s) + 1] = x /\ \A i \in 1..Len(s) : t[i] = s[i]
  BY <1>1, AppendProperties
<1>3. PICK f : Joins(f, s, X) BY JoinsExist
<1>4. PICK g : Joins(g, t, X) BY <1>2, JoinsExist
<1>5. Len(s) \in 0..Len(s) /\ Len(s) <= Len(t) BY <1>2, LenProperties
<1>6. f[Len(s)] = g[Len(s)]
  <2> DEFINE S == {k \in 0..Len(s) : f[k] = g[k]}
  <2>1. 0 \in S BY <1>3, <1>4, <1>5 DEF Joins
  <2>2. ASSUME NEW k \in 1..Len(s), k - 1 \in S PROVE k \in S
    <3>1. PICK a, b : a = f[k - 1] /\ b = s[k] OBVIOUS
    <3>2. f[k] = a \o b BY <1>3, <3>1 DEF Joins
    <3>3. a = g[k - 1] /\ b = t[k] BY <1>2, <2>2, <3>1
    <3>4. k \in 1..Len(t) BY <1>2
    <3>5. g[k] = a \o b BY <1>4, <3>3, <3>4 DEF Joins
    <3>6. k \in 0..Len(s) BY <1>5
    <3> QED BY <3>2, <3>5, <3>6
  <2>3. Len(s) \in S
    <3> HIDE DEF S
    <3> QED BY <1>5, <2>1, <2>2, Upwards
  <2> QED BY <2>3
<1>7. Len(s) + 1 \in 1..Len(t) /\ Len(s) + 1 - 1 = Len(s) BY <1>2, <1>5
<1>8. g[Len(s) + 1] = g[Len(s)] \o x
  <2>1. PICK n, a : n = Len(s) + 1 /\ a = g[Len(s)] OBVIOUS
  <2>2. n \in 1..Len(t) /\ n - 1 = Len(s) /\ t[n] = x BY <1>2, <1>7, <2>1
  <2>3. g[n] = g[n - 1] \o t[n] BY <1>4, <2>2 DEF Joins
  <2> QED BY <2>1, <2>2, <2>3
<1>9. FlattenSeq(s) = f[Len(s)] /\ FlattenSeq(t) = g[Len(t)]
  BY <1>2, <1>3, <1>4, FlattenIs
<1> QED BY <1>1, <1>2, <1>6, <1>8, <1>9

LEMMA FlattenTail ==
  ASSUME NEW X, NEW s \in Seq(Seq(X)), s # <<>>
  PROVE  FlattenSeq(s) = Head(s) \o FlattenSeq(Tail(s))
<1>1. PICK t, a : t = Tail(s) /\ a = Head(s) OBVIOUS
<1>2. /\ t \in Seq(Seq(X)) /\ Len(t) = Len(s) - 1
      /\ \A i \in 1..Len(t) : t[i] = s[i + 1]
      /\ a = s[1] /\ a \in Seq(X) /\ Len(s) \in Nat \ {0}
  <2>1. Len(s) \in Nat \ {0} BY LenProperties, EmptySeq
  <2>2. a \in Seq(X) /\ a = s[1] BY <1>1, <2>1, ElementOfSeq DEF Head
  <2> QED BY <1>1, <2>1, <2>2, HeadTailProperties
<1>3. PICK f : Joins(f, s, X) BY JoinsExist
<1>4. PICK g : Joins(g, t, X) BY <1>2, JoinsExist
<1> DEFINE S == {k \in 0..Len(t) : f[k + 1] = a \o g[k]}
<1>5. 0 \in S
  <2>1. f[1] = <<>> \o a
    <3>1. 1 \in 1..Len(s) /\ 1 - 1 = 0 BY <1>2
    <3>2. f[1] = f[1 - 1] \o s[1] BY <1>3, <3>1 DEF Joins
    <3>3. f[0] = <<>> BY <1>3 DEF Joins
    <3> QED BY <1>2, <3>1, <3>2, <3>3
  <2>2. g[0] = <<>> BY <1>4 DEF Joins
  <2>3. <<>> \o a = a /\ a \o <<>> = a BY <1>2, ConcatEmptySeq
  <2>4. f[1] = a BY <2>1, <2>3
  <2>5. a \o g[0] = a BY <2>2, <2>3
  <2>6. 0 \in 0..Len(t) /\ 0 + 1 = 1 BY <1>2
  <2> QED BY <2>4, <2>5, <2>6
<1>6. ASSUME NEW k \in 1..Len(t), k - 1 \in S PROVE k \in S
  <2>1. f[k] = a \o g[k - 1] BY <1>6
  <2>2. PICK u, v : u = g[k - 1] /\ v = t[k] OBVIOUS
  <2>3. k - 1 \in 0..Len(t) BY <1>2
  <2>4. u \in Seq(X) BY <1>4, <2>2, <2>3 DEF Joins
  <2>5. v \in Seq(X) BY <1>2, <2>2, ElementOfSeq
  <2>6. k + 1 \in 1..Len(s) /\ k + 1 - 1 = k /\ s[k + 1] = v BY <1>2, <2>2
  <2>7. f[k + 1] = f[k] \o v
    <3>1. PICK j : j = k + 1 OBVIOUS
    <3>2. j \in 1..Len(s) /\ j - 1 = k /\ s[j] = v BY <2>6, <3>1
    <3>3. f[j] = f[j - 1] \o s[j] BY <1>3, <3>2 DEF Joins
    <3> QED BY <3>1, <3>2, <3>3
  <2>8. g[k] = u \o v BY <1>4, <2>2 DEF Joins
  <2>9. (a \o u) \o v = a \o (u \o v)
    <3>1. a \in Seq(X) BY <1>2
    <3> HIDE DEF S
    <3> QED BY <2>4, <2>5, <3>1
  <2>10. k \in 0..Len(t) BY <1>2
  <2> QED BY <2>1, <2>2, <2>7, <2>8, <2>9, <2>10
<1>7. Len(t) \in S
  <2> HIDE DEF S
  <2> QED BY <1>2, <1>5, <1>6, Upwards
<1>8. FlattenSeq(s) = f[Len(s)] /\ FlattenSeq(t) = g[Len(t)]
  BY <1>2, <1>3, <1>4, FlattenIs
<1>9. Len(t) + 1 = Len(s) BY <1>2
<1> QED BY <1>1, <1>7, <1>8, <1>9

-----------------------------------------------------------------------------
(* The data of pbufs and segments *)

Carriers == Segments \cup Pbufs \cup {NULL}

LEMMA DataType ==
  ASSUME NEW p \in Carriers PROVE Data(p) \in Seq(Unit)
<1>1. CASE p = NULL BY <1>1, EmptySeq DEF Data
<1>2. CASE p \in Segments \cup Pbufs
  <2>1. p # NULL /\ p.data \in Seq(Unit) BY <1>2 DEF Segments, Pbufs
  <2> QED BY <2>1 DEF Data
<1> QED BY <1>1, <1>2 DEF Carriers

LEMMA JoinedEmpty == Joined(<<>>) = <<>>
<1>1. PICK e : e = [i \in DOMAIN <<>> |-> Data(<<>>[i])] OBVIOUS
<1>2. e = <<>> BY <1>1
<1>3. FlattenSeq(<<>>) = <<>> BY DEF FlattenSeq
<1> QED BY <1>1, <1>2, <1>3 DEF Joined

LEMMA DatasType ==
  ASSUME NEW s \in Seq(Carriers), NEW t, t = [i \in DOMAIN s |-> Data(s[i])]
  PROVE  t \in Seq(Seq(Unit)) /\ Len(t) = Len(s) /\ \A i \in 1..Len(s) : t[i] = Data(s[i])
<1>1. DOMAIN s = 1..Len(s) /\ Len(s) \in Nat BY LenProperties
<1>2. \A i \in 1..Len(s) : s[i] \in Carriers BY ElementOfSeq
<1>3. \A i \in 1..Len(s) : Data(s[i]) \in Seq(Unit) BY <1>2, DataType
<1>4. t = [i \in 1..Len(s) |-> Data(s[i])] BY <1>1
<1>5. t \in Seq(Seq(Unit)) BY <1>1, <1>3, <1>4, IsASeq
<1>6. DOMAIN t = 1..Len(s) BY <1>4
<1>7. Len(t) = Len(s) BY <1>1, <1>5, <1>6, LenProperties
<1> QED BY <1>4, <1>5, <1>7

LEMMA JoinedType ==
  ASSUME NEW s \in Seq(Carriers) PROVE Joined(s) \in Seq(Unit)
<1>1. PICK t : t = [i \in DOMAIN s |-> Data(s[i])] OBVIOUS
<1>2. t \in Seq(Seq(Unit)) BY <1>1, DatasType
<1> QED BY <1>1, <1>2, FlattenType DEF Joined

LEMMA JoinedAppend ==
  ASSUME NEW s \in Seq(Carriers), NEW p \in Carriers
  PROVE  Joined(Append(s, p)) = Joined(s) \o Data(p)
<1>1. PICK s2 : s2 = Append(s, p) OBVIOUS
<1>2. /\ s2 \in Seq(Carriers) /\ Len(s2) = Len(s) + 1
      /\ s2[Len(s) + 1] = p /\ \A i \in 1..Len(s) : s2[i] = s[i]
  BY <1>1, AppendProperties
<1>3. PICK t : t = [i \in DOMAIN s |-> Data(s[i])] OBVIOUS
<1>4. PICK t2 : t2 = [i \in DOMAIN s2 |-> Data(s2[i])] OBVIOUS
<1>5. t \in Seq(Seq(Unit)) /\ Len(t) = Len(s) /\ \A i \in 1..Len(s) : t[i] = Data(s[i])
  BY <1>3, DatasType
<1>6. t2 \in Seq(Seq(Unit)) /\ Len(t2) = Len(s2) /\ \A i \in 1..Len(s2) : t2[i] = Data(s2[i])
  BY <1>2, <1>4, DatasType
<1>7. PICK x : x = Data(p) OBVIOUS
<1>8. x \in Seq(Unit) BY <1>7, DataType
<1>9. t2 = Append(t, x)
  <2>1. PICK t3 : t3 = Append(t, x) OBVIOUS
  <2>2. /\ t3 \in Seq(Seq(Unit)) /\ Len(t3) = Len(t) + 1
        /\ t3[Len(t) + 1] = x /\ \A i \in 1..Len(t) : t3[i] = t[i]
    BY <1>5, <1>8, <2>1, AppendProperties
  <2>3. Len(s) \in Nat BY LenProperties
  <2>4. Len(t2) = Len(t3) BY <1>2, <1>5, <1>6, <2>2
  <2>5. ASSUME NEW i \in 1..Len(t2) PROVE t2[i] = t3[i]
    <3>1. CASE i = Len(s) + 1
      <4>1. t2[i] = Data(s2[i]) BY <1>6
      <4>2. t2[i] = x BY <1>2, <1>7, <3>1, <4>1
      <4> QED BY <1>5, <2>2, <3>1, <4>2
    <3>2. CASE i # Len(s) + 1
      <4>1. i \in 1..Len(s) BY <1>2, <1>6, <2>3, <3>2
      <4>2. t2[i] = Data(s2[i]) /\ s2[i] = s[i] BY <1>2, <1>6, <4>1
      <4>3. t[i] = Data(s[i]) BY <1>5, <4>1
      <4>4. t3[i] = t[i] BY <1>5, <2>2, <4>1
      <4> QED BY <4>2, <4>3, <4>4
    <3> QED BY <3>1, <3>2
  <2>6. t2 = t3 BY <1>6, <2>2, <2>4, <2>5, SeqEqual
  <2> QED BY <2>1, <2>6
<1>10. FlattenSeq(Append(t, x)) = FlattenSeq(t) \o x BY <1>5, <1>8, FlattenAppend
<1> QED BY <1>1, <1>3, <1>4, <1>7, <1>9, <1>10 DEF Joined

LEMMA JoinedTail ==
  ASSUME NEW s \in Seq(Carriers), s # <<>>
  PROVE  Joined(s) = Data(Head(s)) \o Joined(Tail(s))
<1>1. PICK s2, p : s2 = Tail(s) /\ p = Head(s) OBVIOUS
<1>2. /\ s2 \in Seq(Carriers) /\ Len(s2) = Len(s) - 1
      /\ \A i \in 1..Len(s2) : s2[i] = s[i + 1]
      /\ Len(s) \in Nat \ {0} /\ p = s[1]
  <2>1. Len(s) \in Nat \ {0} BY LenProperties, EmptySeq
  <2>2. p = s[1] BY <1>1, <2>1 DEF Head
  <2> QED BY <1>1, <2>1, <2>2, HeadTailProperties
<1>3. PICK t : t = [i \in DOMAIN s |-> Data(s[i])] OBVIOUS
<1>4. PICK t2 : t2 = [i \in DOMAIN s2 |-> Data(s2[i])] OBVIOUS
<1>5. t \in Seq(Seq(Unit)) /\ Len(t) = Len(s) /\ \A i \in 1..Len(s) : t[i] = Data(s[i])
  BY <1>3, DatasType
<1>6. t2 \in Seq(Seq(Unit)) /\ Len(t2) = Len(s2) /\ \A i \in 1..Len(s2) : t2[i] = Data(s2[i])
  BY <1>2, <1>4, DatasType
<1>7. t # <<>> BY <1>2, <1>5, EmptySeq
<1>8. Head(t) = Data(p)
  <2>1. 1 \in 1..Len(s) BY <1>2
  <2>2. t[1] = Data(s[1]) BY <1>5, <2>1
  <2>3. Head(t) = t[1] BY <1>2, <1>5 DEF Head
  <2> QED BY <1>2, <2>2, <2>3
<1>9. t2 = Tail(t)
  <2>1. PICK t3 : t3 = Tail(t) OBVIOUS
  <2>2. /\ t3 \in Seq(Seq(Unit)) /\ Len(t3) = Len(t) - 1
        /\ \A i \in 1..Len(t3) : t3[i] = t[i + 1]
    BY <1>5, <1>7, <2>1, HeadTailProperties
  <2>3. Len(t2) = Len(t3) BY <1>2, <1>5, <1>6, <2>2
  <2>4. ASSUME NEW i \in 1..Len(t2) PROVE t2[i] = t3[i]
    <3>1. i \in 1..Len(s2) /\ i + 1 \in 1..Len(s) /\ i \in 1..Len(t3) BY <1>2, <1>6, <2>3
    <3>2. t2[i] = Data(s2[i]) /\ s2[i] = s[i + 1] BY <1>2, <1>6, <3>1
    <3>3. PICK j : j = i + 1 OBVIOUS
    <3>4. t[j] = Data(s[j]) BY <1>5, <3>1, <3>3
    <3>5. t3[i] = t[j] BY <2>2, <3>1, <3>3
    <3> QED BY <3>2, <3>3, <3>4, <3>5
  <2>5. t2 = t3 BY <1>6, <2>2, <2>3, <2>4, SeqEqual
  <2> QED BY <2>1, <2>5
<1>10. FlattenSeq(t) = Head(t) \o FlattenSeq(Tail(t)) BY <1>5, <1>7, FlattenTail
<1> QED BY <1>1, <1>3, <1>4, <1>8, <1>9, <1>10 DEF Joined

-----------------------------------------------------------------------------
(* What the handlers of tcpip_thread make of a connection's data *)

\* The data of a mailbox and of what it refused.
InSide(side) == Joined(side.mbox) \o Data(side.refused)

LEMMA MailboxCarries ==
  ASSUME NEW m \in Mailboxes
  PROVE  m \in Seq(Carriers) /\ Joined(m) \in Seq(Unit) /\ Joined(m) \o <<>> = Joined(m)
<1>1. Pbufs \cup {NULL} \subseteq Carriers BY DEF Carriers
<1>2. m \in Seq(Carriers) BY <1>1, SeqMonotonic DEF Mailboxes
<1>3. Joined(m) \in Seq(Unit) BY <1>2, JoinedType
<1>4. Joined(m) \o <<>> = Joined(m) BY <1>3, ConcatEmptySeq
<1> QED BY <1>2, <1>3, <1>4

LEMMA EndCarriesNothing ==
  ASSUME NEW m \in Mailboxes PROVE Joined(Trypost(m, NULL)) = Joined(m)
<1>1. Trypost(m, NULL) = m \/ Trypost(m, NULL) = Append(m, NULL) BY DEF Trypost
<1>2. NULL \in Carriers /\ Data(NULL) = <<>> BY DEF Carriers, Data
<1>3. Joined(Append(m, NULL)) = Joined(m) \o <<>> BY <1>2, MailboxCarries, JoinedAppend
<1> QED BY <1>1, <1>3, MailboxCarries

LEMMA HandJoins ==
  ASSUME NEW m \in Mailboxes, NEW s \in Segments, s.data # <<>>
  PROVE  InSide(Hand(m, s)) = Joined(m) \o s.data
<1> DEFINE m2 == Append(m, Pbuf(s))
<1>1. s # NULL /\ Data(s) = s.data BY DEF Data
<1>2. Pbuf(s) \in Pbufs /\ Pbuf(s) \in Carriers BY PbufType DEF Carriers
<1>3. Data(Pbuf(s)) = s.data BY PbufType DEF Data, Pbuf
<1>4. m2 \in Mailboxes BY <1>2, AppendProperties DEF Mailboxes
<1>5. Joined(m2) = Joined(m) \o s.data BY <1>2, <1>3, MailboxCarries, JoinedAppend
<1>6. Data(NULL) = <<>> BY DEF Data
<1>7. Joined(m2) \o <<>> = Joined(m2) BY <1>4, MailboxCarries
<1>8. Joined(Trypost(m2, NULL)) = Joined(m2) BY <1>4, EndCarriesNothing
<1> HIDE DEF m2
<1>9. CASE ~(Len(m) < MailboxSize)
  <2>1. Hand(m, s) = Side(m, s) BY <1>9 DEF Hand
  <2>2. PICK x, d : x = Joined(m) /\ d = Data(s) OBVIOUS
  <2>3. InSide(Side(m, s)) = x \o d BY <2>2 DEF Side, InSide
  <2> QED BY <1>1, <2>1, <2>2, <2>3
<1>10. CASE Len(m) < MailboxSize
  <2>1. Hand(m, s).mbox \in {m2, Trypost(m2, NULL)} /\ Hand(m, s).refused = NULL
    BY <1>10 DEF Hand, Side, m2
  <2>2. Joined(Hand(m, s).mbox) = Joined(m2) BY <1>8, <2>1
  <2> QED BY <1>5, <1>6, <1>7, <2>1, <2>2 DEF InSide
<1> QED BY <1>9, <1>10

LEMMA RetryJoins ==
  ASSUME NEW m \in Mailboxes, NEW r \in Segments \cup {NULL}, r # NULL => r.data # <<>>
  PROVE  InSide(tcp_process_refused_data(Side(m, r))) = Joined(m) \o Data(r)
<1>1. CASE r = NULL BY <1>1 DEF tcp_process_refused_data, Side, InSide
<1>2. CASE r # NULL
  <2>1. tcp_process_refused_data(Side(m, r)) = Hand(m, r)
    BY <1>2 DEF tcp_process_refused_data, Side
  <2>2. Data(r) = r.data BY <1>2 DEF Data
  <2> QED BY <1>2, <2>1, <2>2, HandJoins
<1> QED BY <1>1, <1>2

LEMMA InputJoins ==
  ASSUME NEW m \in Mailboxes, NEW r \in Segments \cup {NULL}, r # NULL => r.data # <<>>,
         tcp_process_refused_data(Side(m, r)).refused = NULL,
         tcp_process_refused_data(Side(m, r)).mbox \in Mailboxes,
         NEW s \in Segments
  PROVE  InSide(tcp_input(Side(m, r), s)) = (Joined(m) \o Data(r)) \o Data(s)
<1>1. PICK m2 : m2 = tcp_process_refused_data(Side(m, r)).mbox OBVIOUS
<1>2. m2 \in Mailboxes BY <1>1
<1>3. Joined(m2) = Joined(m) \o Data(r)
  <2>1. Data(NULL) = <<>> BY DEF Data
  <2>2. Joined(m2) \o <<>> = Joined(m2) BY <1>2, MailboxCarries
  <2> QED BY <1>1, <2>1, <2>2, RetryJoins DEF InSide
<1>4. Data(s) = s.data BY DEF Data
<1>5. CASE s.data = <<>>
  <2>1. tcp_input(Side(m, r), s) = Side(Trypost(m2, NULL), NULL) BY <1>1, <1>5 DEF tcp_input
  <2>2. Joined(Trypost(m2, NULL)) = Joined(m2) BY <1>2, EndCarriesNothing
  <2>3. Data(NULL) = <<>> BY DEF Data
  <2>4. PICK x, y : x = Trypost(m2, NULL) /\ y = Joined(m2) OBVIOUS
  <2>5. InSide(Side(x, NULL)) = Joined(x) \o Data(NULL) BY DEF Side, InSide
  <2>6. InSide(Side(x, NULL)) = y \o <<>> BY <2>2, <2>3, <2>4, <2>5
  <2> QED BY <1>3, <1>4, <1>5, <2>1, <2>4, <2>6
<1>6. CASE s.data # <<>>
  <2>1. tcp_input(Side(m, r), s) = Hand(m2, s) BY <1>1, <1>6 DEF tcp_input
  <2> QED BY <1>2, <1>3, <1>4, <1>6, <2>1, HandJoins
<1> QED BY <1>5, <1>6

-----------------------------------------------------------------------------
(* What is coming on a connection: every step of tcpip_thread leaves it as *)
(* it is or cuts off its end.                                              *)
IsCut(t, s) == \E n \in 0..Len(s) : t = SubSeq(s, 1, n)

LEMMA CutOfSelf ==
  ASSUME NEW S, NEW s \in Seq(S) PROVE IsCut(s, s) /\ IsCut(<<>>, s)
<1>1. Len(s) \in 0..Len(s) /\ 0 \in 0..Len(s) BY LenProperties
<1>2. s = SubSeq(s, 1, Len(s)) BY SubSeqFull
<1>3. <<>> = SubSeq(s, 1, 0) BY LenProperties, SubSeqEmpty
<1> QED BY <1>1, <1>2, <1>3 DEF IsCut

LEMMA CutOfConcat ==
  ASSUME NEW S, NEW s \in Seq(S), NEW t \in Seq(S), NEW u \in Seq(S), IsCut(t, u)
  PROVE  IsCut(s \o t, s \o u)
<1>1. PICK n \in 0..Len(u) : t = SubSeq(u, 1, n) BY DEF IsCut
<1>2. PICK x, y, k : x = s \o t /\ y = s \o u /\ k = Len(s) + n OBVIOUS
<1>3. /\ Len(s) \in Nat /\ Len(u) \in Nat /\ Len(t) = n
      /\ \A i \in 1..n : t[i] = u[i]
  BY <1>1
<1>4. /\ x \in Seq(S) /\ Len(x) = k
      /\ \A i \in 1..k : x[i] = IF i <= Len(s) THEN s[i] ELSE t[i - Len(s)]
  <2>1. /\ x \in Seq(S) /\ Len(x) = Len(s) + Len(t)
        /\ \A i \in 1..Len(s) + Len(t) : x[i] = IF i <= Len(s) THEN s[i] ELSE t[i - Len(s)]
    BY <1>2, ConcatProperties
  <2> QED BY <1>2, <1>3, <2>1
<1>5. /\ y \in Seq(S) /\ Len(y) = Len(s) + Len(u)
      /\ \A i \in 1..Len(y) : y[i] = IF i <= Len(s) THEN s[i] ELSE u[i - Len(s)]
  BY <1>2, <1>3
<1>6. k \in 0..Len(y) BY <1>1, <1>2, <1>3, <1>5
<1>7. PICK z : z = SubSeq(y, 1, k) OBVIOUS
<1>8. z \in Seq(S) /\ Len(z) = k /\ \A i \in 1..k : z[i] = y[i] BY <1>5, <1>6, <1>7
<1>9. ASSUME NEW i \in 1..k PROVE x[i] = z[i]
  <2>1. i \in 1..Len(y) BY <1>5, <1>6
  <2>2. CASE i <= Len(s)
    <3>1. x[i] = s[i] /\ y[i] = s[i] BY <1>4, <1>5, <2>1, <2>2
    <3> QED BY <1>8, <3>1
  <2>3. CASE ~(i <= Len(s))
    <3>1. PICK j : j = i - Len(s) OBVIOUS
    <3>2. j \in 1..n BY <1>2, <1>3, <2>3, <3>1
    <3>3. x[i] = t[j] /\ y[i] = u[j] BY <1>4, <1>5, <2>1, <2>3, <3>1
    <3> QED BY <1>3, <1>8, <3>2, <3>3
  <2> QED BY <2>2, <2>3
<1>10. x = z BY <1>4, <1>8, <1>9, SeqEqual
<1> QED BY <1>2, <1>6, <1>7, <1>10 DEF IsCut

LEMMA CutOfFirst ==
  ASSUME NEW S, NEW s \in Seq(S), NEW t \in Seq(S) PROVE IsCut(s, s \o t)
<1>1. IsCut(<<>>, t) BY CutOfSelf
<1>2. IsCut(s \o <<>>, s \o t) BY <1>1, EmptySeq, CutOfConcat
<1>3. s \o <<>> = s BY ConcatEmptySeq
<1> QED BY <1>2, <1>3

StreamTypes ==
  ServerInv => \A c \in Conn :
    /\ InMailbox(c) \in Seq(Unit) /\ Data(refused_data[c]) \in Seq(Unit)
    /\ Joined(to_send[c]) \in Seq(Unit)
    /\ Coming(c) \in Seq(Unit) /\ Ahead(c) \in Seq(Unit)
    /\ Stream[c] \in Seq(Unit) /\ Stream[c] = Ahead(c) \o Coming(c)

LEMMA StreamsTyped == StreamTypes
<1> SUFFICES ASSUME ServerInv, NEW c \in Conn
             PROVE  /\ InMailbox(c) \in Seq(Unit) /\ Data(refused_data[c]) \in Seq(Unit)
                    /\ Joined(to_send[c]) \in Seq(Unit)
                    /\ Coming(c) \in Seq(Unit) /\ Ahead(c) \in Seq(Unit)
                    /\ Stream[c] \in Seq(Unit) /\ Stream[c] = Ahead(c) \o Coming(c)
  BY DEF StreamTypes
<1>1. TypeOK BY DEF ServerInv
<1>2. InMailbox(c) \in Seq(Unit)
  <2>1. recvmbox[c] \in Mailboxes \cup {NULL} BY <1>1 DEF TypeOK
  <2>2. CASE recvmbox[c] \in Mailboxes BY <2>2, MailboxCarries, EmptySeq DEF InMailbox
  <2>3. CASE recvmbox[c] = NULL BY <2>3, EmptySeq DEF InMailbox, Valid
  <2> QED BY <2>1, <2>2, <2>3
<1>3. Data(refused_data[c]) \in Seq(Unit)
  <2>1. refused_data[c] \in Carriers BY <1>1 DEF TypeOK, Carriers
  <2> QED BY <2>1, DataType
<1>4. Joined(to_send[c]) \in Seq(Unit)
  <2>1. to_send[c] \in Seq(Segments) BY <1>1 DEF TypeOK
  <2>2. to_send[c] \in Seq(Carriers) BY <2>1, SeqMonotonic DEF Carriers
  <2> QED BY <2>2, JoinedType
<1>5. Coming(c) \in Seq(Unit) BY <1>2, <1>3, <1>4, ConcatProperties DEF Coming
<1>6. Ahead(c) \in Seq(Unit)
  <2>1. rx_buffer \in Seq(Unit) /\ lastdata \in Carriers BY <1>1 DEF TypeOK, Carriers
  <2>2. Data(lastdata) \in Seq(Unit) BY <2>1, DataType
  <2> QED BY <2>1, <2>2, EmptySeq, ConcatProperties DEF Ahead
<1>7. Stream[c] = Ahead(c) \o Coming(c) BY DEF Stream
<1> QED BY <1>2, <1>3, <1>4, <1>5, <1>6, <1>7, ConcatProperties

LEMMA StreamsTypedNext == StreamTypes'
BY StreamsTyped, PTL

LEMMA ComingStays ==
  ASSUME NEW c, recvmbox'[c] = recvmbox[c], refused_data'[c] = refused_data[c],
         to_send'[c] = to_send[c]
  PROVE  Coming(c)' = Coming(c)
<1>1. InMailbox(c)' = InMailbox(c) BY DEF InMailbox
<1>2. Data(refused_data[c])' = Data(refused_data[c]) BY DEF Data
<1>3. Joined(to_send[c])' = Joined(to_send[c]) BY DEF Joined, Data
<1> QED BY <1>1, <1>2, <1>3 DEF Coming

\* What is coming when the mailbox is there.
ComingKnown ==
  \A c \in Conn : recvmbox[c] \in Mailboxes =>
    Coming(c) = (Joined(recvmbox[c]) \o Data(refused_data[c])) \o Joined(to_send[c])

LEMMA ComingIs == ComingKnown
BY MailboxIsNotNULL DEF ComingKnown, Coming, InMailbox, Valid

LEMMA ComingIsNext == ComingKnown'
BY ComingIs, PTL

LEMMA DeliverStream ==
  ASSUME ServerInv, NEW c \in Conn, Deliver(c)
  PROVE  \A d \in Conn : Coming(d)' = Coming(d)
<1>1. PICK m, r, w : m = recvmbox[c] /\ r = refused_data[c] /\ w = to_send[c] OBVIOUS
<1>2. PICK side : side = tcp_input(Side(m, r), w[1]) OBVIOUS
<1>3. /\ pcb[c] = "open" /\ m \in Mailboxes /\ r \in Segments \cup {NULL}
      /\ w # <<>> /\ w \in Seq(Segments)
      /\ tcp_process_refused_data(Side(m, r)).refused = NULL
  BY <1>1 DEF Deliver, Accepts, Sends, ServerInv, TypeOK, Valid
<1>4. InOrder(m, r, w)
  BY <1>1, <1>3 DEF ServerInv, ConnInv, Deliver
<1>5. side.mbox \in Mailboxes /\ side.refused \in Segments \cup {NULL}
  BY <1>2, <1>3, <1>4, InputInOrder
<1>6. /\ recvmbox' = [recvmbox EXCEPT ![c] = side.mbox]
      /\ refused_data' = [refused_data EXCEPT ![c] = side.refused]
      /\ to_send' = [to_send EXCEPT ![c] = Tail(@)]
  BY <1>1, <1>2 DEF Deliver, Becomes
<1>7. ASSUME NEW d \in Conn, d # c PROVE Coming(d)' = Coming(d)
  <2>1. /\ recvmbox'[d] = recvmbox[d] /\ refused_data'[d] = refused_data[d]
        /\ to_send'[d] = to_send[d]
    BY <1>6, <1>7 DEF ServerInv, TypeOK
  <2> QED BY <2>1, ComingStays
<1>8. Coming(c)' = Coming(c)
  <2>1. PICK rest, s : rest = Tail(w) /\ s = w[1] OBVIOUS
  <2>2. rest \in Seq(Segments) /\ s \in Segments
    BY <1>3, <1>4, <2>1, TailIsOrderly DEF InOrder
  <2>3. recvmbox'[c] = side.mbox /\ refused_data'[c] = side.refused /\ to_send'[c] = rest
    BY <1>1, <1>6, <2>1 DEF ServerInv, TypeOK
  <2>4. Coming(c)' = InSide(side) \o Joined(rest)
    BY <1>5, <2>3, ComingIsNext DEF ComingKnown, InSide
  <2>5. Coming(c) = (Joined(m) \o Data(r)) \o Joined(w)
    BY <1>1, <1>3, ComingIs DEF ComingKnown
  <2>6. w \in Seq(Carriers) /\ rest \in Seq(Carriers)
    BY <1>3, <2>2, SeqMonotonic DEF Carriers
  <2>7. Head(w) = s BY <1>3, <2>1 DEF Head
  <2>8. PICK x, y, z : x = Joined(m) \o Data(r) /\ y = Data(s) /\ z = Joined(rest) OBVIOUS
  <2>9. Joined(w) = y \o z BY <1>3, <2>1, <2>6, <2>7, <2>8, JoinedTail
  <2>10. InSide(side) = x \o y
    <3>1. r # NULL => r.data # <<>> BY <1>4 DEF InOrder
    <3>2. tcp_process_refused_data(Side(m, r)).mbox \in Mailboxes
      <4>1. CASE r = NULL BY <1>3, <4>1 DEF tcp_process_refused_data, Side
      <4>2. CASE r # NULL
        <5>1. r \in Segments BY <1>3, <4>2
        <5> QED BY <1>3, <1>4, <5>1, RetryInOrder
      <4> QED BY <4>1, <4>2
    <3>3. InSide(tcp_input(Side(m, r), s)) = (Joined(m) \o Data(r)) \o Data(s)
      BY <1>3, <2>2, <3>1, <3>2, InputJoins
    <3> QED BY <1>2, <2>1, <2>8, <3>3
  <2>11. x \in Seq(Unit) /\ y \in Seq(Unit) /\ z \in Seq(Unit)
    <3>1. Joined(m) \in Seq(Unit) BY <1>3, MailboxCarries
    <3>2. r \in Carriers /\ s \in Carriers BY <1>3, <2>2 DEF Carriers
    <3>3. Data(r) \in Seq(Unit) /\ Data(s) \in Seq(Unit) BY <3>2, DataType
    <3>4. Joined(rest) \in Seq(Unit) BY <2>6, JoinedType
    <3> QED BY <2>8, <3>1, <3>3, <3>4, ConcatProperties
  <2>12. (x \o y) \o z = x \o (y \o z) BY <2>11
  <2> QED BY <2>4, <2>5, <2>8, <2>9, <2>10, <2>12
<1> QED BY <1>7, <1>8

\* The first two segments are joined, as they will be handed over.
LEMMA ChainJoins ==
  ASSUME NEW w \in Seq(Segments), Len(w) > 1, Orderly(w), NEW s, s = Chain(w[1], w[2])
  PROVE  Joined(<<s>> \o Tail(Tail(w))) = Joined(w)
<1>1. PICK f, g, u, t, new : /\ f = w[1] /\ g = w[2] /\ u = Tail(w) /\ t = Tail(u)
                             /\ new = <<s>> \o t
  OBVIOUS
<1>2. w # <<>> /\ Head(w) = f /\ u \in Seq(Segments) /\ u # <<>> /\ Head(u) = g
      /\ t \in Seq(Segments)
  <2>1. w # <<>> /\ Head(w) = w[1] BY DEF Head
  <2>2. u \in Seq(Segments) /\ Len(u) = Len(w) - 1 /\ \A i \in 1..Len(u) : u[i] = w[i + 1]
    BY <1>1, <2>1, HeadTailProperties
  <2>3. Len(u) \in Nat \ {0} /\ 1 \in 1..Len(u) BY <2>2
  <2>4. u # <<>> /\ Head(u) = u[1] /\ u[1] = w[2] BY <2>2, <2>3 DEF Head
  <2>5. t \in Seq(Segments) BY <1>1, <2>2, <2>4, HeadTailProperties
  <2> QED BY <1>1, <2>1, <2>2, <2>4, <2>5
<1>3. s \in Segments /\ new \in Seq(Segments) BY <1>1, ChainIsOrderly
<1>4. f \in Segments /\ g \in Segments BY <1>1, ElementOfSeq
<1>5. new # <<>> /\ Head(new) = s /\ Tail(new) = t
  <2>1. Len(new) = 1 + Len(t) /\ new[1] = s /\ Len(t) \in Nat
        /\ \A i \in 1..Len(t) : new[1 + i] = t[i]
    <3>1. PICK h : h = <<s>> OBVIOUS
    <3>2. h \in Seq(Segments) /\ Len(h) = 1 /\ h[1] = s BY <1>3, <3>1
    <3>3. /\ Len(h \o t) = Len(h) + Len(t)
          /\ \A i \in 1 .. Len(h) + Len(t) :
               (h \o t)[i] = IF i <= Len(h) THEN h[i] ELSE t[i - Len(h)]
      <4>1. PICK a, b : a = h /\ b = t OBVIOUS
      <4>2. a \in Seq(Segments) /\ b \in Seq(Segments) BY <1>2, <3>2, <4>1
      <4>3. /\ Len(a \o b) = Len(a) + Len(b)
            /\ \A i \in 1 .. Len(a) + Len(b) :
                 (a \o b)[i] = IF i <= Len(a) THEN a[i] ELSE b[i - Len(a)]
        BY <4>2, ConcatProperties
      <4> QED BY <4>1, <4>3
    <3>4. new = h \o t /\ Len(t) \in Nat BY <1>1, <1>2, <3>1
    <3>5. \A i \in 1..Len(t) : 1 + i \in 1 .. 1 + Len(t) /\ ~(1 + i <= 1) /\ 1 + i - 1 = i
      BY <3>4
    <3>6. new[1] = s BY <3>2, <3>3, <3>4
    <3>7. \A i \in 1..Len(t) : new[1 + i] = t[i] BY <3>2, <3>3, <3>4, <3>5
    <3> QED BY <3>2, <3>3, <3>4, <3>6, <3>7
  <2>2. PICK v : v = Tail(new) OBVIOUS
  <2>3. v \in Seq(Segments) /\ Len(v) = Len(t) /\ \A i \in 1..Len(v) : v[i] = new[i + 1]
    BY <1>3, <2>1, <2>2
  <2>4. \A i \in 1..Len(v) : v[i] = t[i] BY <2>1, <2>3
  <2>5. v = t BY <1>2, <2>3, <2>4, SeqEqual
  <2> QED BY <1>3, <2>1, <2>2, <2>5
<1>6. w \in Seq(Carriers) /\ u \in Seq(Carriers) /\ t \in Seq(Carriers) /\ new \in Seq(Carriers)
  BY <1>2, <1>3, SeqMonotonic DEF Carriers
<1>7. PICK x, y, z : x = Data(f) /\ y = Data(g) /\ z = Joined(t) OBVIOUS
<1>8. x \in Seq(Unit) /\ y \in Seq(Unit) /\ z \in Seq(Unit)
  BY <1>4, <1>6, <1>7, DataType, JoinedType DEF Carriers
<1>9. Data(s) = x \o y
  <2>1. s # NULL /\ f # NULL /\ g # NULL BY <1>3, <1>4
  <2>2. s.data = f.data \o g.data BY <1>1 DEF Chain
  <2>3. x = f.data /\ y = g.data BY <1>7, <2>1 DEF Data
  <2>4. Data(s) = s.data BY <2>1 DEF Data
  <2> QED BY <2>2, <2>3, <2>4
<1>10. Joined(new) = (x \o y) \o z BY <1>5, <1>6, <1>7, <1>9, JoinedTail
<1>11. Joined(u) = y \o z BY <1>1, <1>2, <1>6, <1>7, JoinedTail
<1>12. Joined(w) = x \o (y \o z)
  <2>1. Joined(w) = Data(Head(w)) \o Joined(Tail(w)) BY <1>2, <1>6, JoinedTail
  <2> QED BY <1>1, <1>2, <1>7, <1>11, <2>1
<1>13. (x \o y) \o z = x \o (y \o z) BY <1>8
<1> QED BY <1>1, <1>10, <1>12, <1>13

LEMMA QueueOoseqStream ==
  ASSUME ServerInv, NEW c \in Conn, QueueOoseq(c)
  PROVE  \A d \in Conn : Coming(d)' = Coming(d)
<1>1. PICK m, r, w : m = recvmbox[c] /\ r = refused_data[c] /\ w = to_send[c] OBVIOUS
<1>2. PICK side : side = tcp_process_refused_data(Side(m, r)) OBVIOUS
<1>3. PICK new : new = <<Chain(w[1], w[2])>> \o Tail(Tail(w)) OBVIOUS
<1>4. /\ pcb[c] = "open" /\ m \in Mailboxes /\ r \in Segments \cup {NULL}
      /\ w \in Seq(Segments) /\ Len(w) > 1
  BY <1>1 DEF QueueOoseq, ServerInv, TypeOK, Valid
<1>5. InOrder(m, r, w) BY <1>1, <1>4 DEF ServerInv, ConnInv, QueueOoseq
<1>6. r # NULL => r.data # <<>> BY <1>5 DEF InOrder
<1>7. side.mbox \in Mailboxes BY <1>2, <1>4, <1>6, RetryPasses
<1>8. /\ recvmbox' = [recvmbox EXCEPT ![c] = side.mbox]
      /\ refused_data' = [refused_data EXCEPT ![c] = side.refused]
      /\ to_send' = [to_send EXCEPT ![c] = new]
  BY <1>1, <1>2, <1>3 DEF QueueOoseq, Becomes
<1>9. ASSUME NEW d \in Conn, d # c PROVE Coming(d)' = Coming(d)
  <2>1. /\ recvmbox'[d] = recvmbox[d] /\ refused_data'[d] = refused_data[d]
        /\ to_send'[d] = to_send[d]
    BY <1>8, <1>9 DEF ServerInv, TypeOK
  <2> QED BY <2>1, ComingStays
<1>10. Coming(c)' = Coming(c)
  <2>1. recvmbox'[c] = side.mbox /\ refused_data'[c] = side.refused /\ to_send'[c] = new
    BY <1>8 DEF ServerInv, TypeOK
  <2>2. Coming(c)' = InSide(side) \o Joined(new)
    BY <1>7, <2>1, ComingIsNext DEF ComingKnown, InSide
  <2>3. Coming(c) = (Joined(m) \o Data(r)) \o Joined(w)
    BY <1>1, <1>4, ComingIs DEF ComingKnown
  <2>4. InSide(side) = Joined(m) \o Data(r) BY <1>2, <1>4, <1>6, RetryJoins
  <2>5. Joined(new) = Joined(w) BY <1>3, <1>4, <1>5, ChainJoins DEF InOrder
  <2> QED BY <2>2, <2>3, <2>4, <2>5
<1> QED BY <1>9, <1>10

LEMMA FasttmrStream ==
  ASSUME ServerInv, NEW c \in Conn, tcp_fasttmr(c)
  PROVE  \A d \in Conn : Coming(d)' = Coming(d)
<1>1. PICK m, r, w : m = recvmbox[c] /\ r = refused_data[c] /\ w = to_send[c] OBVIOUS
<1>2. PICK side : side = tcp_process_refused_data(Side(m, r)) OBVIOUS
<1>3. pcb[c] = "open" /\ m \in Mailboxes /\ r \in Segments /\ w \in Seq(Segments)
  BY <1>1 DEF tcp_fasttmr, ServerInv, TypeOK, Valid
<1>4. InOrder(m, r, w)
  BY <1>1, <1>3 DEF ServerInv, ConnInv, tcp_fasttmr
<1>5. side.mbox \in Mailboxes /\ side.refused \in Segments \cup {NULL}
  BY <1>2, <1>3, <1>4, RetryInOrder
<1>6. /\ recvmbox' = [recvmbox EXCEPT ![c] = side.mbox]
      /\ refused_data' = [refused_data EXCEPT ![c] = side.refused]
      /\ UNCHANGED to_send
  BY <1>1, <1>2 DEF tcp_fasttmr, Becomes, clients
<1>7. ASSUME NEW d \in Conn, d # c PROVE Coming(d)' = Coming(d)
  <2>1. /\ recvmbox'[d] = recvmbox[d] /\ refused_data'[d] = refused_data[d]
        /\ to_send'[d] = to_send[d]
    BY <1>6, <1>7 DEF ServerInv, TypeOK
  <2> QED BY <2>1, ComingStays
<1>8. Coming(c)' = Coming(c)
  <2>1. recvmbox'[c] = side.mbox /\ refused_data'[c] = side.refused /\ to_send'[c] = w
    BY <1>1, <1>6 DEF ServerInv, TypeOK
  <2>2. Coming(c)' = InSide(side) \o Joined(w)
    BY <1>5, <2>1, ComingIsNext DEF ComingKnown, InSide
  <2>3. Coming(c) = (Joined(m) \o Data(r)) \o Joined(w)
    BY <1>1, <1>3, ComingIs DEF ComingKnown
  <2>4. r # NULL => r.data # <<>> BY <1>4 DEF InOrder
  <2>5. InSide(side) = Joined(m) \o Data(r) BY <1>2, <1>3, <2>4, RetryJoins
  <2> QED BY <2>2, <2>3, <2>5
<1> QED BY <1>7, <1>8

LEMMA EstablishStream ==
  ASSUME ServerInv, NEW c \in Conn, Establish(c)
  PROVE  \A d \in Conn : Coming(d)' = Coming(d)
<1>1. /\ pcb[c] = "none" /\ recvmbox' = [recvmbox EXCEPT ![c] = <<>>]
      /\ UNCHANGED <<refused_data, to_send>>
  BY DEF Establish, clients
<1>2. ASSUME NEW d \in Conn PROVE InMailbox(d)' = InMailbox(d)
  <2>1. CASE d = c
    <3>1. recvmbox[c] = NULL BY <1>1 DEF ServerInv, ConnInv, Placed
    <3>2. InMailbox(d) = <<>> BY <2>1, <3>1 DEF InMailbox, Valid
    <3>3. recvmbox'[c] = <<>> BY <1>1 DEF ServerInv, TypeOK
    <3>4. InMailbox(d)' = <<>> BY <2>1, <3>3, JoinedEmpty DEF InMailbox
    <3> QED BY <3>2, <3>4
  <2>2. CASE d # c
    <3>1. recvmbox'[d] = recvmbox[d] BY <1>1, <2>2 DEF ServerInv, TypeOK
    <3> QED BY <3>1 DEF InMailbox
  <2> QED BY <2>1, <2>2
<1>3. ASSUME NEW d \in Conn PROVE Coming(d)' = Coming(d)
  <2>1. Data(refused_data[d])' = Data(refused_data[d]) BY <1>1
  <2>2. Joined(to_send[d])' = Joined(to_send[d]) BY <1>1
  <2> QED BY <1>2, <2>1, <2>2 DEF Coming
<1> QED BY <1>3

LEMMA RefuseStream ==
  ASSUME NEW c \in Conn, Refuse(c)
  PROVE  \A d \in Conn : Coming(d)' = Coming(d)
BY ComingStays DEF Refuse

\* The others lose nothing.
CutOnly(c) ==
  /\ IsCut(Coming(c)', Coming(c))
  /\ \A d \in Conn : d # c => Coming(d)' = Coming(d)

LEMMA ErrStream ==
  ASSUME ServerInv, NEW c \in Conn, err_tcp(c) PROVE CutOnly(c)
<1>1. /\ refused_data' = [refused_data EXCEPT ![c] = NULL]
      /\ to_send' = [to_send EXCEPT ![c] = <<>>]
      /\ recvmbox' = [recvmbox EXCEPT ![c] = Trypost(@, NULL)]
  BY DEF err_tcp, Break, ServerInv, TypeOK
<1>2. ASSUME NEW d \in Conn, d # c PROVE Coming(d)' = Coming(d)
  <2>1. /\ recvmbox'[d] = recvmbox[d] /\ refused_data'[d] = refused_data[d]
        /\ to_send'[d] = to_send[d]
    BY <1>1, <1>2 DEF ServerInv, TypeOK
  <2> QED BY <2>1, ComingStays
<1>3. IsCut(Coming(c)', Coming(c))
  <2>1. PICK m : m = recvmbox[c] OBVIOUS
  <2>2. m \in Mailboxes \cup {NULL} BY <2>1 DEF ServerInv, TypeOK
  <2>3. recvmbox'[c] = Trypost(m, NULL) /\ refused_data'[c] = NULL /\ to_send'[c] = <<>>
    BY <1>1, <2>1 DEF ServerInv, TypeOK
  <2>4. InMailbox(c)' = InMailbox(c)
    <3>1. CASE m = NULL
      <4>1. Trypost(m, NULL) = NULL BY <3>1 DEF Trypost, Valid
      <4> QED BY <2>1, <2>3, <3>1, <4>1 DEF InMailbox, Valid
    <3>2. CASE m \in Mailboxes
      <4>1. PICK t : t = Trypost(m, NULL) OBVIOUS
      <4>2. t \in Mailboxes
        <5>1. Append(m, NULL) \in Mailboxes BY <3>2, AppendProperties DEF Mailboxes
        <5> QED BY <3>2, <4>1, <5>1 DEF Trypost
      <4>3. Joined(t) = Joined(m) BY <3>2, <4>1, EndCarriesNothing
      <4>4. t # NULL /\ m # NULL BY <3>2, <4>2, MailboxIsNotNULL
      <4>5. InMailbox(c) = Joined(m) BY <2>1, <4>4 DEF InMailbox, Valid
      <4>6. InMailbox(c)' = Joined(t) BY <2>3, <4>1, <4>4 DEF InMailbox, Valid
      <4> QED BY <4>3, <4>5, <4>6
    <3> QED BY <2>2, <3>1, <3>2
  <2>5. Data(refused_data[c])' = <<>> BY <2>3 DEF Data
  <2>6. Joined(to_send[c])' = <<>>
    <3>1. Joined(to_send[c])' = Joined(<<>>) BY <2>3
    <3> QED BY <3>1, JoinedEmpty
  <2>7. PICK x, y, z : x = InMailbox(c) /\ y = Data(refused_data[c]) /\ z = Joined(to_send[c])
    OBVIOUS
  <2>8. x \in Seq(Unit) /\ y \in Seq(Unit) /\ z \in Seq(Unit)
    BY <2>7, StreamsTyped DEF StreamTypes
  <2>9. Coming(c)' = (x \o <<>>) \o <<>> BY <2>4, <2>5, <2>6, <2>7 DEF Coming
  <2>10. x \o <<>> = x BY <2>8, ConcatEmptySeq
  <2>11. Coming(c) = (x \o y) \o z BY <2>7 DEF Coming
  <2>12. (x \o y) \o z = x \o (y \o z) BY <2>8
  <2>13. y \o z \in Seq(Unit) BY <2>8, ConcatProperties
  <2>14. IsCut(x, x \o (y \o z)) BY <2>8, <2>13, CutOfFirst
  <2> QED BY <2>9, <2>10, <2>11, <2>12, <2>14
<1> QED BY <1>2, <1>3 DEF CutOnly

\* What a client that has given up sends.
Fin == [data |-> <<>>, push |-> FALSE, fin |-> TRUE, after |-> 0]

LEMMA GiveUpStream ==
  ASSUME ServerInv, NEW c \in Conn, GiveUp(c) PROVE CutOnly(c)
<1> DEFINE fin == Fin
<1>1. /\ refused_data[c] = NULL /\ recvmbox[c] = <<>>
      /\ to_send' = [to_send EXCEPT ![c] = <<fin>>]
      /\ UNCHANGED <<recvmbox, refused_data>>
  BY DEF GiveUp, channel, Fin
<1>2. ASSUME NEW d \in Conn, d # c PROVE Coming(d)' = Coming(d)
  <2>1. /\ recvmbox'[d] = recvmbox[d] /\ refused_data'[d] = refused_data[d]
        /\ to_send'[d] = to_send[d]
    BY <1>1, <1>2 DEF ServerInv, TypeOK
  <2> QED BY <2>1, ComingStays
<1>3. IsCut(Coming(c)', Coming(c))
  <2>1. fin \in Segments /\ fin # NULL /\ fin.data = <<>>
    <3>1. <<>> \in Seq(Unit) BY EmptySeq
    <3>2. fin \in Segments BY <3>1 DEF Segments, Fin
    <3> QED BY <3>2 DEF Fin
  <2> HIDE DEF fin
  <2>2. fin \in Carriers /\ Data(fin) = <<>> BY <2>1 DEF Carriers, Data
  <2>3. Joined(<<fin>>) = <<>>
    <3>1. <<fin>> = Append(<<>>, fin) OBVIOUS
    <3>2. <<>> \in Seq(Carriers) BY EmptySeq
    <3>3. Joined(Append(<<>>, fin)) = Joined(<<>>) \o Data(fin)
      BY <2>2, <3>2, JoinedAppend
    <3>4. <<>> \o <<>> = <<>> OBVIOUS
    <3> QED BY <2>2, <3>1, <3>3, <3>4, JoinedEmpty
  <2>4. to_send'[c] = <<fin>> BY <1>1 DEF ServerInv, TypeOK
  <2>5. Joined(to_send[c])' = <<>> BY <2>3, <2>4
  <2>6. InMailbox(c)' = <<>> BY <1>1, JoinedEmpty DEF InMailbox
  <2>7. Data(refused_data[c])' = <<>> BY <1>1 DEF Data
  <2>8. Coming(c)' = (<<>> \o <<>>) \o <<>> BY <2>5, <2>6, <2>7 DEF Coming
  <2>9. Coming(c)' = <<>> BY <2>8
  <2>10. Coming(c) \in Seq(Unit) BY StreamsTyped DEF StreamTypes
  <2> QED BY <2>9, <2>10, CutOfSelf
<1> QED BY <1>2, <1>3 DEF CutOnly

-----------------------------------------------------------------------------
(* What recv takes                                                         *)

\* Nothing more comes from a client whose connection broke, nothing but its end from
\* one that gave up, and rx_buffer holds what it has room for.
UnreadInv ==
  /\ \A c \in Conn : last_err[c] = "reset" => to_send[c] = <<>>
  /\ gave_up \subseteq Conn /\ \A c \in gave_up : to_send[c] \in {<<>>, <<Fin>>}
  /\ Len(rx_buffer) <= BufferSize

LEMMA SplitConcat ==
  ASSUME NEW S, NEW s \in Seq(S), NEW t \in Seq(S)
  PROVE  /\ SubSeq(s \o t, 1, Len(s)) = s
         /\ SubSeq(s \o t, Len(s) + 1, Len(s \o t)) = t
<1>1. PICK x, n, k : x = s \o t /\ n = Len(s) /\ k = Len(t) OBVIOUS
<1>2. /\ n \in Nat /\ k \in Nat /\ x \in Seq(S) /\ Len(x) = n + k
      /\ \A i \in 1..n + k : x[i] = IF i <= n THEN s[i] ELSE t[i - n]
  BY <1>1, ConcatProperties, LenProperties
<1>3. SubSeq(x, 1, n) = s
  <2>1. PICK y : y = SubSeq(x, 1, n) OBVIOUS
  <2>2. y \in Seq(S) /\ Len(y) = n /\ \A i \in 1..n : y[i] = x[i] BY <1>2, <2>1
  <2>3. \A i \in 1..n : y[i] = s[i] BY <1>2, <2>2
  <2> QED BY <1>1, <2>1, <2>2, <2>3, SeqEqual
<1>4. SubSeq(x, n + 1, Len(x)) = t
  <2>1. PICK y : y = SubSeq(x, n + 1, Len(x)) OBVIOUS
  <2>2. y \in Seq(S) /\ Len(y) = k /\ \A i \in 1..k : y[i] = x[n + i] BY <1>2, <2>1
  <2>3. ASSUME NEW i \in 1..k PROVE y[i] = t[i]
    <3>1. PICK j : j = n + i OBVIOUS
    <3>2. j \in 1..n + k /\ ~(j <= n) /\ j - n = i BY <1>2, <3>1
    <3>3. x[j] = t[i] BY <1>2, <3>2
    <3> QED BY <2>2, <3>1, <3>3
  <2> QED BY <1>1, <2>1, <2>2, <2>3, SeqEqual
<1> QED BY <1>1, <1>3, <1>4

LEMMA CopyStream ==
  ASSUME rx_buffer \in Seq(Unit), NEW p \in Pbufs, NEW mbox, Copy(p, mbox)
  PROVE  /\ rx_buffer' \o Data(lastdata)' = rx_buffer \o p.data
         /\ Len(rx_buffer') <= BufferSize
<1>1. PICK data, f : data = rx_buffer \o p.data /\ f = Fits(data) OBVIOUS
<1>2. PICK taken, rest : taken = SubSeq(data, 1, f) /\ rest = SubSeq(data, f + 1, Len(data))
  OBVIOUS
<1>3. p.data \in Seq(Unit) BY DEF Pbufs
<1>4. data \in Seq(Unit) BY <1>1, <1>3, ConcatProperties
<1>5. Len(data) \in Nat BY <1>4, LenProperties
<1>6. f \in 0..Len(data) /\ f <= BufferSize BY <1>1, <1>5 DEF Fits
<1>7. /\ rx_buffer' = taken
      /\ lastdata' = IF rest = <<>> THEN NULL ELSE [p EXCEPT !.data = rest]
  BY <1>1, <1>2 DEF Copy
<1>8. taken \in Seq(Unit) /\ Len(taken) = f /\ rest \in Seq(Unit) BY <1>2, <1>4, <1>5, <1>6
<1>9. Data(lastdata)' = rest
  <2>1. CASE rest = <<>> BY <1>7, <2>1 DEF Data
  <2>2. CASE rest # <<>>
    <3>1. PICK q : q = [p EXCEPT !.data = rest] OBVIOUS
    <3>2. q \in Pbufs /\ q.data = rest BY <1>8, <2>2, <3>1 DEF Pbufs
    <3>3. q # NULL BY <3>2
    <3>4. lastdata' = q BY <1>7, <2>2, <3>1
    <3> QED BY <3>2, <3>3, <3>4 DEF Data
  <2> QED BY <2>1, <2>2
<1>10. taken \o rest = data
  <2>1. PICK x : x = taken \o rest OBVIOUS
  <2>2. Len(rest) = Len(data) - f /\ \A i \in 1..Len(rest) : rest[i] = data[f + i]
    BY <1>2, <1>4, <1>5, <1>6
  <2>3. \A i \in 1..f : taken[i] = data[i] BY <1>2, <1>4, <1>5, <1>6
  <2>4. /\ x \in Seq(Unit) /\ Len(x) = Len(taken) + Len(rest)
        /\ \A i \in 1..Len(taken) + Len(rest) :
             x[i] = IF i <= Len(taken) THEN taken[i] ELSE rest[i - Len(taken)]
    BY <1>8, <2>1, ConcatProperties
  <2>5. Len(x) = Len(data) BY <1>5, <1>6, <1>8, <2>2, <2>4
  <2>6. ASSUME NEW i \in 1..Len(x) PROVE x[i] = data[i]
    <3>1. CASE i <= f BY <1>5, <1>6, <1>8, <2>3, <2>4, <2>5, <3>1
    <3>2. CASE ~(i <= f)
      <4>1. PICK j : j = i - f OBVIOUS
      <4>2. j \in 1..Len(rest) /\ f + j = i BY <1>5, <1>6, <2>2, <2>5, <3>2, <4>1
      <4>3. x[i] = rest[j] BY <1>8, <2>4, <3>2, <4>1
      <4> QED BY <2>2, <4>2, <4>3
    <3> QED BY <3>1, <3>2
  <2> QED BY <1>4, <2>1, <2>4, <2>5, <2>6, SeqEqual
<1> QED BY <1>1, <1>6, <1>7, <1>8, <1>9, <1>10

\* A client gives up once: its end waits for no answer.
LEMMA GivesUpOnce ==
  ASSUME AnswersInv, UnreadInv, NEW c \in Conn, GiveUp(c) PROVE c \notin gave_up
<1> SUFFICES ASSUME c \in gave_up PROVE FALSE OBVIOUS
<1>1. to_send[c] # <<>> /\ ~Sends(c) BY DEF GiveUp
<1>2. to_send[c] = <<Fin>> BY <1>1 DEF UnreadInv
<1>3. to_send[c][1].after = 0 BY <1>2 DEF Fin
<1>4. Answered(c) \in Nat
  <2>1. PICK I : I = {i \in DOMAIN got[c] : got[c][i][1] = "body"} OBVIOUS
  <2>2. got[c] \in Seq(Answers \cup Ends) BY DEF AnswersInv
  <2>3. DOMAIN got[c] = 1..Len(got[c]) /\ Len(got[c]) \in Nat BY <2>2, LenProperties
  <2>4. I \subseteq 1..Len(got[c]) BY <2>1, <2>3
  <2>5. IsFiniteSet(1..Len(got[c])) BY <2>3, FS_Interval
  <2>6. Cardinality(I) \in Nat BY <2>4, <2>5, FS_Subset, FS_CardinalityType
  <2> QED BY <2>1, <2>6 DEF Answered
<1> QED BY <1>1, <1>3, <1>4 DEF Sends

LEMMA NetworkKeepsUnread ==
  ASSUME ServerInv, UnreadInv, NEW c \in Conn, Network(c), UNCHANGED task PROVE UnreadInv'
<1>1. Len(rx_buffer') <= BufferSize BY DEF UnreadInv, task
<1>2. ASSUME NEW d \in Conn, last_err'[d] = "reset" PROVE to_send'[d] = <<>>
  <2>1. last_err[d] = "reset" => to_send[d] = <<>> BY DEF UnreadInv
  <2>2. pcb[d] = "open" => last_err[d] # "reset" BY DEF ServerInv, ConnInv, Placed
  <2>3. CASE Deliver(c)
    BY <1>2, <2>1, <2>2, <2>3 DEF Deliver, ServerInv, TypeOK
  <2>4. CASE GiveUp(c)
    BY <1>2, <2>1, <2>2, <2>4 DEF GiveUp, channel, ServerInv, TypeOK
  <2>5. CASE err_tcp(c)
    BY <1>2, <2>1, <2>5 DEF err_tcp, Break
  <2>6. CASE tcp_fasttmr(c) \/ Establish(c) \/ Refuse(c)
    BY <1>2, <2>1, <2>6 DEF tcp_fasttmr, Establish, Refuse, clients
  <2>7. CASE QueueOoseq(c)
    BY <1>2, <2>1, <2>2, <2>7 DEF QueueOoseq, ServerInv, TypeOK
  <2> QED BY <2>3, <2>4, <2>5, <2>6, <2>7 DEF Network
<1>3. ASSUME NEW d \in gave_up' PROVE to_send'[d] \in {<<>>, <<Fin>>}
  <2>1. d \in gave_up => to_send[d] \in {<<>>, <<Fin>>} BY DEF UnreadInv
  <2>2. CASE Deliver(c)
    <3>1. d \in gave_up /\ to_send' = [to_send EXCEPT ![c] = Tail(to_send[c])]
          /\ to_send[c] # <<>>
      BY <2>2 DEF Deliver, Sends, history
    <3>2. CASE d # c BY <2>1, <3>1, <3>2 DEF ServerInv, TypeOK
    <3>3. CASE d = c
      <4>1. to_send[c] = <<Fin>> BY <2>1, <3>1, <3>3
      <4>2. Tail(to_send[c]) = <<>> BY <4>1
      <4> QED BY <3>1, <3>3, <4>2 DEF ServerInv, TypeOK
    <3> QED BY <3>2, <3>3
  <2>3. CASE QueueOoseq(c)
    <3>1. d \in gave_up /\ Len(to_send[c]) > 1
          /\ \E new : to_send' = [to_send EXCEPT ![c] = new]
      BY <2>3 DEF QueueOoseq
    <3>2. d # c
      <4>1. SUFFICES ASSUME d = c PROVE FALSE OBVIOUS
      <4>2. PICK w : w = to_send[c] OBVIOUS
      <4>3. Len(w) > 1 /\ (w = <<>> \/ w = <<Fin>>) BY <2>1, <3>1, <4>1, <4>2
      <4>4. CASE w = <<>> BY <4>3, <4>4
      <4>5. CASE w = <<Fin>> BY <4>3, <4>5
      <4> QED BY <4>3, <4>4, <4>5
    <3> QED BY <2>1, <3>1, <3>2 DEF ServerInv, TypeOK
  <2>4. CASE GiveUp(c)
    <3>1. gave_up' = gave_up \cup {c} /\ to_send' = [to_send EXCEPT ![c] = <<Fin>>]
      BY <2>4 DEF GiveUp, Fin
    <3> QED BY <2>1, <3>1 DEF ServerInv, TypeOK
  <2>5. CASE err_tcp(c)
    <3>1. d \in gave_up /\ to_send' = [to_send EXCEPT ![c] = <<>>]
      BY <2>5 DEF err_tcp, Break, history, ServerInv, TypeOK
    <3> QED BY <2>1, <3>1 DEF ServerInv, TypeOK
  <2>6. CASE tcp_fasttmr(c) \/ Establish(c) \/ Refuse(c)
    BY <2>1, <2>6 DEF tcp_fasttmr, Establish, Refuse, clients, history
  <2> QED BY <2>2, <2>3, <2>4, <2>5, <2>6 DEF Network
<1>4. gave_up' \subseteq Conn
  BY DEF UnreadInv, Network, Deliver, QueueOoseq, tcp_fasttmr, Establish, Refuse, err_tcp,
         GiveUp, clients, history
<1> QED BY <1>1, <1>2, <1>3, <1>4 DEF UnreadInv

LEMMA TaskKeepsUnread ==
  ASSUME ServerInv, UnreadInv, ServerTask PROVE UnreadInv'
<1> USE DEF UnreadInv
<1>1. CASE netconn_accept \/ do_getaddr \/ do_close \/ do_delconn
  BY <1>1 DEF netconn_accept, do_getaddr, do_close, do_delconn, channel, clients, history
<1>2. CASE SendHeader \/ SendBody
  BY <1>2 DEF SendHeader, SendBody, Send, channel, history
<1>3. CASE CleanUp
  <2>1. PICK B : Break(B) /\ B \subseteq {c \in Conn : pcb[c] = "open"}
                 /\ UNCHANGED <<gave_up, rx_buffer>>
    <3>1. acceptmbox \in Seq(Conn) BY DEF ServerInv, TypeOK
    <3>2. ToSet(acceptmbox) \subseteq Conn BY <3>1 DEF ToSet
    <3> QED BY <1>3, <3>2 DEF CleanUp, history
  <2>2. ASSUME NEW c \in gave_up' PROVE to_send'[c] \in {<<>>, <<Fin>>}
    BY <2>1, <2>2 DEF Break
  <2>3. ASSUME NEW c \in Conn, last_err'[c] = "reset" PROVE to_send'[c] = <<>>
    BY <2>1, <2>3 DEF Break
  <2> QED BY <2>1, <2>2, <2>3
<1>4. CASE RecvRest
  <2>1. /\ Copy(lastdata, recvmbox[sock]) /\ lastdata \in Pbufs /\ rx_buffer \in Seq(Unit)
        /\ UNCHANGED <<last_err, to_send, gave_up>>
    BY <1>4 DEF RecvRest, netconnVars, channel, clients, history, ServerInv, TypeOK
  <2>2. Len(rx_buffer') <= BufferSize BY <2>1, CopyStream
  <2> QED BY <2>1, <2>2
<1>5. CASE TestError
  BY <1>5 DEF TestError, Ended, netconnVars, channel, clients, history
<1>6. CASE Fetch
  <2>1. PICK p, mbox : p = Head(recvmbox[sock]) /\ mbox = Tail(recvmbox[sock]) OBVIOUS
  <2>2. /\ p \in Pbufs \cup {NULL} /\ rx_buffer \in Seq(Unit) /\ UNCHANGED <<to_send, gave_up>>
    <3>1. recvmbox[sock] \in Mailboxes /\ recvmbox[sock] # <<>>
      BY <1>6 DEF Fetch, ServerInv, TypeOK, TaskInv, Valid
    <3> QED BY <1>6, <2>1, <3>1, FetchLeavesRest
            DEF Fetch, clients, history, ServerInv, TypeOK
  <2>3. CASE p = NULL
    BY <1>6, <2>1, <2>2, <2>3 DEF Fetch, Ended, ServerInv, TypeOK
  <2>4. CASE p # NULL
    <3>1. Copy(p, mbox) /\ UNCHANGED last_err BY <1>6, <2>1, <2>4 DEF Fetch
    <3>2. Len(rx_buffer') <= BufferSize BY <2>2, <2>4, <3>1, CopyStream
    <3> QED BY <2>2, <3>1, <3>2
  <2> QED BY <2>3, <2>4
<1>7. CASE json_wp
  <2>1. rx_buffer' = <<>> /\ UNCHANGED <<last_err, to_send, gave_up>>
    BY <1>7 DEF json_wp, netconnVars, channel, clients, history
  <2> QED BY <2>1
<1> QED BY <1>1, <1>2, <1>3, <1>4, <1>5, <1>6, <1>7 DEF ServerTask

LEMMA NextKeepsUnread ==
  ASSUME ServerInv, UnreadInv, [Next]_vars PROVE UnreadInv'
<1>1. CASE UNCHANGED vars
  BY <1>1 DEF vars, netconnVars, channel, clients, history, task, UnreadInv
<1> QED BY <1>1, NetworkKeepsUnread, TaskKeepsUnread DEF Next

-----------------------------------------------------------------------------
(* Requests are cut from what was sent                                     *)

\* s is a piece of w.
Chunk(s, w) ==
  \E o \in Nat : o + Len(s) <= Len(w) /\ \A i \in 1..Len(s) : s[i] = w[o + i]

ChunksInv == \A c \in Conn : Chunk(Stream[c], Content[c])

LEMMA ContentType == ASSUME NEW c \in Conn PROVE Content[c] \in Seq(Unit)
<1>1. Script[c] \in Seq(Segments) OBVIOUS
<1>2. Script[c] \in Seq(Carriers) BY <1>1, SeqMonotonic DEF Carriers
<1> QED BY <1>2, JoinedType DEF Content

LEMMA ContentConstant == Content' = Content
BY DEF Content, Joined, Data

LEMMA ChunkOfChunk ==
  ASSUME NEW s \in Seq(Unit), NEW w \in Seq(Unit), Chunk(s, w), NEW a \in 1..Len(s) + 1,
         NEW b \in 0..Len(s)
  PROVE  Chunk(SubSeq(s, a, b), w)
<1>1. PICK t : t = SubSeq(s, a, b) OBVIOUS
<1>2. PICK o \in Nat : o + Len(s) <= Len(w) /\ \A i \in 1..Len(s) : s[i] = w[o + i]
  BY DEF Chunk
<1>3. Len(s) \in Nat /\ Len(w) \in Nat BY LenProperties
<1>4. CASE a <= b
  <2>1. Len(t) = b - a + 1 /\ \A i \in 1..Len(t) : t[i] = s[a + i - 1] BY <1>1, <1>3, <1>4
  <2>2. PICK o2 : o2 = o + a - 1 OBVIOUS
  <2>3. o2 \in Nat /\ o2 + Len(t) <= Len(w) BY <1>2, <1>3, <1>4, <2>1, <2>2
  <2>4. ASSUME NEW i \in 1..Len(t) PROVE t[i] = w[o2 + i]
    <3>1. PICK j : j = a + i - 1 OBVIOUS
    <3>2. j \in 1..Len(s) /\ o + j = o2 + i BY <1>3, <1>4, <2>1, <2>2, <3>1
    <3>3. t[i] = s[j] /\ s[j] = w[o + j] BY <1>2, <2>1, <3>1, <3>2
    <3> QED BY <3>2, <3>3
  <2> QED BY <1>1, <2>3, <2>4 DEF Chunk
<1>5. CASE ~(a <= b)
  <2>1. Len(t) = 0 BY <1>1, <1>3, <1>5
  <2> QED BY <1>1, <1>2, <1>3, <2>1 DEF Chunk
<1> QED BY <1>4, <1>5

\* json_parse_string finds the request whole exactly when all of it is there.
LEMMA WholeIsParsed ==
  ASSUME NEW c \in Conn, NEW s \in Seq(Unit), s # <<>>, Chunk(s, Content[c])
  PROVE  /\ Abstract!Whole(s) <=> Parsed(s) # NULL
         /\ Parsed(s) \in {NULL, s[1][1]}
<1>1. PICK w : w = Content[c] OBVIOUS
<1>2. PICK o \in Nat : o + Len(s) <= Len(w) /\ \A i \in 1..Len(s) : s[i] = w[o + i]
  BY <1>1 DEF Chunk
<1>3. w \in Seq(Unit) BY <1>1, ContentType
<1>4. Len(s) \in Nat \ {0} /\ Len(w) \in Nat /\ DOMAIN w = 1..Len(w)
  BY <1>3, LenProperties, EmptySeq
<1>5. PICK r, n : r = s[1][1] /\ n = s[1][3] OBVIOUS
<1>6. o + 1 \in 1..Len(w) /\ s[1] = w[o + 1] BY <1>2, <1>4
<1>7. /\ n \in Nat
      /\ \E at \in 0..Len(w) : \A q \in 1..Len(w) :
           IF q \in at + 1..at + n THEN w[q] = <<r, q - at, n>> ELSE w[q][1] # r
  <2>1. PICK p : p = o + 1 OBVIOUS
  <2>2. p \in DOMAIN Content[c] /\ r = Content[c][p][1] /\ n = Content[c][p][3]
    BY <1>1, <1>4, <1>5, <1>6, <2>1
  <2>3. /\ n \in Nat
        /\ \E at \in 0..Len(Content[c]) : \A q \in DOMAIN Content[c] :
             IF q \in at + 1..at + n THEN Content[c][q] = <<r, q - at, n>>
                                      ELSE Content[c][q][1] # r
    <3>1. /\ Content[c][p][3] \in Nat
          /\ \E at \in 0..Len(Content[c]) : \A q \in DOMAIN Content[c] :
               IF q \in at + 1..at + Content[c][p][3]
                 THEN Content[c][q] = <<Content[c][p][1], q - at, Content[c][p][3]>>
                 ELSE Content[c][q][1] # Content[c][p][1]
      BY <2>2, ContentAssumption, Zenon
    <3> QED BY <2>2, <3>1
  <2> QED BY <1>1, <1>4, <2>3
<1>8. PICK at \in 0..Len(w) : \A q \in 1..Len(w) :
           IF q \in at + 1..at + n THEN w[q] = <<r, q - at, n>> ELSE w[q][1] # r
  BY <1>7
<1>9. o + 1 \in at + 1..at + n
  <2>1. w[o + 1][1] = r BY <1>5, <1>6
  <2> QED BY <1>6, <1>8, <2>1
<1>10. ASSUME NEW i \in 1..Len(s)
       PROVE  IF i <= at + n - o THEN s[i] = <<r, o + i - at, n>> ELSE s[i][1] # r
  <2>1. PICK q : q = o + i OBVIOUS
  <2>2. q \in 1..Len(w) /\ s[i] = w[q] BY <1>2, <1>4, <2>1
  <2>3. q \in at + 1..at + n <=> i <= at + n - o BY <1>4, <1>7, <1>9, <2>1
  <2> QED BY <1>8, <2>1, <2>2, <2>3
<1>11. r \in Requests /\ r # NULL
  <2>1. s[1] \in Unit BY <1>4, ElementOfSeq
  <2> QED BY <1>5, <2>1 DEF Requests
<1>12. Parsed(s) = IF Len(s) >= n /\ \A k \in 1..n : s[k] = <<r, k, n>> THEN r ELSE NULL
  BY <1>5 DEF Parsed
<1>13. Abstract!Whole(s) <=> {i \in 1..Len(s) : s[i][1] = r} = 1..n
  BY <1>5 DEF Abstract!Whole
<1>14. ASSUME at = o, Len(s) >= n
       PROVE  Parsed(s) # NULL /\ Abstract!Whole(s)
  <2>1. \A k \in 1..n : s[k] = <<r, k, n>> BY <1>4, <1>7, <1>10, <1>14
  <2>2. Parsed(s) = r BY <1>12, <1>14, <2>1
  <2>3. ASSUME NEW i \in 1..Len(s) PROVE s[i][1] = r <=> i \in 1..n
    BY <1>7, <1>10, <1>14
  <2>4. 1..n \subseteq 1..Len(s) BY <1>4, <1>7, <1>14
  <2>5. {i \in 1..Len(s) : s[i][1] = r} = 1..n BY <2>3, <2>4
  <2> QED BY <1>11, <1>13, <2>2, <2>5
<1>15. ASSUME Parsed(s) # NULL PROVE at = o /\ Len(s) >= n
  <2>1. Len(s) >= n /\ \A k \in 1..n : s[k] = <<r, k, n>> BY <1>12, <1>15
  <2>2. 1 \in 1..n BY <1>7, <1>9
  <2>3. s[1] = <<r, 1, n>> BY <2>1, <2>2
  <2>4. 1 \in 1..Len(s) /\ 1 <= at + n - o BY <1>4, <1>7, <1>9
  <2>5. s[1] = <<r, o + 1 - at, n>> BY <1>10, <2>4
  <2>6. 1 = o + 1 - at BY <2>3, <2>5
  <2> QED BY <1>4, <2>1, <2>6
<1>16. ASSUME Abstract!Whole(s) PROVE at = o /\ Len(s) >= n
  <2>1. {i \in 1..Len(s) : s[i][1] = r} = 1..n BY <1>13, <1>16
  <2>2. n \in 1..n BY <1>7, <1>9
  <2>3. n \in 1..Len(s) /\ s[n][1] = r BY <2>1, <2>2
  <2>4. n <= at + n - o BY <1>10, <2>3
  <2> QED BY <1>4, <1>7, <1>9, <2>3, <2>4
<1>17. Parsed(s) \in {NULL, s[1][1]} BY <1>5, <1>12
<1>18. Abstract!Whole(s) <=> Parsed(s) # NULL BY <1>14, <1>15, <1>16, Zenon
<1> QED BY <1>17, <1>18

-----------------------------------------------------------------------------
(* Every step is one of RequestStream or a stutter                         *)

\* The same connections broke.
BrokenStay == \A c \in Conn : last_err'[c] = "reset" <=> last_err[c] = "reset"

\* Nothing is read and nothing lost.
LEMMA StreamStays ==
  ASSUME \A c \in Conn : Ahead(c)' \o Coming(c)' = Ahead(c) \o Coming(c),
         Served' = Served, UNCHANGED <<executed, unanswered, gave_up>>, BrokenStay
  PROVE  UNCHANGED Abstract!vars
<1>1. Stream' = Stream BY DEF Stream
<1>2. {c \in Conn : last_err[c] = "reset"}' = {c \in Conn : last_err[c] = "reset"}
  BY DEF BrokenStay
<1> QED BY <1>1, <1>2 DEF Abstract!vars

LEMMA LoseStep ==
  ASSUME \A c \in Conn : IF last_err'[c] = "reset"
                           THEN IsCut(Ahead(c)' \o Coming(c)', Ahead(c) \o Coming(c))
                           ELSE Ahead(c)' \o Coming(c)' = Ahead(c) \o Coming(c),
         \A c \in Conn : last_err[c] = "reset" => last_err'[c] = "reset",
         Served' = Served, UNCHANGED <<executed, unanswered, gave_up>>
  PROVE  Abstract!Lose
<1>1. PICK s, t, B, C :
        /\ s = Stream /\ t = Stream'
        /\ B = {c \in Conn : last_err[c] = "reset"}
        /\ C = {c \in Conn : last_err'[c] = "reset"}
  OBVIOUS
<1>2. \A c \in Conn : s[c] = Ahead(c) \o Coming(c) BY <1>1 DEF Stream
<1>3. \A c \in Conn : t[c] = Ahead(c)' \o Coming(c)' BY <1>1 DEF Stream
<1>4. t = [c \in Conn |-> t[c]] BY <1>1 DEF Stream
<1>5. \A c \in Conn : IF c \in C THEN IsCut(t[c], s[c]) ELSE t[c] = s[c]
  BY <1>1, <1>2, <1>3
<1>6. \A c \in Conn : t[c] \in IF c \in C THEN Abstract!Prefixes(s[c]) ELSE {s[c]}
  BY <1>5 DEF IsCut, Abstract!Prefixes
<1>7. B \subseteq C /\ C \subseteq Conn BY <1>1
<1> HIDE DEF Stream, Served
<1> QED BY <1>1, <1>4, <1>6, <1>7 DEF Abstract!Lose

LEMMA WithdrawStep ==
  ASSUME NEW c \in Conn, c \notin gave_up, gave_up' = gave_up \cup {c},
         IsCut(Ahead(c)' \o Coming(c)', Ahead(c) \o Coming(c)),
         \A d \in Conn : d # c => Ahead(d)' \o Coming(d)' = Ahead(d) \o Coming(d),
         Served' = Served, UNCHANGED <<executed, unanswered>>, BrokenStay
  PROVE  Abstract!Withdraw(c)
<1>1. PICK s, t : s = Stream /\ t = Stream' OBVIOUS
<1>2. s = [d \in Conn |-> Ahead(d) \o Coming(d)] BY <1>1 DEF Stream
<1>3. t = [d \in Conn |-> Ahead(d)' \o Coming(d)'] BY <1>1 DEF Stream
<1>4. t[c] \in Abstract!Prefixes(s[c]) BY <1>2, <1>3 DEF IsCut, Abstract!Prefixes
<1>5. t = [s EXCEPT ![c] = t[c]]
  <2>1. \A d \in Conn : d # c => t[d] = s[d] BY <1>2, <1>3
  <2>2. DOMAIN s = Conn /\ DOMAIN t = Conn /\ t = [d \in Conn |-> t[d]] BY <1>2, <1>3
  <2>3. s = [d \in Conn |-> s[d]] BY <1>2
  <2> HIDE DEF Stream
  <2> QED BY <2>1, <2>2, <2>3
<1>6. {d \in Conn : last_err[d] = "reset"}' = {d \in Conn : last_err[d] = "reset"}
  BY DEF BrokenStay
<1> HIDE DEF Stream, Served
<1> QED BY <1>1, <1>4, <1>5, <1>6 DEF Abstract!Withdraw

LEMMA NetworkRefines ==
  ASSUME ServerInv, ServerInv', AnswersInv, UnreadInv, NEW c \in Conn, Network(c),
         UNCHANGED task
  PROVE  Abstract!Lose \/ Abstract!Withdraw(c) \/ UNCHANGED Abstract!vars
<1>1. Served' = Served /\ UNCHANGED <<executed, unanswered>> BY DEF Served, task
<1>2. \A d \in Conn : Ahead(d)' = Ahead(d) BY DEF Ahead, task
<1>3. CASE Deliver(c) \/ QueueOoseq(c) \/ tcp_fasttmr(c) \/ Establish(c) \/ Refuse(c)
  <2>1. \A d \in Conn : Coming(d)' = Coming(d)
    BY <1>3, DeliverStream, QueueOoseqStream, FasttmrStream, EstablishStream, RefuseStream
  <2>2. \A d \in Conn : Ahead(d)' \o Coming(d)' = Ahead(d) \o Coming(d) BY <1>2, <2>1
  <2>3. UNCHANGED <<last_err, gave_up>>
    BY <1>3 DEF Deliver, QueueOoseq, tcp_fasttmr, Establish, Refuse, clients, history
  <2> QED BY <1>1, <2>2, <2>3, StreamStays DEF BrokenStay
<1>4. ASSUME CutOnly(c)
      PROVE  /\ IsCut(Ahead(c)' \o Coming(c)', Ahead(c) \o Coming(c))
             /\ \A d \in Conn : d # c => Ahead(d)' \o Coming(d)' = Ahead(d) \o Coming(d)
  <2>1. PICK x, y, z : x = Ahead(c) /\ y = Coming(c)' /\ z = Coming(c) OBVIOUS
  <2>2. x \in Seq(Unit) /\ z \in Seq(Unit) BY <2>1, StreamsTyped DEF StreamTypes
  <2>3. y \in Seq(Unit) BY <2>1, StreamsTypedNext DEF StreamTypes
  <2>4. IsCut(y, z) BY <1>4, <2>1 DEF CutOnly
  <2>5. IsCut(x \o y, x \o z) BY <2>2, <2>3, <2>4, CutOfConcat
  <2> QED BY <1>2, <1>4, <2>1, <2>5 DEF CutOnly
<1>5. CASE err_tcp(c)
  <2>1. last_err'[c] = "reset" /\ \A d \in Conn : d # c => last_err'[d] = last_err[d]
    BY <1>5 DEF err_tcp, Break
  <2>2. gave_up' = gave_up BY <1>5 DEF err_tcp, history
  <2>3. CutOnly(c) BY <1>5, ErrStream
  <2>4. ASSUME NEW d \in Conn
        PROVE  IF last_err'[d] = "reset"
                 THEN IsCut(Ahead(d)' \o Coming(d)', Ahead(d) \o Coming(d))
                 ELSE Ahead(d)' \o Coming(d)' = Ahead(d) \o Coming(d)
    <3>1. CASE d = c BY <1>4, <2>1, <2>3, <3>1
    <3>2. CASE d # c
      <4>1. Ahead(d)' \o Coming(d)' = Ahead(d) \o Coming(d) BY <1>4, <2>3, <3>2
      <4>2. PICK w : w = Ahead(d) \o Coming(d) OBVIOUS
      <4>3. w \in Seq(Unit)
        <5>1. Ahead(d) \in Seq(Unit) /\ Coming(d) \in Seq(Unit) BY StreamsTyped DEF StreamTypes
        <5> QED BY <4>2, <5>1, ConcatProperties
      <4>4. IsCut(w, w) BY <4>3, CutOfSelf
      <4> QED BY <4>1, <4>2, <4>4
    <3> QED BY <3>1, <3>2
  <2>5. \A d \in Conn : last_err[d] = "reset" => last_err'[d] = "reset" BY <2>1
  <2> QED BY <1>1, <2>2, <2>4, <2>5, LoseStep
<1>6. CASE GiveUp(c)
  <2>1. c \notin gave_up BY <1>6, GivesUpOnce
  <2>2. gave_up' = gave_up \cup {c} /\ UNCHANGED last_err BY <1>6 DEF GiveUp, channel
  <2>3. CutOnly(c) BY <1>6, GiveUpStream
  <2> QED BY <1>1, <1>4, <2>1, <2>2, <2>3, WithdrawStep DEF BrokenStay
<1> QED BY <1>3, <1>5, <1>6 DEF Network

\* What a task step leaves of the network.
LEMMA ComingAllStays ==
  ASSUME UNCHANGED <<recvmbox, refused_data, to_send>>
  PROVE  \A c \in Conn : Coming(c)' = Coming(c)
BY ComingStays

LEMMA SockType ==
  ASSUME ServerInv, server \notin {"accept", "clean_up", "deleted"}
  PROVE  sock \in Conn
BY DEF ServerInv, TypeOK, TaskInv

LEMMA AcceptRefines ==
  ASSUME ServerInv, Cleared, netconn_accept PROVE UNCHANGED Abstract!vars
<1>1. /\ server = "accept" /\ server' = "peer" /\ sock = NULL
      /\ UNCHANGED <<recvmbox, refused_data, to_send, executed, unanswered, gave_up, last_err,
                     rx_buffer, lastdata>>
  BY DEF netconn_accept, channel, clients, history, ServerInv, TaskInv
<1>2. Served' = Served BY <1>1 DEF Served
<1>3. rx_buffer = <<>> /\ lastdata = NULL BY <1>1 DEF Cleared
<1>4. ASSUME NEW c \in Conn PROVE Ahead(c)' = Ahead(c)
  <2>1. c # sock BY <1>1
  <2>2. Ahead(c) = <<>> BY <2>1 DEF Ahead
  <2>3. Data(lastdata)' = <<>> BY <1>1, <1>3 DEF Data
  <2>4. rx_buffer' = <<>> BY <1>1, <1>3
  <2>5. Ahead(c)' = IF sock' = c THEN <<>> \o <<>> ELSE <<>> BY <2>3, <2>4 DEF Ahead
  <2>6. <<>> \o <<>> = <<>> OBVIOUS
  <2> QED BY <2>2, <2>5, <2>6
<1>5. \A c \in Conn : Coming(c)' = Coming(c) BY <1>1, ComingAllStays
<1> QED BY <1>1, <1>2, <1>4, <1>5, StreamStays DEF BrokenStay

LEMMA PeerRefines ==
  ASSUME ServerInv, ServerInv', UnreadInv, do_getaddr
  PROVE  Abstract!Lose \/ Abstract!Serve(sock)
<1>1. /\ server = "peer" /\ sock \in Conn
      /\ UNCHANGED <<refused_data, to_send, executed, unanswered, gave_up, last_err,
                     rx_buffer, lastdata>>
  BY SockType DEF do_getaddr, clients, history
<1>2. Served = NULL BY <1>1 DEF Served
<1>3. CASE pcb[sock] = "open"
  <2>1. server' = "recv" /\ UNCHANGED <<recvmbox, sock>> BY <1>3 DEF do_getaddr
  <2>2. Served' = sock BY <2>1 DEF Served
  <2>3. \A c \in Conn : Coming(c)' = Coming(c) BY <1>1, <2>1, ComingAllStays
  <2>4. \A c \in Conn : Ahead(c)' = Ahead(c) BY <1>1, <2>1 DEF Ahead
  <2>5. Stream' = Stream BY <2>3, <2>4 DEF Stream
  <2>6. {c \in Conn : last_err[c] = "reset"}' = {c \in Conn : last_err[c] = "reset"} BY <1>1
  <2> QED BY <1>1, <1>2, <2>2, <2>5, <2>6 DEF Abstract!Serve
<1>4. CASE pcb[sock] # "open"
  <2>1. /\ server' = "clean_up" /\ sock' = NULL
        /\ recvmbox' = [recvmbox EXCEPT ![sock] = NULL]
    BY <1>4 DEF do_getaddr
  <2>2. Served' = Served BY <1>2, <2>1 DEF Served
  <2>3. ASSUME NEW c \in Conn
        PROVE  /\ IsCut(Ahead(c)' \o Coming(c)', Ahead(c) \o Coming(c))
               /\ last_err'[c] # "reset" => Ahead(c)' \o Coming(c)' = Ahead(c) \o Coming(c)
    <3>1. PICK x, y : x = Ahead(c) /\ y = Coming(c) OBVIOUS
    <3>2. x \in Seq(Unit) /\ y \in Seq(Unit) BY <3>1, StreamsTyped DEF StreamTypes
    <3>3. x \o y \in Seq(Unit) BY <3>2, ConcatProperties
    <3>4. Ahead(c)' = <<>> BY <2>1 DEF Ahead
    <3>5. CASE c = sock
      <4>1. last_err[sock] = "reset" BY <1>1, <1>4 DEF ServerInv, ConnInv, Placed
      <4>2. refused_data[sock] = NULL /\ to_send[sock] = <<>>
        BY <1>1, <4>1 DEF UnreadInv, ServerInv, ConnInv, Placed
      <4>3. recvmbox'[sock] = NULL BY <1>1, <2>1 DEF ServerInv, TypeOK
      <4>4. InMailbox(c)' = <<>> BY <3>5, <4>3 DEF InMailbox, Valid
      <4>5. Data(refused_data[c])' = <<>> BY <1>1, <3>5, <4>2 DEF Data
      <4>6. Joined(to_send[c])' = <<>> BY <1>1, <3>5, <4>2, JoinedEmpty
      <4>7. Coming(c)' = (<<>> \o <<>>) \o <<>> BY <4>4, <4>5, <4>6 DEF Coming
      <4>8. <<>> \o <<>> = <<>> OBVIOUS
      <4>9. Ahead(c)' \o Coming(c)' = <<>> BY <3>4, <4>7, <4>8
      <4>10. IsCut(<<>>, x \o y) BY <3>3, CutOfSelf
      <4>11. last_err'[c] = "reset" BY <1>1, <3>5, <4>1
      <4> QED BY <3>1, <4>9, <4>10, <4>11
    <3>6. CASE c # sock
      <4>1. Ahead(c) = <<>> BY <3>6 DEF Ahead
      <4>2. recvmbox'[c] = recvmbox[c] BY <2>1, <3>6 DEF ServerInv, TypeOK
      <4>3. Coming(c)' = Coming(c) BY <1>1, <4>2, ComingStays
      <4>4. IsCut(x \o y, x \o y) BY <3>3, CutOfSelf
      <4> QED BY <3>1, <3>4, <4>1, <4>3, <4>4
    <3> QED BY <3>5, <3>6
  <2> QED BY <1>1, <2>2, <2>3, LoseStep
<1> QED BY <1>3, <1>4

LEMMA CleanUpRefines ==
  ASSUME ServerInv, ServerInv', UnreadInv, CleanUp PROVE Abstract!Lose
<1>1. /\ server = "clean_up" /\ server' = "deleted" /\ sock = NULL /\ sock' = NULL
      /\ acceptmbox \in Seq(Conn) /\ UNCHANGED <<executed, unanswered, gave_up>>
  BY DEF CleanUp, history, ServerInv, TaskInv, TypeOK
<1>2. Served' = Served BY <1>1 DEF Served
<1>3. ASSUME NEW c \in Conn
      PROVE  /\ IsCut(Ahead(c)' \o Coming(c)', Ahead(c) \o Coming(c))
             /\ last_err'[c] # "reset" => Ahead(c)' \o Coming(c)' = Ahead(c) \o Coming(c)
  <2>1. PICK y : y = Coming(c) OBVIOUS
  <2>2. y \in Seq(Unit) BY <2>1, StreamsTyped DEF StreamTypes
  <2>3. Ahead(c) = <<>> /\ Ahead(c)' = <<>> BY <1>1 DEF Ahead
  <2>4. <<>> \o y = y BY <2>2, ConcatEmptySeq
  <2>5. CASE c \in ToSet(acceptmbox)
    <3>1. Waiting(c) BY <1>1, <2>5 DEF ToSet, Waiting
    <3>2. pcb[c] = "open" \/ last_err[c] = "reset" BY <3>1 DEF ServerInv, ConnInv, Placed
    <3>3. pcb[c] # "open" => refused_data[c] = NULL /\ to_send[c] = <<>>
      BY <3>2 DEF UnreadInv, ServerInv, ConnInv, Placed
    <3>4. recvmbox'[c] = NULL /\ refused_data'[c] = NULL /\ to_send'[c] = <<>>
      BY <2>5, <3>3 DEF CleanUp, Break
    <3>5. InMailbox(c)' = <<>> BY <3>4 DEF InMailbox, Valid
    <3>6. Data(refused_data[c])' = <<>> BY <3>4 DEF Data
    <3>7. Joined(to_send[c])' = <<>> BY <3>4, JoinedEmpty
    <3>8. Coming(c)' = (<<>> \o <<>>) \o <<>> BY <3>5, <3>6, <3>7 DEF Coming
    <3>9. <<>> \o <<>> = <<>> OBVIOUS
    <3>10. Ahead(c)' \o Coming(c)' = <<>> BY <2>3, <3>8, <3>9
    <3>11. IsCut(<<>>, y) BY <2>2, CutOfSelf
    <3>12. last_err'[c] = "reset" BY <2>5, <3>2 DEF CleanUp, Break
    <3> QED BY <2>1, <2>3, <2>4, <3>10, <3>11, <3>12
  <2>6. CASE c \notin ToSet(acceptmbox)
    <3>1. /\ recvmbox'[c] = recvmbox[c] /\ refused_data'[c] = refused_data[c]
          /\ to_send'[c] = to_send[c]
      BY <2>6 DEF CleanUp, Break
    <3>2. Coming(c)' = y BY <2>1, <3>1, ComingStays
    <3>3. IsCut(y, y) BY <2>2, CutOfSelf
    <3> QED BY <2>1, <2>3, <2>4, <3>2, <3>3
  <2> QED BY <2>5, <2>6
<1>4. \A c \in Conn : last_err[c] = "reset" => last_err'[c] = "reset" BY DEF CleanUp, Break
<1> QED BY <1>1, <1>2, <1>3, <1>4, LoseStep

LEMMA RecvRestRefines ==
  ASSUME ServerInv, RecvRest PROVE UNCHANGED Abstract!vars
<1>1. /\ server = "recv" /\ Copy(lastdata, recvmbox[sock]) /\ lastdata \in Pbufs
      /\ rx_buffer \in Seq(Unit) /\ server' \in {"json_wp", "recv"}
      /\ UNCHANGED <<recvmbox, refused_data, to_send, executed, unanswered, gave_up, last_err,
                     sock>>
  BY DEF RecvRest, Copy, netconnVars, channel, clients, history, ServerInv, TypeOK
<1>2. Served' = Served BY <1>1 DEF Served
<1>3. rx_buffer' \o Data(lastdata)' = rx_buffer \o Data(lastdata)
  <2>1. lastdata # NULL BY <1>1
  <2>2. Data(lastdata) = lastdata.data BY <2>1 DEF Data
  <2> QED BY <1>1, <2>2, CopyStream
<1>4. \A c \in Conn : Ahead(c)' = Ahead(c) BY <1>1, <1>3 DEF Ahead
<1>5. \A c \in Conn : Coming(c)' = Coming(c) BY <1>1, ComingAllStays
<1> QED BY <1>1, <1>2, <1>4, <1>5, StreamStays DEF BrokenStay

LEMMA TestErrorRefines ==
  ASSUME TestError PROVE UNCHANGED Abstract!vars
<1>1. /\ server = "recv" /\ server' \in {"shutdown", "json_wp", "fetch"}
      /\ UNCHANGED <<recvmbox, refused_data, to_send, executed, unanswered, gave_up, last_err,
                     sock, rx_buffer, lastdata>>
  BY DEF TestError, Ended, netconnVars, channel, clients, history
<1>2. Served' = Served BY <1>1 DEF Served
<1>3. \A c \in Conn : Ahead(c)' = Ahead(c) BY <1>1 DEF Ahead
<1>4. \A c \in Conn : Coming(c)' = Coming(c) BY <1>1, ComingAllStays
<1> QED BY <1>1, <1>2, <1>3, <1>4, StreamStays DEF BrokenStay

LEMMA FetchRefines ==
  ASSUME ServerInv, ServerInv', Cleared, Fetch PROVE UNCHANGED Abstract!vars
<1>1. /\ server = "fetch" /\ sock \in Conn /\ rx_buffer \in Seq(Unit)
      /\ recvmbox' = [recvmbox EXCEPT ![sock] = Tail(recvmbox[sock])]
      /\ UNCHANGED <<refused_data, to_send, executed, unanswered, gave_up, sock>>
  BY SockType DEF Fetch, clients, history, ServerInv, TypeOK
<1>2. lastdata = NULL BY <1>1 DEF Cleared
<1>3. PICK m, p, mbox : m = recvmbox[sock] /\ p = Head(m) /\ mbox = Tail(m) OBVIOUS
<1>4. m \in Mailboxes /\ m # <<>>
  BY <1>1, <1>3 DEF Fetch, ServerInv, TypeOK, TaskInv, Valid
<1>5. p \in Pbufs \cup {NULL} /\ mbox \in Mailboxes BY <1>3, <1>4, FetchLeavesRest
<1>6. server' \in {"json_wp", "recv", "shutdown"} BY DEF Fetch, Ended, Copy
<1>7. Served' = Served BY <1>1, <1>6 DEF Served
<1>8. rx_buffer' \o Data(lastdata)' = rx_buffer \o Data(p)
  <2>1. CASE p = NULL
    <3>1. UNCHANGED <<rx_buffer, lastdata>> BY <1>3, <2>1 DEF Fetch, Ended
    <3> QED BY <1>2, <2>1, <3>1
  <2>2. CASE p # NULL
    <3>1. Copy(p, mbox) BY <1>3, <2>2 DEF Fetch
    <3>2. Data(p) = p.data BY <2>2 DEF Data
    <3> QED BY <1>1, <1>5, <2>2, <3>1, <3>2, CopyStream
  <2> QED BY <2>1, <2>2
<1>9. Joined(m) = Data(p) \o Joined(mbox)
  <2>1. m \in Seq(Carriers) BY <1>4, MailboxCarries
  <2> QED BY <1>3, <1>4, <2>1, JoinedTail
<1>10. recvmbox'[sock] = mbox BY <1>1, <1>3 DEF ServerInv, TypeOK
<1>11. ASSUME NEW c \in Conn, c # sock
       PROVE  Ahead(c)' \o Coming(c)' = Ahead(c) \o Coming(c)
  <2>1. recvmbox'[c] = recvmbox[c] BY <1>1, <1>11 DEF ServerInv, TypeOK
  <2>2. Coming(c)' = Coming(c) BY <1>1, <2>1, ComingStays
  <2>3. Ahead(c)' = Ahead(c) BY <1>1, <1>11 DEF Ahead
  <2> QED BY <2>2, <2>3
<1>12. Ahead(sock)' \o Coming(sock)' = Ahead(sock) \o Coming(sock)
  <2>1. PICK b, d, x, y, z :
          /\ b = rx_buffer /\ d = Data(p) /\ x = Joined(mbox)
          /\ y = Data(refused_data[sock]) /\ z = Joined(to_send[sock])
    OBVIOUS
  <2>2. b \in Seq(Unit) /\ d \in Seq(Unit) /\ x \in Seq(Unit) /\ y \in Seq(Unit)
        /\ z \in Seq(Unit)
    <3>1. p \in Carriers BY <1>5 DEF Carriers
    <3>2. d \in Seq(Unit) BY <2>1, <3>1, DataType
    <3>3. x \in Seq(Unit) BY <1>5, <2>1, MailboxCarries
    <3>4. y \in Seq(Unit) /\ z \in Seq(Unit) BY <1>1, <2>1, StreamsTyped DEF StreamTypes
    <3> QED BY <1>1, <2>1, <3>2, <3>3, <3>4
  <2>3. Ahead(sock)' = b \o d BY <1>1, <1>8, <2>1 DEF Ahead
  <2>4. Ahead(sock) = b
    <3>1. Data(lastdata) = <<>> BY <1>2 DEF Data
    <3>2. b \o <<>> = b BY <2>2, ConcatEmptySeq
    <3> QED BY <2>1, <3>1, <3>2 DEF Ahead
  <2>5. Coming(sock) = ((d \o x) \o y) \o z
    BY <1>1, <1>3, <1>4, <1>9, <2>1, ComingIs DEF ComingKnown
  <2>6. Coming(sock)' = (x \o y) \o z
    <3>1. recvmbox'[sock'] = mbox /\ sock' = sock BY <1>1, <1>10
    <3>2. InMailbox(sock)' = x
      <4>1. mbox # NULL BY <1>5, MailboxIsNotNULL
      <4> QED BY <2>1, <3>1, <4>1 DEF InMailbox, Valid
    <3>3. Data(refused_data[sock])' = y BY <1>1, <2>1
    <3>4. Joined(to_send[sock])' = z BY <1>1, <2>1
    <3> QED BY <3>2, <3>3, <3>4 DEF Coming
  <2>7. (b \o d) \o ((x \o y) \o z) = b \o (((d \o x) \o y) \o z)
    <3>1. PICK u : u = x \o y OBVIOUS
    <3>2. u \in Seq(Unit) BY <2>2, <3>1, ConcatProperties
    <3>3. (d \o x) \o y = d \o u BY <2>2, <3>1
    <3>4. (d \o u) \o z = d \o (u \o z) BY <2>2, <3>2
    <3>5. PICK v : v = u \o z OBVIOUS
    <3>6. v \in Seq(Unit) BY <2>2, <3>2, <3>5, ConcatProperties
    <3>7. (b \o d) \o v = b \o (d \o v) BY <2>2, <3>6
    <3> QED BY <3>1, <3>3, <3>4, <3>5, <3>7
  <2> QED BY <2>3, <2>4, <2>5, <2>6, <2>7
<1>13. \A c \in Conn : Ahead(c)' \o Coming(c)' = Ahead(c) \o Coming(c)
  <2>1. \A c \in Conn : c = sock =>
          Ahead(c)' \o Coming(c)' = Ahead(sock)' \o Coming(sock)'
    BY <1>1 DEF Ahead, Coming, InMailbox
  <2> QED BY <1>11, <1>12, <2>1
<1>14. BrokenStay BY <1>1 DEF Fetch, BrokenStay, ServerInv, TypeOK
<1> QED BY <1>1, <1>7, <1>13, <1>14, StreamStays

LEMMA JsonRefines ==
  ASSUME ServerInv, ServerInv', Cleared, UnreadInv, ChunksInv, json_wp
  PROVE  Abstract!Read(sock)
<1>1. /\ server = "json_wp" /\ sock \in Conn /\ rx_buffer \in Seq(Unit) /\ rx_buffer # <<>>
      /\ rx_buffer' = <<>> /\ server' \in {"recv", "header"}
      /\ UNCHANGED <<recvmbox, refused_data, to_send, gave_up, last_err, sock, lastdata>>
  BY SockType DEF json_wp, NotParsed, Execute, netconnVars, channel, clients, history,
                  ServerInv, TypeOK, TaskInv
<1>2. Served = sock /\ Served' = Served BY <1>1 DEF Served
<1>3. PICK b, d, y : b = rx_buffer /\ d = Data(lastdata) /\ y = Coming(sock) OBVIOUS
<1>4. PICK n : n = Len(b) OBVIOUS
<1>5. b \in Seq(Unit) /\ n \in Nat \ {0} /\ n <= BufferSize
  <2>1. Len(b) <= BufferSize BY <1>3 DEF UnreadInv
  <2> QED BY <1>1, <1>3, <1>4, <2>1, LenProperties, EmptySeq
<1>6. d \in Seq(Unit) /\ y \in Seq(Unit)
  <2>1. lastdata \in Carriers BY DEF ServerInv, TypeOK, Carriers
  <2>2. y \in Seq(Unit) BY <1>1, <1>3, StreamsTyped DEF StreamTypes
  <2> QED BY <1>3, <2>1, <2>2, DataType
<1>7. PICK rest : rest = d \o y OBVIOUS
<1>8. rest \in Seq(Unit) BY <1>6, <1>7, ConcatProperties
<1>9. PICK s : s = Stream[sock] OBVIOUS
<1>10. s = b \o rest
  <2>1. s = (b \o d) \o y BY <1>1, <1>3, <1>9 DEF Stream, Ahead
  <2>2. (b \o d) \o y = b \o (d \o y) BY <1>5, <1>6
  <2> QED BY <1>7, <2>1, <2>2
<1>11. s \in Seq(Unit) /\ Len(s) = n + Len(rest) /\ Len(rest) \in Nat
  BY <1>4, <1>5, <1>8, <1>10, ConcatProperties, LenProperties
<1>12. SubSeq(s, 1, n) = b /\ SubSeq(s, n + 1, Len(s)) = rest
  BY <1>4, <1>5, <1>8, <1>10, SplitConcat
<1>13. Stream' = [Stream EXCEPT ![sock] = rest]
  <2>1. ASSUME NEW c \in Conn
        PROVE  Ahead(c)' \o Coming(c)' = IF c = sock THEN rest ELSE Ahead(c) \o Coming(c)
    <3>1. Coming(c)' = Coming(c) BY <1>1, ComingAllStays
    <3>2. CASE c = sock
      <4>1. Data(lastdata)' = d BY <1>1, <1>3
      <4>2. Ahead(c)' = <<>> \o d BY <1>1, <3>2, <4>1 DEF Ahead
      <4>3. <<>> \o d = d BY <1>6, ConcatEmptySeq
      <4>4. Coming(c)' = y BY <1>3, <3>1, <3>2
      <4> QED BY <1>7, <3>2, <4>2, <4>3, <4>4
    <3>3. CASE c # sock
      <4>1. Ahead(c)' = Ahead(c) BY <1>1, <3>3 DEF Ahead
      <4> QED BY <3>1, <3>3, <4>1
    <3> QED BY <3>2, <3>3
  <2>2. PICK f, g : f = Stream /\ g = Stream' OBVIOUS
  <2>3. f = [c \in Conn |-> Ahead(c) \o Coming(c)] BY <2>2 DEF Stream
  <2>4. g = [c \in Conn |-> Ahead(c)' \o Coming(c)'] BY <2>2 DEF Stream
  <2>5. \A c \in Conn : g[c] = IF c = sock THEN rest ELSE f[c] BY <2>1, <2>3, <2>4
  <2>6. g = [f EXCEPT ![sock] = rest]
    <3>1. DOMAIN f = Conn /\ DOMAIN g = Conn BY <2>3, <2>4
    <3>2. g = [c \in Conn |-> g[c]] BY <2>4
    <3> HIDE DEF Stream
    <3> QED BY <2>3, <2>5, <3>1, <3>2
  <2> QED BY <2>2, <2>6
<1>14. PICK r : r = b[1][1] OBVIOUS
<1>15. Chunk(b, Content[sock])
  <2>1. Chunk(s, Content[sock]) BY <1>1, <1>9 DEF ChunksInv
  <2>2. 1 \in 1..Len(s) + 1 /\ n \in 0..Len(s) BY <1>5, <1>11
  <2>3. Content[sock] \in Seq(Unit) BY <1>1, ContentType
  <2> QED BY <1>11, <1>12, <2>1, <2>2, <2>3, ChunkOfChunk
<1>16. (Abstract!Whole(b) <=> Parsed(b) # NULL) /\ Parsed(b) \in {NULL, r}
  BY <1>1, <1>3, <1>5, <1>14, <1>15, WholeIsParsed
<1>17. IF Abstract!Whole(b) THEN Abstract!Execute(sock, r) ELSE UNCHANGED <<executed, unanswered>>
  <2>1. CASE Parsed(b) = NULL
    <3>1. UNCHANGED <<executed, unanswered>>
      BY <1>3, <2>1 DEF json_wp, NotParsed, Execute, Deny
    <3> QED BY <1>16, <2>1, <3>1
  <2>2. CASE Parsed(b) # NULL
    <3>1. Parsed(b) = r /\ r # NULL BY <1>16, <2>2
    <3>2. \/ /\ UNCHANGED executed
             /\ unanswered' = [unanswered EXCEPT ![sock] = @ \cup {r}]
          \/ /\ executed' = [executed EXCEPT ![sock] = Append(@, r)]
             /\ \/ UNCHANGED unanswered
                \/ unanswered' = [unanswered EXCEPT ![sock] = @ \cup {r}]
      BY <1>3, <3>1 DEF json_wp, NotParsed, Execute, Deny
    <3>3. unanswered \in [Conn -> SUBSET Requests] /\ executed \in [Conn -> Seq(Requests)]
      BY DEF Cleared
    <3>4. ASSUME executed' = [executed EXCEPT ![sock] = Append(@, r)] PROVE executed' # executed
      <4>1. PICK old : old = executed[sock] OBVIOUS
      <4>2. executed'[sock] = Append(old, r) BY <1>1, <3>3, <3>4, <4>1
      <4>3. old \in Seq(Requests) BY <1>1, <3>3, <4>1
      <4>4. Len(Append(old, r)) = Len(old) + 1 /\ Len(old) \in Nat BY <4>3
      <4>5. Append(old, r) # old BY <4>4
      <4> QED BY <4>1, <4>2, <4>5
    <3>5. Abstract!Execute(sock, r) BY <1>1, <3>2, <3>3, <3>4 DEF Abstract!Execute
    <3> QED BY <1>16, <2>2, <3>5
  <2> QED BY <2>1, <2>2
<1>18. n \in 1..Len(s) BY <1>5, <1>11
<1>19. Stream' = [Stream EXCEPT ![sock] = SubSeq(@, n + 1, Len(@))]
  BY <1>9, <1>12, <1>13
<1>20. SubSeq(Stream[sock], 1, n) = b /\ n \in 1..Len(Stream[sock]) BY <1>9, <1>12, <1>18
<1>21. {c \in Conn : last_err[c] = "reset"}' = {c \in Conn : last_err[c] = "reset"} BY <1>1
<1> HIDE DEF Stream, Served
<1> QED BY <1>1, <1>2, <1>5, <1>14, <1>17, <1>19, <1>20, <1>21 DEF Abstract!Read

LEMMA SendRefines ==
  ASSUME SendHeader \/ SendBody PROVE UNCHANGED Abstract!vars
<1>1. /\ server \in {"header", "body"} /\ server' \in {"body", "recv"}
      /\ UNCHANGED <<recvmbox, refused_data, to_send, executed, unanswered, gave_up, last_err,
                     sock, rx_buffer, lastdata>>
  BY DEF SendHeader, SendBody, Send, channel, history
<1>2. Served' = Served BY <1>1 DEF Served
<1>3. \A c \in Conn : Ahead(c)' = Ahead(c) BY <1>1 DEF Ahead
<1>4. \A c \in Conn : Coming(c)' = Coming(c) BY <1>1, ComingAllStays
<1> QED BY <1>1, <1>2, <1>3, <1>4, StreamStays DEF BrokenStay

\* What is closed has nothing left to read.
LEMMA ClosedIsEmpty ==
  ASSUME ServerInv, UnreadInv, NEW c \in Conn, Fatal(c)
  PROVE  refused_data[c] = NULL /\ to_send[c] = <<>>
         /\ (last_err[c] = "closed" => recvmbox[c] \in {<<>>, NULL})
<1>1. last_err[c] \in {"closed", "reset"} BY DEF Fatal, ServerInv, TypeOK
<1>2. CASE last_err[c] = "closed" BY <1>2 DEF ServerInv, ConnInv, AllRead
<1>3. CASE last_err[c] = "reset" BY <1>3 DEF UnreadInv, ServerInv, ConnInv, Placed
<1> QED BY <1>1, <1>2, <1>3

LEMMA CloseRefines ==
  ASSUME ServerInv, UnreadInv, do_close PROVE UNCHANGED Abstract!vars
<1>1. /\ server = "shutdown" /\ server' = "close" /\ sock \in Conn /\ Fatal(sock)
      /\ UNCHANGED <<last_err, to_send, executed, unanswered, gave_up, sock, rx_buffer,
                     lastdata>>
  BY SockType DEF do_close, clients, history, ServerInv, TaskInv
<1>2. Served' = Served BY <1>1 DEF Served
<1>3. \A c \in Conn : Ahead(c)' = Ahead(c) BY <1>1 DEF Ahead
<1>4. \A c \in Conn : Coming(c)' = Coming(c)
  <2>1. CASE pcb[sock] # "open"
    <3>1. UNCHANGED <<recvmbox, refused_data>> BY <2>1 DEF do_close
    <3> QED BY <1>1, <3>1, ComingAllStays
  <2>2. CASE pcb[sock] = "open"
    <3>1. /\ recvmbox' = [recvmbox EXCEPT ![sock] = NULL]
          /\ refused_data' = [refused_data EXCEPT ![sock] = NULL]
      BY <2>2 DEF do_close, Becomes, Side
    <3>2. last_err[sock] = "closed"
      BY <1>1, <2>2 DEF Fatal, ServerInv, TypeOK, ConnInv, Placed
    <3>3. recvmbox[sock] \in {<<>>, NULL} /\ refused_data[sock] = NULL
      BY <1>1, <3>2, ClosedIsEmpty
    <3>4. ASSUME NEW c \in Conn PROVE Coming(c)' = Coming(c)
      <4>1. refused_data'[c] = refused_data[c] BY <3>1, <3>3 DEF ServerInv, TypeOK
      <4>2. InMailbox(c)' = InMailbox(c)
        <5>1. CASE c = sock
          <6>1. InMailbox(c) = <<>> BY <3>3, <5>1, JoinedEmpty DEF InMailbox, Valid
          <6>2. recvmbox'[c] = NULL BY <3>1, <5>1 DEF ServerInv, TypeOK
          <6>3. InMailbox(c)' = <<>> BY <6>2 DEF InMailbox, Valid
          <6> QED BY <6>1, <6>3
        <5>2. CASE c # sock
          <6>1. recvmbox'[c] = recvmbox[c] BY <3>1, <5>2 DEF ServerInv, TypeOK
          <6> QED BY <6>1 DEF InMailbox
        <5> QED BY <5>1, <5>2
      <4>3. Data(refused_data[c])' = Data(refused_data[c]) BY <4>1
      <4>4. Joined(to_send[c])' = Joined(to_send[c]) BY <1>1
      <4> QED BY <4>2, <4>3, <4>4 DEF Coming
    <3> QED BY <3>4
  <2> QED BY <2>1, <2>2
<1> QED BY <1>1, <1>2, <1>3, <1>4, StreamStays DEF BrokenStay

LEMMA DelconnRefines ==
  ASSUME ServerInv, Cleared, UnreadInv, do_delconn PROVE Abstract!Leave(sock)
<1>1. /\ server = "close" /\ server' = "accept" /\ sock \in Conn /\ Fatal(sock)
      /\ recvmbox' = [recvmbox EXCEPT ![sock] = NULL] /\ sock' = NULL
      /\ UNCHANGED <<refused_data, to_send, executed, unanswered, gave_up, last_err, rx_buffer>>
  BY SockType DEF do_delconn, history, ServerInv, TaskInv
<1>2. Served = sock /\ Served' = NULL BY <1>1 DEF Served
<1>3. ASSUME NEW c \in Conn
      PROVE  Ahead(c)' \o Coming(c)' = IF c = sock THEN <<>> ELSE Ahead(c) \o Coming(c)
  <2>1. Ahead(c)' = <<>> BY <1>1 DEF Ahead
  <2>2. CASE c = sock
    <3>1. refused_data[c] = NULL /\ to_send[c] = <<>> BY <1>1, <2>2, ClosedIsEmpty
    <3>2. recvmbox'[c] = NULL BY <1>1, <2>2 DEF ServerInv, TypeOK
    <3>3. InMailbox(c)' = <<>> BY <3>2 DEF InMailbox, Valid
    <3>4. Data(refused_data[c])' = <<>> BY <1>1, <3>1 DEF Data
    <3>5. Joined(to_send[c])' = <<>> BY <1>1, <3>1, JoinedEmpty
    <3>6. Coming(c)' = (<<>> \o <<>>) \o <<>> BY <3>3, <3>4, <3>5 DEF Coming
    <3>7. <<>> \o <<>> = <<>> OBVIOUS
    <3> QED BY <2>1, <2>2, <3>6, <3>7
  <2>3. CASE c # sock
    <3>1. recvmbox'[c] = recvmbox[c] BY <1>1, <2>3 DEF ServerInv, TypeOK
    <3>2. Coming(c)' = Coming(c) BY <1>1, <3>1, ComingStays
    <3>3. Ahead(c) = <<>> BY <2>3 DEF Ahead
    <3> QED BY <2>1, <2>3, <3>2, <3>3
  <2> QED BY <2>2, <2>3
<1>4. Stream' = [Stream EXCEPT ![sock] = <<>>]
  <2>1. PICK f, g : f = Stream /\ g = Stream' OBVIOUS
  <2>2. f = [c \in Conn |-> Ahead(c) \o Coming(c)] BY <2>1 DEF Stream
  <2>3. g = [c \in Conn |-> Ahead(c)' \o Coming(c)'] BY <2>1 DEF Stream
  <2>4. \A c \in Conn : g[c] = IF c = sock THEN <<>> ELSE f[c] BY <1>3, <2>2, <2>3
  <2>5. DOMAIN f = Conn /\ DOMAIN g = Conn /\ g = [c \in Conn |-> g[c]] BY <2>2, <2>3
  <2>6. g = [f EXCEPT ![sock] = <<>>] BY <2>2, <2>4, <2>5
  <2> QED BY <2>1, <2>6
<1>5. last_err[sock] = "reset" \/ Stream[sock] = <<>>
  <2>1. SUFFICES ASSUME last_err[sock] # "reset" PROVE Stream[sock] = <<>> OBVIOUS
  <2>2. last_err[sock] = "closed" /\ AllRead(sock) BY <1>1, <2>1, GivenUpIsEmpty
  <2>3. rx_buffer = <<>> /\ lastdata = NULL BY <1>1 DEF Cleared
  <2>4. Ahead(sock) = <<>> \o <<>> BY <2>3 DEF Ahead, Data
  <2>5. InMailbox(sock) = <<>> BY <2>2, JoinedEmpty DEF AllRead, InMailbox, Valid
  <2>6. Data(refused_data[sock]) = <<>> /\ Joined(to_send[sock]) = <<>>
    BY <2>2, JoinedEmpty DEF AllRead, Data
  <2>7. Coming(sock) = (<<>> \o <<>>) \o <<>> BY <2>5, <2>6 DEF Coming
  <2>8. <<>> \o <<>> = <<>> OBVIOUS
  <2>9. Stream[sock] = Ahead(sock) \o Coming(sock) BY <1>1 DEF Stream
  <2> QED BY <2>4, <2>7, <2>8, <2>9
<1>6. {c \in Conn : last_err[c] = "reset"}' = {c \in Conn : last_err[c] = "reset"} BY <1>1
<1> HIDE DEF Stream, Served
<1> QED BY <1>1, <1>2, <1>4, <1>5, <1>6 DEF Abstract!Leave

LEMMA TaskRefines ==
  ASSUME ServerInv, ServerInv', Cleared, UnreadInv, ChunksInv, ServerTask
  PROVE  Abstract!Next \/ UNCHANGED Abstract!vars
<1>1. CASE netconn_accept BY <1>1, AcceptRefines
<1>2. CASE do_getaddr
  <2>1. sock \in Conn BY <1>2, SockType DEF do_getaddr
  <2> QED BY <1>2, <2>1, PeerRefines DEF Abstract!Next
<1>3. CASE CleanUp BY <1>3, CleanUpRefines DEF Abstract!Next
<1>4. CASE RecvRest \/ TestError \/ Fetch
  BY <1>4, RecvRestRefines, TestErrorRefines, FetchRefines
<1>5. CASE json_wp
  <2>1. sock \in Conn BY <1>5, SockType DEF json_wp
  <2> QED BY <1>5, <2>1, JsonRefines DEF Abstract!Next
<1>6. CASE SendHeader \/ SendBody BY <1>6, SendRefines
<1>7. CASE do_close BY <1>7, CloseRefines
<1>8. CASE do_delconn
  <2>1. sock \in Conn BY <1>8, SockType DEF do_delconn
  <2> QED BY <1>8, <2>1, DelconnRefines DEF Abstract!Next
<1> QED BY <1>1, <1>2, <1>3, <1>4, <1>5, <1>6, <1>7, <1>8 DEF ServerTask

LEMMA StepRefines ==
  ASSUME ServerInv, ServerInv', AnswersInv, Cleared, UnreadInv, ChunksInv, [Next]_vars
  PROVE  [Abstract!Next]_(Abstract!vars)
<1>1. CASE ServerTask BY <1>1, TaskRefines
<1>2. ASSUME NEW c \in Conn, Network(c), UNCHANGED task
      PROVE  Abstract!Next \/ UNCHANGED Abstract!vars
  BY <1>2, NetworkRefines DEF Abstract!Next
<1>3. CASE UNCHANGED vars
  <2>1. UNCHANGED <<recvmbox, refused_data, to_send, executed, unanswered, gave_up, last_err,
                    sock, rx_buffer, lastdata, server>>
    BY <1>3 DEF vars, netconnVars, channel, clients, history, task
  <2>2. Served' = Served BY <2>1 DEF Served
  <2>3. \A c \in Conn : Ahead(c)' = Ahead(c) BY <2>1 DEF Ahead
  <2>4. \A c \in Conn : Coming(c)' = Coming(c) BY <2>1, ComingAllStays
  <2>5. UNCHANGED Abstract!vars BY <2>1, <2>2, <2>3, <2>4, StreamStays DEF BrokenStay
  <2> QED BY <2>5
<1> QED BY <1>1, <1>2, <1>3 DEF Next

\* Whatever is read or lost, what is left is still a piece of what was sent.
LEMMA ChunksKept ==
  ASSUME ServerInv, ChunksInv, [Abstract!Next]_(Abstract!vars)
  PROVE  ChunksInv'
<1>1. PICK f, g : f = Stream /\ g = Stream' OBVIOUS
<1>2. \A c \in Conn : f[c] \in Seq(Unit) /\ Chunk(f[c], Content[c]) /\ Content[c] \in Seq(Unit)
  BY <1>1, StreamsTyped, ContentType DEF StreamTypes, ChunksInv
<1>3. ASSUME NEW c \in Conn
      PROVE  \E a \in 1..Len(f[c]) + 1 : \E b \in 0..Len(f[c]) : g[c] = SubSeq(f[c], a, b)
  <2>1. PICK s : s = f[c] OBVIOUS
  <2>2. s \in Seq(Unit) /\ Len(s) \in Nat BY <1>2, <2>1, LenProperties
  <2>3. 1 \in 1..Len(s) + 1 /\ 0 \in 0..Len(s) /\ Len(s) \in 0..Len(s) BY <2>2
  <2>4. SubSeq(s, 1, Len(s)) = s /\ SubSeq(s, 1, 0) = <<>>
    BY <2>2, SubSeqFull, SubSeqEmpty
  <2>5. CASE g[c] = s BY <2>1, <2>3, <2>4, <2>5
  <2>6. CASE g[c] = <<>> BY <2>1, <2>3, <2>4, <2>6
  <2>7. CASE \E n \in 0..Len(s) : g[c] = SubSeq(s, 1, n) BY <2>1, <2>3, <2>7
  <2>8. CASE \E n \in 1..Len(s) : g[c] = SubSeq(s, n + 1, Len(s))
    <3>1. PICK n \in 1..Len(s) : g[c] = SubSeq(s, n + 1, Len(s)) BY <2>8
    <3>2. n + 1 \in 1..Len(s) + 1 BY <2>2
    <3> QED BY <2>1, <2>3, <3>1, <3>2
  <2>9. f = [d \in Conn |-> f[d]] BY <1>1 DEF Stream
  <2>10. \/ g[c] = s \/ g[c] = <<>>
         \/ \E n \in 0..Len(s) : g[c] = SubSeq(s, 1, n)
         \/ \E n \in 1..Len(s) : g[c] = SubSeq(s, n + 1, Len(s))
    <3> HIDE DEF Stream
    <3>1. CASE UNCHANGED Abstract!vars BY <1>1, <2>1, <3>1 DEF Abstract!vars
    <3>2. CASE Abstract!Lose
      <4>1. g[c] = s \/ g[c] \in Abstract!Prefixes(f[c])
        BY <1>1, <2>1, <3>2 DEF Abstract!Lose
      <4> QED BY <2>1, <4>1 DEF Abstract!Prefixes
    <3>3. ASSUME NEW d \in Conn, Abstract!Serve(d) PROVE g[c] = s
      BY <1>1, <2>1, <3>3 DEF Abstract!Serve
    <3>4. ASSUME NEW d \in Conn, Abstract!Leave(d) PROVE g[c] = s \/ g[c] = <<>>
      <4>1. g = [f EXCEPT ![d] = <<>>] BY <1>1, <3>4 DEF Abstract!Leave
      <4> QED BY <2>1, <2>9, <4>1
    <3>5. ASSUME NEW d \in Conn, Abstract!Read(d)
          PROVE  g[c] = s \/ \E n \in 1..Len(s) : g[c] = SubSeq(s, n + 1, Len(s))
      <4>1. PICK n \in 1..Len(f[d]) : g = [f EXCEPT ![d] = SubSeq(@, n + 1, Len(@))]
        BY <1>1, <3>5 DEF Abstract!Read
      <4> QED BY <2>1, <2>9, <4>1
    <3>6. ASSUME NEW d \in Conn, Abstract!Withdraw(d)
          PROVE  g[c] = s \/ \E n \in 0..Len(s) : g[c] = SubSeq(s, 1, n)
      <4>1. PICK x \in Abstract!Prefixes(f[d]) : g = [f EXCEPT ![d] = x]
        BY <1>1, <3>6 DEF Abstract!Withdraw
      <4>2. PICK n \in 0..Len(f[d]) : x = SubSeq(f[d], 1, n) BY DEF Abstract!Prefixes
      <4> QED BY <2>1, <2>9, <4>1, <4>2
    <3> QED BY <3>1, <3>2, <3>3, <3>4, <3>5, <3>6 DEF Abstract!Next
  <2> QED BY <2>5, <2>6, <2>7, <2>8, <2>10
<1>4. ASSUME NEW c \in Conn PROVE Chunk(g[c], Content[c])
  <2>1. PICK s, w : s = f[c] /\ w = Content[c] OBVIOUS
  <2>2. PICK a \in 1..Len(s) + 1, b \in 0..Len(s) : g[c] = SubSeq(s, a, b) BY <1>3, <2>1
  <2>3. s \in Seq(Unit) /\ w \in Seq(Unit) /\ Chunk(s, w) BY <1>2, <2>1
  <2>4. Chunk(SubSeq(s, a, b), w) BY <2>3, ChunkOfChunk
  <2> QED BY <2>1, <2>2, <2>4
<1> QED BY <1>1, <1>4, ContentConstant DEF ChunksInv, Chunk

LEMMA InitRefines ==
  ASSUME Init PROVE Abstract!Init /\ UnreadInv /\ ChunksInv
<1>1. /\ recvmbox = [c \in Conn |-> NULL] /\ refused_data = [c \in Conn |-> NULL]
      /\ to_send = Script /\ last_err = [c \in Conn |-> "ok"]
      /\ server = "accept" /\ sock = NULL /\ rx_buffer = <<>>
      /\ executed = [c \in Conn |-> <<>>] /\ unanswered = [c \in Conn |-> {}]
      /\ gave_up = {}
  BY DEF Init, NetconnInit
<1>2. ASSUME NEW c \in Conn PROVE Ahead(c) \o Coming(c) = Content[c]
  <2>1. PICK w : w = Content[c] OBVIOUS
  <2>2. w \in Seq(Unit) /\ Joined(Script[c]) = w BY <2>1, ContentType DEF Content
  <2>3. Ahead(c) = <<>> BY <1>1 DEF Ahead
  <2>4. InMailbox(c) = <<>> BY <1>1 DEF InMailbox, Valid
  <2>5. Data(refused_data[c]) = <<>> BY <1>1 DEF Data
  <2>6. Coming(c) = (<<>> \o <<>>) \o w BY <1>1, <2>2, <2>4, <2>5 DEF Coming
  <2>7. <<>> \o <<>> = <<>> /\ <<>> \o w = w BY <2>2, ConcatEmptySeq
  <2> QED BY <2>1, <2>3, <2>6, <2>7
<1>3. Stream = Content
  <2>1. Stream = [c \in Conn |-> Content[c]] BY <1>2 DEF Stream
  <2>2. Content = [c \in Conn |-> Content[c]] BY DEF Content
  <2> QED BY <2>1, <2>2
<1>4. Abstract!Init
  <2>1. {c \in Conn : last_err[c] = "reset"} = {} BY <1>1
  <2> QED BY <1>1, <1>3, <2>1 DEF Abstract!Init, Served
<1>5. UnreadInv BY <1>1 DEF UnreadInv
<1>6. ASSUME NEW c \in Conn PROVE Chunk(Stream[c], Content[c])
  <2>1. PICK w : w = Content[c] OBVIOUS
  <2>2. Len(w) \in Nat BY <2>1, ContentType, LenProperties
  <2>3. Chunk(w, w) BY <2>2 DEF Chunk
  <2> QED BY <1>3, <2>1, <2>3
<1> QED BY <1>4, <1>5, <1>6 DEF ChunksInv

(* For any connections, scripts, mailbox, backlog and buffer sizes, with   *)
(* requests cut and joined in any way: what the server reads of a          *)
(* connection is what the client sent, in order, without a gap and once,   *)
(* and a request is executed when what recv returned starts with the whole *)
(* of it, unless the memory is wanting; nothing else is.  Only what is     *)
(* last of a connection that broke, or what its client gave up, is lost:   *)
(* the server leaves no other before it has read everything.               *)
THEOREM StreamRefined == Spec => ImplementsStream
<1>1. Init => Abstract!Init /\ UnreadInv /\ ChunksInv BY InitRefines
<1>2. ServerInv /\ UnreadInv /\ [Next]_vars => UnreadInv' BY NextKeepsUnread
<1>3. ServerInv /\ ServerInv' /\ AnswersInv /\ Cleared /\ UnreadInv /\ ChunksInv /\ [Next]_vars
        => [Abstract!Next]_(Abstract!vars)
  BY StepRefines
<1>4. ServerInv /\ ChunksInv /\ [Abstract!Next]_(Abstract!vars) => ChunksInv'
  BY ChunksKept
<1>5. Init => PlainInv BY InitPlain
<1>6. ServerInv /\ AnswersInv /\ PlainInv /\ [Next]_vars => PlainInv' BY NextKeepsPlain
<1>7. PlainInv => Cleared BY DEF PlainInv
<1>8. Init => AnswersInv BY InitAnswers
<1>9. ServerInv /\ AnswersInv /\ [Next]_vars => AnswersInv' BY NextKeepsAnswers
<1> QED BY <1>1, <1>2, <1>3, <1>4, <1>5, <1>6, <1>7, <1>8, <1>9, ServerInvariant, PTL
        DEF Spec, ImplementsStream, Abstract!Spec
=============================================================================
