------------------------------ MODULE MCServer ------------------------------
(***************************************************************************)
(* The clients.  The eager one sends its requests before the first is      *)
(* answered, more of them than the mailbox holds, and closes when it has   *)
(* the answers, as the modest one does after its only one.  What the       *)
(* chopped one sends TCP has cut and joined: requests in two segments, two *)
(* in one, more than rx_buffer holds, and no push where a segment is cut,  *)
(* once before an object within the request.  The brief one does not wait  *)
(* for answers to close, and its host may break or forget the connection.  *)
(* Whole requests and cut ones come apart from each other: three clients   *)
(* with the former, or one with the latter beside one that breaks.         *)
(***************************************************************************)
EXTENDS TcpServer

CONSTANTS eager, modest, chopped, brief

Part(r, k, n) == <<<<r, k, n>>>>
Whole(r) == Part(r, 1, 1)

Segment(data, push, fin, after) ==
  [data |-> data, push |-> push, fin |-> fin, after |-> after]
Request(r) == Segment(Whole(r), TRUE, FALSE, 0)
Close(after) == Segment(<<>>, FALSE, TRUE, after)

Brief == <<Request("p"), Segment(Whole("q"), TRUE, TRUE, 0)>>

MCScript ==
  (eager :> <<Request("a"), Request("b"), Request("c"), Close(3)>>)
  @@ (modest :> <<Request("d"), Close(1)>>)
  @@ (chopped :> <<Segment(Part("e", 1, 2), FALSE, FALSE, 0),
                   Segment(Part("e", 2, 2) \o Whole("f") \o Part("g", 1, 2), TRUE, FALSE, 0),
                   Segment(Part("g", 2, 2), TRUE, FALSE, 0),
                   Close(3)>>)
  @@ (brief :> Brief)

MCNested == {<<"g", 2, 2>>}
MCUnit == UNION {ToSet(Joined(MCScript[c])) : c \in DOMAIN MCScript}

\* Who comes at the same time.  Nothing forces a client to come, so that the
\* behaviours of MCSpec are behaviours of FairSpec.
Parties == {{eager, modest, brief}, {chopped, brief}}
Stays(party) == \A c \in Conn \ party : pcb[c] = "none"
MCNext == Next /\ (\E party \in Parties : Stays(party)')
MCSpec == Init /\ [][MCNext]_vars /\ Fairness

(* A client that does not wait for its answers to close. *)
HastyScript == (eager :> <<Request("a"), Request("b"), Request("c"), Close(0)>>)
               @@ (brief :> <<Request("p"), Close(1)>>)

=============================================================================
