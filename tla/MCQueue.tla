------------------------------ MODULE MCQueue ------------------------------
(***************************************************************************)
(* The network stack's tasks: tcpip_thread, which fetches from its mailbox *)
(* with the time to its next timer, a task of the EMAC, as important, which*)
(* waits for an interrupt's semaphore, and tcp_server_task, of less        *)
(* priority.  In Exchange the server posts to tcpip_thread, which tries to *)
(* post to the server's connection.  In Compete tcpip_thread and the       *)
(* server, which pauses in a motor command, want mem_mutex.  Meanwhile the *)
(* interrupts keep the EMAC's receive task busy.  In Press the mailbox is  *)
(* full: the receive task tries to post, or posts and waits for a place as *)
(* sys_mbox_post allows.  In Clean the EMAC's task is the one that cleans  *)
(* up after transmissions: with TXLockMutex, which tcpip_thread wants in   *)
(* order to send, it frees memory and gives the descriptors back.          *)
(***************************************************************************)
EXTENDS Queue, TLC

CONSTANTS tcpip, emac, server, idle, mbox, recvmbox, isrsem, descs, mem, txlock,
          isr, none

MCTask == {tcpip, emac, server}
MCPriority == (tcpip :> 2) @@ (emac :> 2) @@ (server :> 1) @@ (idle :> 0)
MCLength == (mbox :> 2) @@ (recvmbox :> 1) @@ (isrsem :> 1) @@ (descs :> 1)
              @@ (mem :> 1) @@ (txlock :> 1)

Make(op, q, waits) == {[op |-> op, q |-> q, xTicksToWait |-> n] : n \in waits}
\* Calls made with no mutex taken.
Free(calls) == [m \in {mem, txlock, none} |-> IF m = none THEN calls ELSE {}]

Exchange ==
  (tcpip :> Free(Make("receive", mbox, {1}) \cup Make("send", recvmbox, {0})))
  @@ (emac :> Free(Make("receive", isrsem, {portMAX_DELAY})))
  @@ (server :> Free(Make("receive", recvmbox, {portMAX_DELAY})
                       \cup Make("send", mbox, {portMAX_DELAY})))

Compete ==
  (tcpip :> Free(Make("receive", mbox, {2}) \cup Make("receive", mem, {portMAX_DELAY})))
  @@ (emac :> Free(Make("receive", isrsem, {portMAX_DELAY})))
  @@ (server :> Free(Make("receive", mem, {portMAX_DELAY}) \cup Make("delay", none, {1})))

Press ==
  (tcpip :> Free(Make("receive", mbox, {2})))
  @@ (emac :> Free(Make("send", mbox, {0, portMAX_DELAY})))
  @@ (server :> Free(Make("send", mbox, {portMAX_DELAY})))

Clean ==
  (tcpip :> Free(Make("receive", mbox, {1}) \cup Make("receive", descs, {0})
                   \cup Make("receive", txlock, {portMAX_DELAY})))
  @@ (emac :> [Free(Make("receive", isrsem, {portMAX_DELAY})
                      \cup Make("receive", txlock, {portMAX_DELAY}))
               EXCEPT ![txlock] = Make("receive", mem, {portMAX_DELAY})
                                    \cup Make("send", descs, {0})])
  @@ (server :> Free(Make("receive", mem, {portMAX_DELAY})))

MCPrograms == {Exchange, Compete, Press, Clean}
=============================================================================
