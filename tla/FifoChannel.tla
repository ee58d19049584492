---------------------------- MODULE FifoChannel ----------------------------
(***************************************************************************)
(* What a message passing protocol (IMessagePassingProtocol of             *)
(* base/parts/ipc/common/ipc.ts) promises to the code above it: a pair of  *)
(* reliable channels, one per direction.  Every message handed to send()   *)
(* at one end is handed to onMessage at the other end once, in order, and  *)
(* nothing else ever is.  PersistentProtocol is shown to implement this    *)
(* over sockets that break.                                                *)
(***************************************************************************)
EXTENDS Naturals, Sequences

CONSTANTS
  Client, Server,   \* the two ends of the channel
  Script            \* Script[e]: the messages end e sends, in order

Ends == {Client, Server}
Peer(e) == IF e = Client THEN Server ELSE Client

VARIABLES
  sent,             \* sent[e]: how many messages of Script[e] were sent
  received          \* received[e]: the messages handed to the code at end e

vars == <<sent, received>>

Init ==
  /\ sent = [e \in Ends |-> 0]
  /\ received = [e \in Ends |-> << >>]

Send(e) ==
  /\ sent[e] < Len(Script[e])
  /\ sent' = [sent EXCEPT ![e] = @ + 1]
  /\ UNCHANGED received

Deliver(e) ==
  /\ Len(received[e]) < sent[Peer(e)]
  /\ received' = [received EXCEPT ![e] =
                    Append(@, Script[Peer(e)][Len(@) + 1])]
  /\ UNCHANGED sent

Next == \E e \in Ends : Send(e) \/ Deliver(e)

Spec == Init /\ [][Next]_vars
=============================================================================
