------------------------------ MODULE Emitter ------------------------------
(***************************************************************************)
(* Class Emitter of base/common/event.ts with EventDeliveryQueuePrivate:   *)
(* listeners that come, go and fire again while an event is delivered.     *)
(*                                                                         *)
(* A delivery is cut where a listener is called: what the listener does    *)
(* before it returns are steps of their own, on a stack of deliveries.     *)
(* Events are numbered by fire().                                          *)
(***************************************************************************)
EXTENDS Naturals, FiniteSets, Sequences, SequencesExt

CONSTANTS
  Listener,   \* subscriptions: each is made once
  MaxEmitted  \* bound: events

ASSUME EmitterBound == MaxEmitted \in Nat

VARIABLES
  listeners,  \* _listeners: undefined, a single one, or a list with holes
  size,       \* _size
  dq,         \* _deliveryQueue: i, end, whether there is a current emitter, value
  stack,      \* the deliveries under way, the innermost last
  emitted,    \* how many events were fired
  on,         \* history: who listens, and who did
  off,
  audience,   \* history: who listened when an event was enqueued
  within,     \* history: the events that waited when an event was fired
  heard,      \* history: the events that a listener was called with
  emptied,    \* history: the last listener went during a delivery to a list
  disposed    \* _disposed

emitterVars == <<listeners, size, dq, stack, emitted, on, off, audience, within, heard,
                 emptied, disposed>>

Undefined == [kind |-> "undefined"]
Single(l) == [kind |-> "single", listener |-> l]
List(s) == [kind |-> "list", list |-> s]
Hole == <<>>

\* A delivery to a list captures the list; next is the event that is enqueued after
\* it, for fire() first delivers what is left of the event before.
Delivery(captured, next) ==
  [captured |-> captured, live |-> captured.kind = "list", calls |-> Hole, next |-> next]

EmitterInit ==
  /\ listeners = Undefined
  /\ size = 0
  /\ dq = [i |-> 0, end |-> 0, current |-> FALSE, value |-> 0]
  /\ stack = <<>>
  /\ emitted = 0
  /\ on = {}
  /\ off = {}
  /\ audience = [e \in 1 .. MaxEmitted |-> {}]
  /\ within = [e \in 1 .. MaxEmitted |-> {}]
  /\ heard = [l \in Listener |-> <<>>]
  /\ emptied = FALSE
  /\ disposed = FALSE

Top == stack[Len(stack)]
WithTop(frame) == [stack EXCEPT ![Len(stack)] = frame]

\* The events that wait in fire() until a delivery before them is over.
Waiting == {stack[k].next : k \in DOMAIN stack} \ {0}

\* The program runs: no delivery, or a listener that was called.
Running == stack # <<>> => Top.calls # Hole

Hears(l) == heard' = [heard EXCEPT ![l] = Append(@, dq'.value)]

\* What a delivery sees: the list of the emitter, as long as it is the one it
\* captured.
Captured(frame) == IF frame.live THEN listeners ELSE frame.captured
Freeze == [k \in DOMAIN stack |->
             [stack[k] EXCEPT !.captured = Captured(stack[k]), !.live = FALSE]]

(***************************************************************************)
(* Subscribing.                                                            *)
(***************************************************************************)
Add(l) ==
  /\ Running
  /\ l \notin on \cup off
  /\ ~disposed
  /\ on' = on \cup {l}
  /\ size' = size + 1
  /\ listeners' = CASE listeners.kind = "undefined" -> Single(l)
                    [] listeners.kind = "single" -> List(<<<<listeners.listener>>, <<l>>>>)
                    [] OTHER -> List(Append(listeners.list, <<l>>))
  /\ UNCHANGED <<dq, stack, emitted, off, audience, within, heard, emptied, disposed>>

\* Compaction moves the listeners to the front, and the indices of the delivery
\* with them.
Compaction(list) ==
  LET after[k \in 0 .. Len(list)] ==
        IF k = 0 THEN [kept |-> <<>>, i |-> dq.i, end |-> dq.end]
        ELSE LET q == after[k - 1]
                 n == Len(q.kept)
             IN CASE list[k] # Hole -> [q EXCEPT !.kept = Append(@, list[k])]
                  [] list[k] = Hole /\ n < q.end ->
                       [q EXCEPT !.end = @ - 1, !.i = IF n < @ THEN @ - 1 ELSE @]
                  [] OTHER -> q
  IN after[Len(list)]

\* Mutant of Adjusted: the place of the delivery in the list stays.
AdjustedEndOnly(compaction) == [dq EXCEPT !.end = compaction.end]

Adjusted(compaction) == [dq EXCEPT !.i = compaction.i, !.end = compaction.end]

RemoveListener(l) ==
  /\ Running
  /\ l \in on
  /\ on' = on \ {l}
  /\ off' = off \cup {l}
  /\ size' = size - 1
  /\ IF size = 1
     THEN /\ listeners' = Undefined
          /\ stack' = Freeze
          /\ emptied' = (emptied \/ dq.current)
          /\ UNCHANGED dq
     ELSE LET sparse == [k \in DOMAIN listeners.list |->
                           IF listeners.list[k] = <<l>> THEN Hole ELSE listeners.list[k]]
              compact == (size - 1) * 2 <= Len(sparse)
          IN /\ listeners' = List(IF compact THEN Compaction(sparse).kept ELSE sparse)
             /\ dq' = IF compact /\ dq.current THEN Adjusted(Compaction(sparse)) ELSE dq
             /\ UNCHANGED <<stack, emptied>>
  /\ UNCHANGED <<emitted, audience, within, heard, disposed>>

\* Mutant of DisposeEmitter: the count of listeners is not reset.
DisposeKeepingSize ==
  /\ Running
  /\ ~disposed
  /\ disposed' = TRUE
  /\ listeners' = Undefined
  /\ stack' = Freeze
  /\ dq' = IF dq.current THEN [dq EXCEPT !.i = dq.end, !.current = FALSE] ELSE dq
  /\ on' = {}
  /\ off' = off \cup on
  /\ UNCHANGED <<size, emitted, audience, within, heard, emptied>>

DisposeEmitter ==
  /\ Running
  /\ ~disposed
  /\ disposed' = TRUE
  /\ listeners' = Undefined
  /\ size' = 0
  /\ stack' = Freeze
  /\ dq' = IF dq.current THEN [dq EXCEPT !.i = dq.end, !.current = FALSE] ELSE dq
  /\ on' = {}
  /\ off' = off \cup on
  /\ UNCHANGED <<emitted, audience, within, heard, emptied>>

(***************************************************************************)
(* Firing.                                                                 *)
(***************************************************************************)
\* The rest of fire(), with the deliveries below it.
Enqueue(below, event, queue) ==
  /\ audience' = [audience EXCEPT ![event] = on]
  /\ CASE listeners.kind = "undefined" -> stack' = below /\ dq' = queue /\ UNCHANGED heard
       [] listeners.kind = "single" ->
            /\ stack' = Append(below, [Delivery(listeners, 0) EXCEPT
                                         !.calls = <<listeners.listener>>])
            /\ dq' = queue
            /\ heard' = [heard EXCEPT ![listeners.listener] = Append(@, event)]
       [] OTHER ->
            /\ stack' = Append(below, Delivery(listeners, 0))
            /\ dq' = [i |-> 0, end |-> Len(listeners.list), current |-> TRUE, value |-> event]
            /\ UNCHANGED heard

\* Without listeners the loop over what is left has nothing to index: it throws, and
\* the listener that fired is over.
FireEvent ==
  /\ Running
  /\ emitted < MaxEmitted
  /\ emitted' = emitted + 1
  /\ within' = [within EXCEPT ![emitted'] = Waiting]
  /\ IF ~dq.current THEN Enqueue(stack, emitted', dq)
     ELSE /\ UNCHANGED <<dq, heard, audience>>
          /\ IF listeners = Undefined /\ dq.i < dq.end
             THEN stack' = WithTop([Top EXCEPT !.calls = Hole])
             ELSE stack' = Append(stack, Delivery(listeners, emitted'))
  /\ UNCHANGED <<listeners, size, on, off, emptied, disposed>>

\* _deliverQueue: the next listener, or the end of the queue.
Deliver ==
  /\ ~Running
  /\ LET seen == Captured(Top)
         entry == IF seen.kind = "list" /\ dq.i < Len(seen.list) THEN seen.list[dq.i + 1]
                  ELSE Hole
         rest == [dq EXCEPT !.i = dq.end, !.current = FALSE]
     IN IF seen.kind # "single" /\ dq.i < dq.end
        THEN /\ dq' = [dq EXCEPT !.i = @ + 1]
             /\ stack' = WithTop([Top EXCEPT !.calls = entry])
             /\ IF entry = Hole THEN UNCHANGED heard ELSE Hears(entry[1])
             /\ UNCHANGED audience
        ELSE IF Top.next = 0
        THEN stack' = Front(stack) /\ dq' = rest /\ UNCHANGED <<heard, audience>>
        ELSE Enqueue(Front(stack), Top.next, rest)
  /\ UNCHANGED <<listeners, size, emitted, on, off, within, emptied, disposed>>

\* The listener returns; one that is alone was called without the queue.
Return ==
  /\ stack # <<>>
  /\ Running
  /\ stack' = IF Top.captured.kind = "single" /\ Top.next = 0 THEN Front(stack)
              ELSE WithTop([Top EXCEPT !.calls = Hole])
  /\ UNCHANGED <<listeners, size, dq, emitted, on, off, audience, within, heard, emptied,
                 disposed>>

EmitterNext ==
  \/ \E l \in Listener : Add(l) \/ RemoveListener(l)
  \/ DisposeEmitter
  \/ FireEvent
  \/ Deliver
  \/ Return

EmitterSpec == EmitterInit /\ [][EmitterNext]_emitterVars

-----------------------------------------------------------------------------
Entry == {Hole} \cup {<<l>> : l \in Listener}
Listeners == {Undefined} \cup [kind : {"single"}, listener : Listener]
               \cup [kind : {"list"}, list : Seq(Entry)]

EmitterTypeOK ==
  /\ listeners \in Listeners
  /\ size = (CASE listeners.kind = "undefined" -> 0
              [] listeners.kind = "single" -> 1
              [] OTHER -> Cardinality({k \in DOMAIN listeners.list : listeners.list[k] # Hole}))
  /\ dq \in [i : Nat, end : Nat, current : BOOLEAN, value : 0 .. MaxEmitted]
  /\ stack \in Seq([captured : Listeners, live : BOOLEAN, calls : Entry,
                    next : 0 .. MaxEmitted])
  /\ emitted \in 0 .. MaxEmitted
  /\ on \subseteq Listener /\ off \subseteq Listener
  /\ audience \in [1 .. MaxEmitted -> SUBSET Listener]
  /\ within \in [1 .. MaxEmitted -> SUBSET (1 .. MaxEmitted)]
  /\ heard \in [Listener -> Seq(1 .. MaxEmitted)]
  /\ emptied \in BOOLEAN /\ disposed \in BOOLEAN

\* What was fired before is heard before, but for an event that waits in fire() for the
\* delivery before it: what a listener fires meanwhile goes first.
Precedes(e, f) == IF e < f THEN e \notin within[f] ELSE f \in within[e]

(***************************************************************************)
(* A listener hears the events that are fired while it listens, once each  *)
(* and in that order, and none is left out: all who still listen have      *)
(* heard every event but those that wait and the one that is delivered,    *)
(* so that fire() returns when all have heard the event, and whoever       *)
(* hears an event has heard those before it.  The lapse of the code: when  *)
(* every listener goes during a delivery, the delivery goes on.            *)
(***************************************************************************)
HeardInOrder ==
  ~emptied =>
    /\ \A l \in Listener :
         /\ \A j, k \in DOMAIN heard[l] : j < k => Precedes(heard[l][j], heard[l][k])
         /\ \A j \in DOMAIN heard[l] : l \in audience[heard[l][j]]
    /\ \A e \in 1 .. emitted : \A l \in audience[e] \cap on :
         \/ Contains(heard[l], e)
         \/ dq.current /\ dq.value = e
         \/ e \in Waiting
    /\ \A l \in on : \A j \in DOMAIN heard[l] : \A e \in 1 .. emitted :
         Precedes(e, heard[l][j]) /\ l \in audience[e] => Contains(heard[l], e)
=============================================================================
