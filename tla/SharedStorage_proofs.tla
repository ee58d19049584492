------------------------ MODULE SharedStorage_proofs ------------------------
(***************************************************************************)
(* Windows agree with the main process when nothing is on its way: for any *)
(* windows, keys and values, and any number of writes and openings.        *)
(***************************************************************************)
EXTENDS SharedStorage, StorageItems_proofs, TLAPS

(***************************************************************************)
(* The messages on their way to one window.                                *)
(***************************************************************************)

\* Some message of q names key k.
Mentions(q, k) == \E i \in 1..Len(q) : k \in q[i].keys

\* The last message of q that names k, if there is one, gives it value v.
EndsWith(q, k, v) ==
  \A i \in 1..Len(q) :
    k \in q[i].keys /\ (\A j \in 1..Len(q) : j > i => k \notin q[j].keys)
      => q[i].items[k] = v

\* The request r and the messages q of a window that is waiting for an
\* answer, or is not.
OneAtATime(waiting, r, q) ==
  /\ \A i, j \in 1..Len(q) : q[i].type = "updated" /\ q[j].type = "updated" => i = j
  /\ waiting <=> r # NoUpdate \/ \E i \in 1..Len(q) : q[i].type = "updated"
  /\ ~(r # NoUpdate /\ \E i \in 1..Len(q) : q[i].type = "updated")

LEMMA AppendElements ==
  ASSUME NEW q \in Seq(Message), NEW m \in Message
  PROVE  /\ Append(q, m) \in Seq(Message)
         /\ Len(Append(q, m)) = Len(q) + 1
         /\ \A i \in 1..Len(q) : Append(q, m)[i] = q[i]
         /\ Append(q, m)[Len(q) + 1] = m
         /\ Len(q) \in Nat
  OBVIOUS

LEMMA TailElements ==
  ASSUME NEW q \in Seq(Message), q # <<>>
  PROVE  /\ Tail(q) \in Seq(Message)
         /\ Head(q) \in Message
         /\ Head(q) = q[1]
         /\ Len(q) \in Nat \ {0}
         /\ Len(Tail(q)) = Len(q) - 1
         /\ \A i \in 1..Len(Tail(q)) : Tail(q)[i] = q[i + 1]
  OBVIOUS

\* A message that names k becomes the last one; another changes nothing.
LEMMA AppendNames ==
  ASSUME NEW q \in Seq(Message), NEW m \in Message, NEW k \in Key, k \in m.keys
  PROVE  Mentions(Append(q, m), k) /\ EndsWith(Append(q, m), k, m.items[k])
<1>1. Mentions(Append(q, m), k)
  BY AppendElements DEF Mentions
<1>2. EndsWith(Append(q, m), k, m.items[k])
  <2> SUFFICES ASSUME NEW i \in 1..Len(Append(q, m)),
                      \A j \in 1..Len(Append(q, m)) :
                        j > i => k \notin Append(q, m)[j].keys
               PROVE  Append(q, m)[i].items[k] = m.items[k]
    BY DEF EndsWith
  <2>1. i = Len(q) + 1
    BY AppendElements
  <2> QED BY <2>1, AppendElements
<1> QED BY <1>1, <1>2

LEMMA AppendOther ==
  ASSUME NEW q \in Seq(Message), NEW m \in Message, NEW k \in Key, NEW v,
         k \notin m.keys
  PROVE  /\ Mentions(Append(q, m), k) => Mentions(q, k)
         /\ EndsWith(q, k, v) => EndsWith(Append(q, m), k, v)
<1>1. ASSUME Mentions(Append(q, m), k) PROVE Mentions(q, k)
  <2>1. PICK i \in 1..Len(Append(q, m)) : k \in Append(q, m)[i].keys
    BY <1>1 DEF Mentions
  <2>2. i \in 1..Len(q)
    BY <2>1, AppendElements
  <2> QED BY <2>1, <2>2, AppendElements DEF Mentions
<1>2. ASSUME EndsWith(q, k, v) PROVE EndsWith(Append(q, m), k, v)
  <2> SUFFICES ASSUME NEW i \in 1..Len(Append(q, m)),
                      k \in Append(q, m)[i].keys,
                      \A j \in 1..Len(Append(q, m)) :
                        j > i => k \notin Append(q, m)[j].keys
               PROVE  Append(q, m)[i].items[k] = v
    BY DEF EndsWith
  <2>1. i \in 1..Len(q)
    BY AppendElements
  <2>2. \A j \in 1..Len(q) : j \in 1..Len(Append(q, m)) /\ Append(q, m)[j] = q[j]
    BY AppendElements
  <2>3. k \in q[i].keys /\ \A j \in 1..Len(q) : j > i => k \notin q[j].keys
    BY <2>1, <2>2
  <2> QED BY <1>2, <2>1, <2>2, <2>3 DEF EndsWith
<1> QED BY <1>1, <1>2

\* Taking the first message away.
LEMMA TailNames ==
  ASSUME NEW q \in Seq(Message), q # <<>>, NEW k \in Key, NEW v,
         EndsWith(q, k, v)
  PROVE  /\ EndsWith(Tail(q), k, v)
         /\ ~Mentions(Tail(q), k) =>
              IF k \in Head(q).keys THEN Head(q).items[k] = v
              ELSE ~Mentions(q, k)
<1>1. EndsWith(Tail(q), k, v)
  <2> SUFFICES ASSUME NEW i \in 1..Len(Tail(q)), k \in Tail(q)[i].keys,
                      \A j \in 1..Len(Tail(q)) : j > i => k \notin Tail(q)[j].keys
               PROVE  Tail(q)[i].items[k] = v
    BY DEF EndsWith
  <2>1. i + 1 \in 1..Len(q) /\ Tail(q)[i] = q[i + 1]
    BY TailElements
  <2>2. ASSUME NEW j \in 1..Len(q), j > i + 1 PROVE k \notin q[j].keys
    <3>1. j - 1 \in 1..Len(Tail(q)) /\ j - 1 > i /\ Tail(q)[j - 1] = q[(j - 1) + 1]
      BY <2>2, TailElements
    <3>2. (j - 1) + 1 = j
      OBVIOUS
    <3> QED BY <3>1, <3>2
  <2> QED BY <2>1, <2>2 DEF EndsWith
<1>2. ASSUME ~Mentions(Tail(q), k), NEW j \in 1..Len(q), j > 1
      PROVE  k \notin q[j].keys
  <2>1. j - 1 \in 1..Len(Tail(q)) /\ Tail(q)[j - 1] = q[(j - 1) + 1]
    BY <1>2, TailElements
  <2>2. (j - 1) + 1 = j
    OBVIOUS
  <2> QED BY <1>2, <2>1, <2>2 DEF Mentions
<1>3. 1 \in 1..Len(q) /\ Head(q) = q[1]
  BY TailElements
<1>4. ASSUME ~Mentions(Tail(q), k), k \in Head(q).keys PROVE Head(q).items[k] = v
  BY <1>2, <1>3, <1>4 DEF EndsWith
<1>5. ASSUME ~Mentions(Tail(q), k), k \notin Head(q).keys PROVE ~Mentions(q, k)
  <2> SUFFICES ASSUME NEW i \in 1..Len(q) PROVE k \notin q[i].keys
    BY DEF Mentions
  <2>1. CASE i = 1
    BY <2>1, <1>3, <1>5
  <2>2. CASE i > 1
    BY <2>2, <1>2, <1>5
  <2> QED BY <2>1, <2>2
<1> QED BY <1>1, <1>4, <1>5

\* The answer to a request is sent when the request is taken; a message of
\* another type makes no difference.
LEMMA AnswerSent ==
  ASSUME NEW q \in Seq(Message), NEW m \in Message, NEW waiting \in BOOLEAN,
         NEW r, OneAtATime(waiting, r, q)
  PROVE  /\ m.type # "updated" => OneAtATime(waiting, r, Append(q, m))
         /\ m.type = "updated" /\ r # NoUpdate =>
              OneAtATime(waiting, NoUpdate, Append(q, m))
<1> DEFINE p == Append(q, m)
<1>1. /\ Len(p) = Len(q) + 1 /\ Len(q) \in Nat
      /\ \A i \in 1..Len(q) : p[i] = q[i]
      /\ p[Len(q) + 1] = m
      /\ \A i \in 1..Len(p) : i \in 1..Len(q) \/ i = Len(q) + 1
      /\ \A i \in 1..Len(q) : i \in 1..Len(p)
      /\ Len(q) + 1 \in 1..Len(p)
  BY AppendElements
<1> HIDE DEF p
<1>2. ASSUME m.type # "updated" PROVE OneAtATime(waiting, r, p)
  BY <1>1, <1>2 DEF OneAtATime
<1>3. ASSUME m.type = "updated", r # NoUpdate PROVE OneAtATime(waiting, NoUpdate, p)
  <2>1. \A i \in 1..Len(q) : q[i].type # "updated"
    BY <1>3 DEF OneAtATime
  <2>2. waiting
    BY <1>3 DEF OneAtATime
  <2> QED BY <1>1, <1>3, <2>1, <2>2 DEF OneAtATime
<1> QED BY <1>2, <1>3 DEF p

LEMMA AnswerReceived ==
  ASSUME NEW q \in Seq(Message), q # <<>>, NEW waiting \in BOOLEAN, NEW r,
         OneAtATime(waiting, r, q)
  PROVE  OneAtATime(waiting /\ Head(q).type # "updated", r, Tail(q))
<1> DEFINE p == Tail(q)
<1>1. /\ Head(q) = q[1] /\ 1 \in 1..Len(q)
      /\ \A i \in 1..Len(p) : i + 1 \in 1..Len(q) /\ p[i] = q[i + 1] /\ i + 1 # 1
      /\ \A i, j \in 1..Len(p) : i + 1 = j + 1 => i = j
  BY TailElements
<1>2. \A i \in 1..Len(q) : i = 1 \/ (i - 1 \in 1..Len(p) /\ p[i - 1] = q[i])
  <2> SUFFICES ASSUME NEW i \in 1..Len(q), i # 1
               PROVE  i - 1 \in 1..Len(p) /\ p[i - 1] = q[i]
    OBVIOUS
  <2>1. i - 1 \in 1..Len(p) /\ (i - 1) + 1 = i
    BY TailElements
  <2> QED BY <2>1, <1>1
<1> HIDE DEF p
<1>3. \A i, j \in 1..Len(p) : p[i].type = "updated" /\ p[j].type = "updated" => i = j
  BY <1>1 DEF OneAtATime
<1>4. CASE Head(q).type = "updated"
  <2>1. \A i \in 1..Len(p) : p[i].type # "updated"
    BY <1>1, <1>4 DEF OneAtATime
  <2>2. r = NoUpdate
    BY <1>1, <1>4 DEF OneAtATime
  <2> QED BY <1>3, <1>4, <2>1, <2>2 DEF OneAtATime, p
<1>5. CASE Head(q).type # "updated"
  <2>1. (\E i \in 1..Len(q) : q[i].type = "updated")
          <=> (\E i \in 1..Len(p) : p[i].type = "updated")
    <3>1. \A i \in 1..Len(p) : i + 1 \in 1..Len(q) /\ p[i] = q[i + 1]
      BY <1>1
    <3>2. \A i \in 1..Len(q) : q[i].type = "updated" => i # 1
      BY <1>1, <1>5
    <3>3. ASSUME NEW i \in 1..Len(q), q[i].type = "updated"
          PROVE  \E j \in 1..Len(p) : p[j].type = "updated"
      <4>1. i - 1 \in 1..Len(p) /\ p[i - 1] = q[i]
        BY <1>2, <3>2, <3>3
      <4> QED
        BY <3>3, <4>1
    <3> QED
      BY <3>1, <3>3
  <2> QED BY <1>3, <1>5, <2>1 DEF OneAtATime, p
<1> QED BY <1>4, <1>5

(***************************************************************************)
(* The inductive invariant.                                                *)
(***************************************************************************)

\* A window that is not open has sent no request, and one that does not
\* listen yet is sent nothing.
Unopened ==
  \A w \in Window :
    /\ status[w] # "open" => pending[w] = NoUpdate /\ toMain[w] = NoUpdate
    /\ ~Subscribed(w) => toWindow[w] = <<>>

\* The answer to getItems has all the items.
WholeSnapshot ==
  \A w \in Window : \A i \in 1..Len(toWindow[w]) :
    toWindow[w][i].type = "items" => toWindow[w][i].keys = Key

\* Unless an event about k is still due, the last message about k on its way
\* to a window has the value of the main process.
LastIsCurrent ==
  \A w \in Window, k \in Key :
    k \notin changed => EndsWith(toWindow[w], k, items[k])

\* Without such a message an open window has the value of the main process,
\* or the one the main process will have when it has all of the window's
\* requests.
Accounted ==
  \A w \in Window, k \in Key :
    status[w] = "open" /\ k \notin changed /\ ~Mentions(toWindow[w], k) =>
      cache[w][k] \in {items[k], Apply(pending[w], Apply(toMain[w], items))[k]}

Requests == \A w \in Window : OneAtATime(updating[w], toMain[w], toWindow[w])

IInv ==
  /\ TypeOK
  /\ Unopened
  /\ WholeSnapshot
  /\ LastIsCurrent
  /\ Accounted
  /\ Requests

LEMMA Nothing == NoItems \in Items /\ NoUpdate \in Request /\ <<>> \in Seq(Message)
  BY NothingTouched DEF NoItems, Items

LEMMA InitInvariant == Init => IInv
<1> SUFFICES ASSUME Init PROVE IInv
  OBVIOUS
<1> USE DEF Init
<1>1. TypeOK
  BY Nothing DEF TypeOK, Status
<1>2. Unopened
  BY DEF Unopened, Subscribed
<1>3. WholeSnapshot /\ LastIsCurrent
  BY DEF WholeSnapshot, LastIsCurrent, EndsWith
<1>4. Accounted
  BY DEF Accounted
<1>5. Requests
  BY DEF Requests, OneAtATime
<1> QED BY <1>1, <1>2, <1>3, <1>4, <1>5 DEF IInv

(***************************************************************************)
(* One lemma per kind of step.                                             *)
(***************************************************************************)

\* Steps of a window that change how far it is and no more.
LEMMA StatusInvariant ==
  ASSUME IInv, NEW w \in Window, NEW s \in Status \ {"open"}, status[w] # "open",
         ~Subscribed(w) \/ s \in {"listening", "loading"},
         status' = [status EXCEPT ![w] = s],
         opens' \in Nat,
         UNCHANGED <<mainVars, cache, pending, updating, channelVars, last,
                     writes, mainWrites>>
  PROVE  IInv'
<1> USE DEF IInv, mainVars, channelVars
<1>1. TypeOK'
  BY DEF TypeOK
<1>2. Unopened'
  BY DEF Unopened, Subscribed, TypeOK
<1>3. (WholeSnapshot /\ LastIsCurrent)'
  BY DEF WholeSnapshot, LastIsCurrent, EndsWith
<1>4. Accounted'
  BY DEF Accounted, Mentions, TypeOK
<1>5. Requests'
  BY DEF Requests, OneAtATime
<1> QED BY <1>1, <1>2, <1>3, <1>4, <1>5

LEMMA OpenInvariant == ASSUME IInv, NEW w \in Window, Open(w) PROVE IInv'
<1>1. opens' \in Nat
  BY DEF Open, IInv, TypeOK
<1>2. "opening" \in Status \ {"open"} /\ status[w] # "open" /\ ~Subscribed(w)
  BY DEF Open, Status, Subscribed
<1> QED BY <1>1, <1>2, StatusInvariant DEF Open

LEMMA ListenInvariant == ASSUME IInv, NEW w \in Window, Listen(w) PROVE IInv'
<1>1. opens' \in Nat
  BY DEF Listen, IInv, TypeOK, bounds
<1>2. "listening" \in Status \ {"open"} /\ status[w] # "open"
  BY DEF Listen, Status
<1> QED BY <1>1, <1>2, StatusInvariant DEF Listen, bounds

\* The snapshot is what the main process has now.
LEMMA GetItemsInvariant == ASSUME IInv, NEW w \in Window, GetItems(w) PROVE IInv'
<1> USE DEF IInv, GetItems, mainVars, bounds
<1> DEFINE q == toWindow[w]
<1>1. q \in Seq(Message) /\ Snapshot \in Message /\ items \in Items
  BY DEF TypeOK, Snapshot, Message
<1>2. toWindow' = [toWindow EXCEPT ![w] = Append(q, Snapshot)]
      /\ Append(q, Snapshot) \in Seq(Message) /\ toWindow'[w] = Append(q, Snapshot)
  BY <1>1 DEF TypeOK
<1>3. TypeOK'
  BY <1>2 DEF TypeOK, Status
<1>4. Unopened'
  BY <1>2 DEF Unopened, Subscribed, TypeOK
<1>5. WholeSnapshot'
  <2>1. \A i \in 1..Len(Append(q, Snapshot)) :
          Append(q, Snapshot)[i].type = "items" => Append(q, Snapshot)[i].keys = Key
    BY <1>1, AppendElements DEF WholeSnapshot, Snapshot
  <2> QED BY <1>2, <2>1 DEF WholeSnapshot, TypeOK
<1>6. LastIsCurrent'
  <2>1. \A k \in Key : EndsWith(Append(q, Snapshot), k, items[k])
    BY <1>1, AppendNames DEF Snapshot
  <2> HIDE DEF q
  <2> QED BY <1>2, <2>1 DEF LastIsCurrent, TypeOK
<1>7. Accounted'
  BY <1>2 DEF Accounted, TypeOK
<1>8. Requests'
  <2>1. updating[w] \in BOOLEAN /\ OneAtATime(updating[w], toMain[w], q)
    BY DEF TypeOK, Requests
  <2>2. Snapshot.type # "updated"
    BY DEF Snapshot
  <2>3. OneAtATime(updating[w], toMain[w], Append(q, Snapshot))
    BY <1>1, <2>1, <2>2, AnswerSent
  <2> HIDE DEF q
  <2> QED BY <1>2, <2>3 DEF Requests, TypeOK
<1> QED BY <1>3, <1>4, <1>5, <1>6, <1>7, <1>8

\* Whoever leaves takes what was on its way along.
LEMMA LeaveInvariant == ASSUME IInv, NEW w \in Window, Leave(w) PROVE IInv'
<1> USE DEF IInv, Leave, mainVars, bounds
<1>1. TypeOK'
  BY Nothing DEF TypeOK, Status
<1>2. Unopened'
  BY DEF Unopened, Subscribed, TypeOK
<1>3. WholeSnapshot'
  BY DEF WholeSnapshot, TypeOK
<1>4. LastIsCurrent'
  BY DEF LastIsCurrent, EndsWith, TypeOK
<1>5. Accounted'
  BY DEF Accounted, Mentions, TypeOK
<1>6. Requests'
  <2>1. OneAtATime(FALSE, NoUpdate, <<>>)
    BY DEF OneAtATime
  <2> QED BY <2>1 DEF Requests, TypeOK
<1> QED BY <1>1, <1>2, <1>3, <1>4, <1>5, <1>6

\* A write of a window that its cache takes: the request r notes it.
LEMMA WriteInvariant ==
  ASSUME IInv, NEW w \in Window, NEW k \in Key, NEW v \in Value \cup {NoValue},
         NEW r \in Request,
         \A its \in Items :
           Apply(r, its) = [Apply(pending[w], its) EXCEPT ![k] = v],
         status[w] = "open",
         cache' = [cache EXCEPT ![w][k] = v],
         pending' = [pending EXCEPT ![w] = r],
         NoteStore(k, v)
  PROVE  IInv'
<1> USE DEF IInv, NoteStore, mainVars, channelVars
<1>1. cache'[w] = [cache[w] EXCEPT ![k] = v] /\ cache[w] \in Items
  BY DEF TypeOK
<1>2. TypeOK'
  <2>1. writes' \in Nat
    BY DEF TypeOK
  <2>2. last' \in Items /\ [cache[w] EXCEPT ![k] = v] \in Items
    BY <1>1 DEF TypeOK, Items
  <2>3. cache' \in [Window -> Items]
    BY <2>2 DEF TypeOK
  <2> QED BY <2>1, <2>2, <2>3 DEF TypeOK
<1>3. Unopened'
  BY DEF Unopened, Subscribed, TypeOK
<1>4. (WholeSnapshot /\ LastIsCurrent /\ Requests)'
  BY DEF WholeSnapshot, LastIsCurrent, EndsWith, Requests, OneAtATime
<1>5. Accounted'
  <2> SUFFICES ASSUME NEW u \in Window, NEW j \in Key, status[u] = "open",
                      j \notin changed, ~Mentions(toWindow[u], j)
               PROVE  cache'[u][j] \in {items[j],
                        Apply(pending'[u], Apply(toMain[u], items))[j]}
    BY DEF Accounted, Mentions
  <2>1. cache[u][j] \in {items[j], Apply(pending[u], Apply(toMain[u], items))[j]}
    BY DEF Accounted
  <2>2. CASE u # w
    BY <2>1, <2>2 DEF TypeOK
  <2>3. CASE u = w
    <3>1. Apply(toMain[w], items) \in Items
      BY ApplyType DEF TypeOK
    <3>2. Apply(pending[w], Apply(toMain[w], items)) \in Items
      BY <3>1, ApplyType DEF TypeOK
    <3>3. Apply(r, Apply(toMain[w], items)) =
            [Apply(pending[w], Apply(toMain[w], items)) EXCEPT ![k] = v]
      BY <3>1
    <3>4. pending'[w] = r
      BY DEF TypeOK
    <3> HIDE DEF IInv
    <3> QED BY <1>1, <2>1, <2>3, <3>2, <3>3, <3>4 DEF Items
  <2> QED BY <2>2, <2>3
<1> QED BY <1>2, <1>3, <1>4, <1>5

\* A write that the cache has already changes nothing.
LEMMA SameWriteInvariant ==
  ASSUME IInv, NEW k \in Key, NEW v \in Value \cup {NoValue},
         UNCHANGED <<cache, pending>>, NoteStore(k, v)
  PROVE  IInv'
<1> USE DEF IInv, NoteStore, mainVars, channelVars
<1>1. TypeOK'
  <2>1. writes' \in Nat
    BY DEF TypeOK
  <2>2. last' \in Items
    BY DEF TypeOK, Items
  <2> QED BY <2>1, <2>2 DEF TypeOK
<1>2. (Unopened /\ WholeSnapshot /\ LastIsCurrent /\ Requests)'
  BY DEF Unopened, Subscribed, WholeSnapshot, LastIsCurrent, EndsWith, Requests,
         OneAtATime
<1>3. Accounted'
  BY DEF Accounted, Mentions
<1> QED BY <1>1, <1>2, <1>3

LEMMA SetItemInvariant ==
  ASSUME IInv, NEW w \in Window, NEW k \in Key, NEW v \in Value, SetItem(w, k, v)
  PROVE  IInv'
<1>1. pending[w] \in Request
  BY DEF IInv, TypeOK
<1>2. /\ PendingInsert(pending[w], k, v) \in Request
      /\ \A its \in Items : Apply(PendingInsert(pending[w], k, v), its) =
           [Apply(pending[w], its) EXCEPT ![k] = v]
  BY <1>1, InsertNoted
<1>3. CASE cache[w][k] # v
  BY <1>2, <1>3, WriteInvariant DEF SetItem
<1>4. CASE cache[w][k] = v
  BY <1>4, SameWriteInvariant DEF SetItem
<1> QED BY <1>3, <1>4

LEMMA DeleteItemInvariant ==
  ASSUME IInv, NEW w \in Window, NEW k \in Key, DeleteItem(w, k)
  PROVE  IInv'
<1>1. pending[w] \in Request
  BY DEF IInv, TypeOK
<1>2. /\ PendingDelete(pending[w], k) \in Request
      /\ \A its \in Items : Apply(PendingDelete(pending[w], k), its) =
           [Apply(pending[w], its) EXCEPT ![k] = NoValue]
  BY <1>1, DeleteNoted
<1>3. CASE cache[w][k] # NoValue
  BY <1>2, <1>3, WriteInvariant DEF DeleteItem
<1>4. CASE cache[w][k] = NoValue
  BY <1>4, SameWriteInvariant DEF DeleteItem
<1> QED BY <1>3, <1>4

\* What was pending is on its way; nothing else was.
LEMMA SendUpdateInvariant ==
  ASSUME IInv, NEW w \in Window, SendUpdate(w)
  PROVE  IInv'
<1> USE DEF IInv, SendUpdate, mainVars, bounds
<1>1. toMain[w] = NoUpdate
  BY DEF Requests, OneAtATime
<1>2. pending[w] # NoUpdate
  BY NothingTouched DEF TypeOK
<1>3. TypeOK'
  BY NothingTouched DEF TypeOK
<1>4. Unopened'
  BY <1>2 DEF Unopened, Subscribed, TypeOK
<1>5. (WholeSnapshot /\ LastIsCurrent)'
  BY DEF WholeSnapshot, LastIsCurrent, EndsWith
<1>6. Accounted'
  <2>1. /\ Apply(toMain[w], items) = items
        /\ Apply(NoUpdate, Apply(pending[w], items)) = Apply(pending[w], items)
    BY <1>1, ApplyNothing, ApplyType DEF TypeOK
  <2>2. pending'[w] = NoUpdate /\ toMain'[w] = pending[w]
        /\ \A u \in Window \ {w} : pending'[u] = pending[u] /\ toMain'[u] = toMain[u]
    BY DEF TypeOK
  <2> QED BY <2>1, <2>2 DEF Accounted, Mentions
<1>7. Requests'
  <2>1. OneAtATime(TRUE, pending[w], toWindow[w])
    BY <1>1, <1>2 DEF Requests, OneAtATime
  <2> QED BY <2>1 DEF Requests, TypeOK
<1> QED BY <1>3, <1>4, <1>5, <1>6, <1>7

\* The window takes the next message.
LEMMA ReceiveInvariant ==
  ASSUME IInv, NEW w \in Window, Receive(w)
  PROVE  IInv'
<1> DEFINE q == toWindow[w]
           m == Head(q)
<1>0. q \in Seq(Message) /\ q # <<>> /\ m \in Message /\ cache[w] \in Items
  BY TailElements DEF IInv, TypeOK, Receive
<1>1. /\ toWindow' = [toWindow EXCEPT ![w] = Tail(q)]
      /\ cache' = [cache EXCEPT ![w] = Accept(w, m)]
      /\ status' = [status EXCEPT ![w] = IF m.type = "items" THEN "open" ELSE @]
      /\ updating' = [updating EXCEPT ![w] = @ /\ m.type # "updated"]
      /\ UNCHANGED <<items, changed, pending, toMain, last, writes, mainWrites, opens>>
  BY DEF Receive, mainVars, bounds
<1>2. TypeOK'
  <2>1. Accept(w, m) \in Items
    BY <1>0 DEF Accept, Message, Items
  <2>2. Tail(q) \in Seq(Message)
    BY <1>0, TailElements
  <2> HIDE DEF q, m
  <2> QED BY <1>1, <2>1, <2>2 DEF IInv, TypeOK, Status
<1>3. Subscribed(w)
  BY <1>0 DEF IInv, Unopened
<1>4. Unopened'
  <2> HIDE DEF q, m
  <2> QED BY <1>1, <1>3 DEF IInv, Unopened, Subscribed, TypeOK
<1>5. WholeSnapshot'
  <2>1. \A i \in 1..Len(Tail(q)) : Tail(q)[i] = q[i + 1] /\ i + 1 \in 1..Len(q)
    BY <1>0, TailElements
  <2>2. \A i \in 1..Len(Tail(q)) : Tail(q)[i].type = "items" => Tail(q)[i].keys = Key
    BY <2>1 DEF IInv, WholeSnapshot
  <2> HIDE DEF q, m
  <2> QED BY <1>1, <2>2 DEF IInv, WholeSnapshot, TypeOK
<1>6. ASSUME NEW k \in Key, k \notin changed
      PROVE  /\ EndsWith(Tail(q), k, items[k])
             /\ ~Mentions(Tail(q), k) =>
                  IF k \in m.keys THEN m.items[k] = items[k] ELSE ~Mentions(q, k)
  <2>1. EndsWith(q, k, items[k])
    BY <1>6 DEF IInv, LastIsCurrent
  <2> QED BY <1>0, <2>1, TailNames
<1>7. LastIsCurrent'
  <2> HIDE DEF q, m
  <2> QED BY <1>1, <1>6 DEF IInv, LastIsCurrent, TypeOK
<1>8. Accounted'
  <2> SUFFICES ASSUME NEW u \in Window, NEW k \in Key, status'[u] = "open",
                      k \notin changed, ~Mentions(toWindow'[u], k)
               PROVE  cache'[u][k] \in {items[k],
                        Apply(pending[u], Apply(toMain[u], items))[k]}
    BY <1>1 DEF Accounted
  <2>1. CASE u # w
    <3>1. status'[u] = status[u] /\ toWindow'[u] = toWindow[u] /\ cache'[u] = cache[u]
      BY <1>1, <2>1 DEF IInv, TypeOK
    <3> QED BY <3>1 DEF IInv, Accounted
  <2>2. CASE u = w
    <3>1. toWindow'[w] = Tail(q) /\ cache'[w] = Accept(w, m)
      BY <1>1 DEF IInv, TypeOK
    <3>2. cache'[w][k] = IF k \in m.keys THEN m.items[k] ELSE cache[w][k]
      BY <3>1 DEF Accept
    <3>3. CASE k \in m.keys
      BY <1>6, <2>2, <3>1, <3>2, <3>3
    <3>4. CASE k \notin m.keys
      <4>1. ~Mentions(q, k)
        BY <1>6, <2>2, <3>1, <3>4
      <4>2. m.type # "items"
        BY <1>0, <3>4, TailElements DEF IInv, WholeSnapshot
      <4>3. status[w] = "open"
        BY <1>1, <2>2, <4>2 DEF IInv, TypeOK
      <4> QED BY <2>2, <3>2, <3>4, <4>1, <4>3 DEF IInv, Accounted
    <3> QED BY <3>3, <3>4
  <2> QED BY <2>1, <2>2
<1>9. Requests'
  <2>1. updating[w] \in BOOLEAN /\ OneAtATime(updating[w], toMain[w], q)
    BY DEF IInv, TypeOK, Requests
  <2>2. OneAtATime(updating[w] /\ m.type # "updated", toMain[w], Tail(q))
    BY <1>0, <2>1, AnswerReceived
  <2> HIDE DEF q, m
  <2> QED BY <1>1, <2>2 DEF IInv, Requests, TypeOK
<1> QED BY <1>1, <1>2, <1>4, <1>5, <1>7, <1>8, <1>9 DEF IInv

\* A change in the main process leaves the windows' accounts in order: a key
\* whose value changes has an event due.
LEMMA ChangeKeepsLast ==
  ASSUME IInv, NEW new \in Items, ChangeItems(new), NEW k \in Key, k \notin changed'
  PROVE  items'[k] = items[k] /\ k \notin changed
  BY DEF ChangeItems

LEMMA MainStoreInvariant ==
  ASSUME IInv, NEW k \in Key, NEW v \in Value \cup {NoValue}, MainStore(k, v)
  PROVE  IInv'
<1> DEFINE new == [items EXCEPT ![k] = v]
<1>1. items \in Items /\ new \in Items
  BY DEF IInv, TypeOK, Items
<1>2. /\ ChangeItems(new)
      /\ last' = [last EXCEPT ![k] = v]
      /\ mainWrites' = mainWrites + 1
      /\ UNCHANGED <<status, cache, pending, updating, toMain, toWindow, writes, opens>>
  BY DEF MainStore, windowVars, channelVars
<1> HIDE DEF new
<1>3. TypeOK'
  <2>1. mainWrites' \in Nat
    BY <1>2 DEF IInv, TypeOK
  <2>2. last' \in Items
    BY <1>2 DEF IInv, TypeOK, Items
  <2>3. items' \in Items /\ changed' \in SUBSET Key
    BY <1>1, <1>2 DEF IInv, TypeOK, ChangeItems
  <2> QED BY <1>2, <2>1, <2>2, <2>3 DEF IInv, TypeOK
<1>4. (Unopened /\ WholeSnapshot /\ Requests)'
  BY <1>2 DEF IInv, Unopened, Subscribed, WholeSnapshot, Requests, OneAtATime
<1>5. LastIsCurrent'
  BY <1>1, <1>2, ChangeKeepsLast DEF IInv, LastIsCurrent, EndsWith
<1>6. Accounted'
  <2> SUFFICES ASSUME NEW u \in Window, NEW j \in Key, status[u] = "open",
                      j \notin changed', ~Mentions(toWindow[u], j)
               PROVE  cache[u][j] \in {items'[j],
                        Apply(pending[u], Apply(toMain[u], items'))[j]}
    BY <1>2 DEF Accounted
  <2>1. items'[j] = items[j] /\ j \notin changed /\ items' \in Items
    BY <1>1, <1>2, ChangeKeepsLast DEF ChangeItems
  <2>2. toMain[u] \in Request /\ pending[u] \in Request
    BY DEF IInv, TypeOK
  <2>3. /\ Apply(toMain[u], items')[j] = Apply(toMain[u], items)[j]
        /\ Apply(toMain[u], items) \in Items /\ Apply(toMain[u], items') \in Items
    BY <1>1, <2>1, <2>2, ApplyPointwise, ApplyType
  <2>4. Apply(pending[u], Apply(toMain[u], items'))[j] =
          Apply(pending[u], Apply(toMain[u], items))[j]
    BY <2>2, <2>3, ApplyPointwise
  <2> QED BY <2>1, <2>4 DEF IInv, Accounted
<1> QED BY <1>3, <1>4, <1>5, <1>6 DEF IInv

LEMMA HandleUpdateInvariant ==
  ASSUME IInv, NEW w \in Window, HandleUpdate(w)
  PROVE  IInv'
<1> DEFINE new == Apply(toMain[w], items)
           q == toWindow[w]
<1>1. items \in Items /\ toMain[w] \in Request /\ new \in Items
      /\ q \in Seq(Message)
  BY ApplyType DEF IInv, TypeOK
<1>2. /\ ChangeItems(new)
      /\ toMain[w] # NoUpdate
      /\ toMain' = [toMain EXCEPT ![w] = NoUpdate]
      /\ UNCHANGED <<status, cache, pending, updating, last, writes, mainWrites, opens>>
  BY DEF HandleUpdate, windowVars, bounds
<1>3. PICK m \in Message : m.type = "updated" /\ m.keys = {}
        /\ toWindow' = [toWindow EXCEPT ![w] = Append(q, m)]
  BY <1>1 DEF HandleUpdate, Updated, Message
<1>4. status[w] = "open"
  BY <1>2 DEF IInv, Unopened
<1>5. new = Apply(toMain[w], items)
  OBVIOUS
<1> HIDE DEF new, q
<1>6. /\ Append(q, m) \in Seq(Message) /\ toWindow'[w] = Append(q, m)
      /\ \A u \in Window \ {w} : toWindow'[u] = toWindow[u] /\ toMain'[u] = toMain[u]
      /\ toMain'[w] = NoUpdate
  BY <1>1, <1>2, <1>3, AppendElements DEF IInv, TypeOK
<1>7. TypeOK'
  <2>1. items' \in Items /\ changed' \in SUBSET Key
    BY <1>1, <1>2 DEF IInv, TypeOK, ChangeItems
  <2> QED BY <1>2, <1>3, <1>6, <2>1, NothingTouched DEF IInv, TypeOK
<1>8. Unopened'
  BY <1>2, <1>4, <1>6 DEF IInv, Unopened, Subscribed, TypeOK
<1>9. WholeSnapshot'
  <2>1. \A i \in 1..Len(q) : q[i].type = "items" => q[i].keys = Key
    BY DEF IInv, WholeSnapshot, q
  <2>2. \A i \in 1..Len(Append(q, m)) :
          Append(q, m)[i].type = "items" => Append(q, m)[i].keys = Key
    BY <1>1, <1>3, <2>1, AppendElements
  <2>3. \A i \in 1..Len(toWindow'[w]) :
          toWindow'[w][i].type = "items" => toWindow'[w][i].keys = Key
    BY <1>6, <2>2
  <2>4. \A u \in Window \ {w} : \A i \in 1..Len(toWindow'[u]) :
          toWindow'[u][i].type = "items" => toWindow'[u][i].keys = Key
    BY <1>6 DEF IInv, WholeSnapshot
  <2> QED BY <2>3, <2>4 DEF WholeSnapshot
<1>10. LastIsCurrent'
  <2> SUFFICES ASSUME NEW u \in Window, NEW k \in Key, k \notin changed'
               PROVE  EndsWith(toWindow'[u], k, items'[k])
    BY DEF LastIsCurrent
  <2>1. items'[k] = items[k] /\ EndsWith(toWindow[u], k, items[k])
    BY <1>1, <1>2, ChangeKeepsLast DEF IInv, LastIsCurrent
  <2>2. CASE u = w
    BY <1>1, <1>3, <1>6, <2>1, <2>2, AppendOther DEF q
  <2>3. CASE u # w
    BY <1>6, <2>1, <2>3
  <2> QED BY <2>2, <2>3
<1>11. Accounted'
  <2> SUFFICES ASSUME NEW u \in Window, NEW j \in Key, status[u] = "open",
                      j \notin changed', ~Mentions(toWindow'[u], j)
               PROVE  cache[u][j] \in {items'[j],
                        Apply(pending[u], Apply(toMain'[u], items'))[j]}
    BY <1>2 DEF Accounted
  <2>1. items'[j] = items[j] /\ j \notin changed /\ items' \in Items /\ items' = new
    BY <1>1, <1>2, ChangeKeepsLast DEF ChangeItems
  <2>2. toMain[u] \in Request /\ pending[u] \in Request
    BY DEF IInv, TypeOK
  <2>3. ~Mentions(toWindow[u], j)
    <3>1. CASE u # w
      BY <1>6, <3>1
    <3>2. CASE u = w
      <4>1. \A i \in 1..Len(q) : i \in 1..Len(Append(q, m)) /\ Append(q, m)[i] = q[i]
        BY <1>1, AppendElements
      <4> QED BY <1>6, <3>2, <4>1 DEF Mentions, q
    <3> QED BY <3>1, <3>2
  <2>4. cache[u][j] \in {items[j], Apply(pending[u], Apply(toMain[u], items))[j]}
    BY <2>1, <2>3 DEF IInv, Accounted
  <2>5. CASE u = w
    <3>1. Apply(NoUpdate, items') = items'
      BY <2>1, ApplyNothing
    <3>2. Apply(toMain[w], items) = items' /\ toMain'[w] = NoUpdate
      BY <1>5, <1>6, <2>1
    <3> QED BY <2>1, <2>4, <2>5, <3>1, <3>2
  <2>6. CASE u # w
    <3>1. /\ Apply(toMain[u], items')[j] = Apply(toMain[u], items)[j]
          /\ Apply(toMain[u], items) \in Items /\ Apply(toMain[u], items') \in Items
      BY <1>1, <2>1, <2>2, ApplyPointwise, ApplyType
    <3>2. Apply(pending[u], Apply(toMain[u], items'))[j] =
            Apply(pending[u], Apply(toMain[u], items))[j]
      BY <2>2, <3>1, ApplyPointwise
    <3> QED BY <1>6, <2>1, <2>4, <2>6, <3>2
  <2> QED BY <2>5, <2>6
<1>12. Requests'
  <2>1. updating[w] \in BOOLEAN /\ OneAtATime(updating[w], toMain[w], q)
    BY DEF IInv, TypeOK, Requests, q
  <2>2. OneAtATime(updating[w], NoUpdate, Append(q, m))
    BY <1>1, <1>2, <1>3, <2>1, AnswerSent
  <2> QED BY <1>2, <1>6, <2>2 DEF IInv, Requests, TypeOK
<1> QED BY <1>7, <1>8, <1>9, <1>10, <1>11, <1>12 DEF IInv

\* The event about all changed keys has their values of now.
LEMMA DebouncedInvariant ==
  ASSUME IInv, Debounced
  PROVE  IInv'
<1> DEFINE m == Event(changed)
<1>1. m \in Message /\ m.type = "event" /\ m.keys = changed /\ m.items = items
  BY DEF IInv, TypeOK, Event, Message
<1>2. /\ changed' = {}
      /\ toWindow' = [w \in Window |-> IF Subscribed(w) THEN Append(toWindow[w], m)
                                       ELSE toWindow[w]]
      /\ UNCHANGED <<items, status, cache, pending, updating, toMain, last, writes,
                     mainWrites, opens>>
  BY DEF Debounced, windowVars, bounds
<1> HIDE DEF m
<1>3. \A w \in Window : toWindow[w] \in Seq(Message) /\ Append(toWindow[w], m) \in Seq(Message)
  BY <1>1, AppendElements DEF IInv, TypeOK
<1>4. TypeOK'
  BY <1>2, <1>3 DEF IInv, TypeOK
<1>5. Unopened'
  BY <1>2 DEF IInv, Unopened, Subscribed
<1>6. WholeSnapshot'
  <2> SUFFICES ASSUME NEW w \in Window
               PROVE  \A i \in 1..Len(toWindow'[w]) :
                        toWindow'[w][i].type = "items" => toWindow'[w][i].keys = Key
    BY DEF WholeSnapshot
  <2>1. CASE Subscribed(w)
    <3>1. toWindow'[w] = Append(toWindow[w], m)
      BY <1>2, <2>1
    <3> QED BY <1>1, <1>3, <3>1, AppendElements DEF IInv, WholeSnapshot
  <2>2. CASE ~Subscribed(w)
    BY <1>2, <2>2 DEF IInv, WholeSnapshot
  <2> QED BY <2>1, <2>2
<1>7. ASSUME NEW w \in Window, NEW k \in Key
      PROVE  /\ EndsWith(toWindow'[w], k, items[k])
             /\ k \in changed /\ status[w] = "open" => Mentions(toWindow'[w], k)
             /\ ~Mentions(toWindow'[w], k) => ~Mentions(toWindow[w], k)
  <2>1. CASE Subscribed(w) /\ k \in changed
    <3>1. toWindow'[w] = Append(toWindow[w], m)
      BY <1>2, <2>1
    <3> QED BY <1>1, <1>3, <2>1, <3>1, AppendNames
  <2>2. CASE Subscribed(w) /\ k \notin changed
    <3>1. toWindow'[w] = Append(toWindow[w], m)
      BY <1>2, <2>2
    <3>2. EndsWith(toWindow[w], k, items[k])
      BY <2>2 DEF IInv, LastIsCurrent
    <3>3. EndsWith(Append(toWindow[w], m), k, items[k])
      BY <1>1, <1>3, <2>2, <3>2, AppendOther
    <3>4. \A i \in 1..Len(toWindow[w]) :
            i \in 1..Len(Append(toWindow[w], m)) /\ Append(toWindow[w], m)[i] = toWindow[w][i]
      BY <1>1, <1>3, AppendElements
    <3> QED BY <2>2, <3>1, <3>3, <3>4 DEF Mentions
  <2>3. CASE ~Subscribed(w)
    <3>1. toWindow'[w] = <<>> /\ toWindow[w] = <<>> /\ status[w] # "open"
      BY <1>2, <2>3 DEF IInv, Unopened, Subscribed
    <3> QED BY <3>1 DEF EndsWith
  <2> QED BY <2>1, <2>2, <2>3
<1>8. LastIsCurrent'
  BY <1>2, <1>7 DEF LastIsCurrent
<1>9. Accounted'
  BY <1>2, <1>7 DEF IInv, Accounted
<1>10. Requests'
  <2> SUFFICES ASSUME NEW w \in Window
               PROVE  OneAtATime(updating[w], toMain[w], toWindow'[w])
    BY <1>2 DEF Requests
  <2>1. updating[w] \in BOOLEAN /\ OneAtATime(updating[w], toMain[w], toWindow[w])
    BY DEF IInv, TypeOK, Requests
  <2>2. OneAtATime(updating[w], toMain[w], Append(toWindow[w], m))
    BY <1>1, <1>3, <2>1, AnswerSent
  <2> QED BY <1>2, <2>1, <2>2
<1> QED BY <1>4, <1>5, <1>6, <1>8, <1>9, <1>10 DEF IInv

LEMMA StutterInvariant == IInv /\ UNCHANGED vars => IInv'
<1> SUFFICES ASSUME IInv, UNCHANGED vars PROVE IInv'
  OBVIOUS
<1> USE DEF IInv, vars
<1>1. (TypeOK /\ Unopened /\ WholeSnapshot)'
  BY DEF TypeOK, Unopened, Subscribed, WholeSnapshot
<1>2. (LastIsCurrent /\ Accounted /\ Requests)'
  BY DEF LastIsCurrent, Accounted, Requests, EndsWith, Mentions, OneAtATime
<1> QED BY <1>1, <1>2

LEMMA NextInvariant == IInv /\ [Next]_vars => IInv'
<1> SUFFICES ASSUME IInv, [Next]_vars PROVE IInv'
  OBVIOUS
<1>1. ASSUME NEW w \in Window, WindowStep(w) PROVE IInv'
  <2>1. CASE Open(w)
    BY <2>1, OpenInvariant
  <2>2. CASE Leave(w)
    BY <2>2, LeaveInvariant
  <2>3. ASSUME NEW k \in Key, NEW v \in Value, SetItem(w, k, v) PROVE IInv'
    BY <2>3, SetItemInvariant
  <2>4. ASSUME NEW k \in Key, DeleteItem(w, k) PROVE IInv'
    BY <2>4, DeleteItemInvariant
  <2>5. CASE SendUpdate(w)
    BY <2>5, SendUpdateInvariant
  <2>6. CASE Receive(w)
    BY <2>6, ReceiveInvariant
  <2> QED BY <1>1, <2>1, <2>2, <2>3, <2>4, <2>5, <2>6 DEF WindowStep
<1>2. ASSUME NEW w \in Window, MainStep(w) PROVE IInv'
  <2>1. CASE Listen(w)
    BY <2>1, ListenInvariant
  <2>2. CASE GetItems(w)
    BY <2>2, GetItemsInvariant
  <2>3. CASE HandleUpdate(w)
    BY <2>3, HandleUpdateInvariant
  <2> QED BY <1>2, <2>1, <2>2, <2>3 DEF MainStep
<1>3. ASSUME NEW k \in Key, NEW v \in Value \cup {NoValue}, MainStore(k, v) PROVE IInv'
  BY <1>3, MainStoreInvariant
<1>4. CASE Debounced
  BY <1>4, DebouncedInvariant
<1>5. CASE UNCHANGED vars
  BY <1>5, StutterInvariant
<1> QED BY <1>1, <1>2, <1>3, <1>4, <1>5 DEF Next

(***************************************************************************)
(* The theorems.                                                           *)
(***************************************************************************)

\* The inductive invariant holds in every reachable state.
THEOREM Invariance == Spec => []IInv
  BY InitInvariant, NextInvariant, PTL DEF Spec

\* Every variable keeps its type.
THEOREM TypeCorrect == Spec => []TypeOK
<1>1. IInv => TypeOK
  BY DEF IInv
<1> QED BY <1>1, Invariance, PTL

\* A key with nothing on its way has the same value in the window and in the
\* main process, however the writes of the windows and of the main process,
\* their change events and the opening of windows are interleaved.
THEOREM AgreeWhenQuietCorrect == Spec => []AgreeWhenQuiet
<1>1. IInv => AgreeWhenQuiet
  <2> SUFFICES ASSUME IInv, NEW w \in Window, NEW k \in Key, status[w] = "open",
                      ~OnItsWay(w, k)
               PROVE  cache[w][k] = items[k]
    BY DEF AgreeWhenQuiet
  <2>1. k \notin changed /\ k \notin Touched(pending[w]) /\ k \notin Touched(toMain[w])
        /\ ~Mentions(toWindow[w], k)
    BY DEF OnItsWay, Mentions
  <2>2. pending[w] \in Request /\ toMain[w] \in Request /\ items \in Items
    BY DEF IInv, TypeOK
  <2>3. Apply(toMain[w], items) \in Items
    BY <2>2, ApplyType
  <2>4. Apply(toMain[w], items)[k] = items[k]
    BY <2>1, <2>2, ApplyPointwise
  <2>5. Apply(pending[w], Apply(toMain[w], items))[k] = Apply(toMain[w], items)[k]
    BY <2>1, <2>2, <2>3, ApplyPointwise
  <2>6. cache[w][k] \in {items[k], Apply(pending[w], Apply(toMain[w], items))[k]}
    BY <2>1 DEF IInv, Accounted
  <2> QED BY <2>4, <2>5, <2>6
<1> QED BY <1>1, Invariance, PTL

\* A window's requests and the answers to them alternate.
THEOREM OneRequestCorrect == Spec => []OneRequest
<1>1. IInv => OneRequest
  BY DEF IInv, Requests, OneAtATime, OneRequest
<1> QED BY <1>1, Invariance, PTL
=============================================================================
