------------------------ MODULE StorageItems_proofs ------------------------
(* Lemmas about items and the requests that update them. *)
EXTENDS StorageItems, TLAPS

\* Applying a request to items gives items.
LEMMA ApplyType ==
  ASSUME NEW req \in Request, NEW items \in Items
  PROVE  Apply(req, items) \in Items
  BY DEF Request, Items, Apply

\* An empty request changes nothing.
LEMMA ApplyNothing ==
  ASSUME NEW items \in Items
  PROVE  Apply(NoUpdate, items) = items
  BY DEF Items, Apply, NoUpdate, NoItems

\* A request that touches nothing is the empty one, and it is a request.
LEMMA NothingTouched ==
  /\ NoUpdate \in Request
  /\ Touched(NoUpdate) = {}
  /\ \A req \in Request : Touched(req) = {} => req = NoUpdate
  BY DEF Request, Items, NoItems, NoUpdate, Touched

\* A key that a request does not touch keeps its value; one that it touches
\* gets a value that does not depend on the one it had.
LEMMA ApplyPointwise ==
  ASSUME NEW req \in Request, NEW items \in Items, NEW other \in Items,
         NEW k \in Key
  PROVE  /\ k \notin Touched(req) => Apply(req, items)[k] = items[k]
         /\ k \in Touched(req) => Apply(req, items)[k] = Apply(req, other)[k]
         /\ items[k] = other[k] => Apply(req, items)[k] = Apply(req, other)[k]
  BY DEF Request, Items, Apply, Touched

\* A new write is noted in the request, and hides an older one of its key.
LEMMA InsertNoted ==
  ASSUME NEW req \in Request, NEW k \in Key, NEW v \in Value
  PROVE  /\ PendingInsert(req, k, v) \in Request
         /\ Touched(PendingInsert(req, k, v)) = Touched(req) \cup {k}
         /\ \A items \in Items :
              Apply(PendingInsert(req, k, v), items) =
                [Apply(req, items) EXCEPT ![k] = v]
<1> v # NoValue
  BY NoValueAssumption
<1>1. PendingInsert(req, k, v) \in Request
  BY DEF PendingInsert, Request, Items
<1>2. Touched(PendingInsert(req, k, v)) = Touched(req) \cup {k}
  BY DEF PendingInsert, Request, Items, Touched
<1>3. ASSUME NEW items \in Items
      PROVE  Apply(PendingInsert(req, k, v), items) =
               [Apply(req, items) EXCEPT ![k] = v]
  BY DEF PendingInsert, Request, Items, Apply
<1> QED BY <1>1, <1>2, <1>3

LEMMA DeleteNoted ==
  ASSUME NEW req \in Request, NEW k \in Key
  PROVE  /\ PendingDelete(req, k) \in Request
         /\ Touched(PendingDelete(req, k)) = Touched(req) \cup {k}
         /\ \A items \in Items :
              Apply(PendingDelete(req, k), items) =
                [Apply(req, items) EXCEPT ![k] = NoValue]
<1>1. PendingDelete(req, k) \in Request
  BY DEF PendingDelete, Request, Items
<1>2. Touched(PendingDelete(req, k)) = Touched(req) \cup {k}
  BY DEF PendingDelete, Request, Items, Touched
<1>3. ASSUME NEW items \in Items
      PROVE  Apply(PendingDelete(req, k), items) =
               [Apply(req, items) EXCEPT ![k] = NoValue]
  BY DEF PendingDelete, Request, Items, Apply
<1> QED BY <1>1, <1>2, <1>3
=============================================================================
