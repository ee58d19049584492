---------------------------- MODULE StorageItems ----------------------------
(***************************************************************************)
(* The items of a storage and the requests that update them: the maps of   *)
(* class Storage and IUpdateRequest (base/parts/storage/common/storage.ts),*)
(* and what a database does with a request.                                *)
(***************************************************************************)
CONSTANTS
  Key, Value,       \* keys, and the strings stored under them
  NoValue           \* stands for "no entry"

ASSUME NoValueAssumption == NoValue \notin Value

Items == [Key -> Value \cup {NoValue}]
NoItems == [k \in Key |-> NoValue]

\* IUpdateRequest; Storage keeps its pending inserts and deletes as one.
Request == [insert : Items, delete : SUBSET Key]
NoUpdate == [insert |-> NoItems, delete |-> {}]

\* The keys a request names.
Touched(req) == req.delete \cup {k \in Key : req.insert[k] # NoValue}

\* Mutant of PendingInsert: the pending delete of the key is kept.
PendingInsertOnly(req, k, v) == [req EXCEPT !.insert[k] = v]

PendingInsert(req, k, v) ==
  [insert |-> [req.insert EXCEPT ![k] = v], delete |-> req.delete \ {k}]

PendingDelete(req, k) ==
  [insert |-> [req.insert EXCEPT ![k] = NoValue], delete |-> req.delete \cup {k}]

\* Inserts are applied first, then deletes.
Apply(req, items) ==
  [k \in Key |-> IF k \in req.delete THEN NoValue
                 ELSE IF req.insert[k] # NoValue THEN req.insert[k]
                 ELSE items[k]]
=============================================================================
