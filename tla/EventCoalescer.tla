--------------------------- MODULE EventCoalescer ---------------------------
(***************************************************************************)
(* The changes of a directory that a file watcher sees within a short time *)
(* and tells as few: class EventCoalescer of platform/files/common/        *)
(* watcher.ts, fed by a tree that changes.                                 *)
(*                                                                         *)
(* A path is a sequence of names.  What is at a path is a number, Absent if*)
(* nothing is.  The reader stands for a client of the watcher: it forgets  *)
(* what it is told is deleted, and reads what it is told is added or       *)
(* changed.                                                                *)
(***************************************************************************)
EXTENDS Naturals, Sequences, SequencesExt

CONSTANTS
  Path,       \* paths that something may be at
  Lower(_),   \* a name in the case in which the platform compares it
  MaxChanges  \* bound: changes of the tree

Absent == 0
Something == {1, 2}
Astray == 3

VARIABLES
  tree,       \* what is at a path
  reader,     \* what the reader takes to be there
  coalesced,  \* the changes of coalesced, in the order of their insertion
  latest,     \* mapPathToChange: by key, the path of a change in coalesced
  early,      \* history: keys for which a rename told of the new path first
  changes     \* bound: how often the tree has changed

coalescerVars == <<tree, reader, coalesced, latest, early, changes>>

Change(type, path) == [type |-> type, path |-> path]

\* toKey
Key(path) == [i \in DOMAIN path |-> Lower(path[i])]
Keys == {Key(p) : p \in Path}
NoPath == <<>>

\* isParent, which ignores the case where the platform does
IsParent(path, candidate) ==
  /\ Len(candidate) < Len(path)
  /\ Key(candidate) = Key(SubSeq(path, 1, Len(candidate)))

\* What is in a folder is in one that is there, and a platform that ignores the
\* case has one path of a kind.
Exists(t, p) == p # NoPath => t[p] # Absent
Tree(t) ==
  \A p \in Path : t[p] # Absent =>
    /\ Exists(t, Front(p))
    /\ \A q \in Path \ {p} : Key(q) = Key(p) => t[q] = Absent

CoalescerInit ==
  /\ tree \in {t \in [Path -> {Absent, 1}] : Tree(t)}
  /\ reader = tree
  /\ coalesced = <<>>
  /\ latest = [k \in Keys |-> NoPath]
  /\ early = {}
  /\ changes = 0

(***************************************************************************)
(* processEvent and coalesce.                                              *)
(***************************************************************************)
\* The change that the map has for a key is the last one in the set for its path.
Find(c, path) == CHOOSE i \in DOMAIN c.set :
                   /\ c.set[i].path = path
                   /\ \A j \in DOMAIN c.set : c.set[j].path = path => j <= i

\* Mutant of ProcessEvent: a deletion and an addition are not made a change.
ProcessEventUnflattened(c, event) ==
  LET key == Key(event.path)
      existing == c.latest[key]
      i == Find(c, existing)
      old == c.set[i].type
      Keep == [set |-> Append(c.set, event),
               latest |-> [c.latest EXCEPT ![key] = event.path]]
      Becomes(type) == [c EXCEPT !.set[i].type = type]
  IN CASE existing = NoPath -> Keep
       [] existing \notin {NoPath, event.path} /\ event.type # "updated" -> Keep
       [] OTHER ->
          CASE old = "added" /\ event.type = "deleted" ->
                 [set |-> RemoveAt(c.set, i),
                  latest |-> [c.latest EXCEPT ![key] = NoPath]]
            [] old = "added" /\ event.type = "updated" -> c
            [] OTHER -> Becomes(event.type)

ProcessEvent(c, event) ==
  LET key == Key(event.path)
      existing == c.latest[key]
      i == Find(c, existing)
      old == c.set[i].type
      Keep == [set |-> Append(c.set, event),
               latest |-> [c.latest EXCEPT ![key] = event.path]]
      Becomes(type) == [c EXCEPT !.set[i].type = type]
  IN CASE existing = NoPath -> Keep
       [] existing \notin {NoPath, event.path} /\ event.type # "updated" -> Keep
       [] OTHER ->
          CASE old = "added" /\ event.type = "deleted" ->
                 [set |-> RemoveAt(c.set, i),
                  latest |-> [c.latest EXCEPT ![key] = NoPath]]
            [] old = "deleted" /\ event.type = "added" -> Becomes("updated")
            [] old = "added" /\ event.type = "updated" -> c
            [] OTHER -> Becomes(event.type)

\* Deletions first, the shortest path first, and those not within a deleted parent.
Coalesce(all) ==
  LET IsDelete(e) == e.type = "deleted"
      deletes == SortSeq(SelectSeq(all, IsDelete),
                         LAMBDA d, e : Len(d.path) < Len(e.path))
      Ignore(kept, e) ==
        IF \E i \in DOMAIN kept : IsParent(e.path, kept[i].path) THEN kept ELSE Append(kept, e)
  IN FoldLeft(Ignore, <<>>, deletes) \o SelectSeq(all, LAMBDA e : ~IsDelete(e))

\* A client that applies a change finds what is there by then; an addition of what
\* it has, and an addition or a change of what is gone, lead it astray.
Apply(view, e) ==
  LET there == tree[e.path] # Absent /\ (e.type = "added" => view[e.path] = Absent)
  IN [p \in Path |->
        CASE e.type = "deleted" /\ (p = e.path \/ IsParent(p, e.path)) -> Absent
          [] e.type # "deleted" /\ p = e.path -> IF there THEN tree[p] ELSE Astray
          [] OTHER -> view[p]]

(***************************************************************************)
(* The tree changes, and the watcher is told of it path by path.           *)
(***************************************************************************)
Told(events) ==
  LET c == FoldLeft(ProcessEvent, [set |-> coalesced, latest |-> latest], events)
  IN coalesced' = c.set /\ latest' = c.latest

Within(p) == {q \in Path : tree[q] # Absent /\ (q = p \/ IsParent(q, p))}

\* Parents come before what is in them, or after it.
Ordered(type, paths) ==
  LET down == SetToSortSeq(paths, LAMBDA p, q : Len(p) < Len(q))
      events == [i \in DOMAIN down |-> Change(type, down[i])]
  IN {events, Reverse(events)}

Bounded == changes < MaxChanges /\ changes' = changes + 1

Create(p) ==
  /\ Bounded
  /\ tree[p] = Absent
  /\ \E x \in Something : tree' = [tree EXCEPT ![p] = x]
  /\ Tree(tree')
  /\ Told(<<Change("added", p)>>)
  /\ UNCHANGED <<reader, early>>

Write(p) ==
  /\ Bounded
  /\ tree[p] # Absent
  /\ \E x \in Something \ {tree[p]} : tree' = [tree EXCEPT ![p] = x]
  /\ Told(<<Change("updated", p)>>)
  /\ UNCHANGED <<reader, early>>

Delete(p) ==
  /\ Bounded
  /\ tree[p] # Absent
  /\ tree' = [q \in Path |-> IF q \in Within(p) THEN Absent ELSE tree[q]]
  /\ \E events \in Ordered("deleted", Within(p)) : Told(events)
  /\ UNCHANGED <<reader, early>>

\* Where the platform ignores the case, a rename that changes nothing else tells
\* of the two paths in either order.
RenameCase(p, q) ==
  LET Renamed(r) == q \o SubSeq(r, Len(p) + 1, Len(r))
      new == {Renamed(r) : r \in Within(p)}
  IN /\ Bounded
     /\ tree[p] # Absent
     /\ p # q /\ Key(p) = Key(q) /\ Front(p) = Front(q)
     /\ new \subseteq Path
     /\ tree' = [r \in Path |->
          IF \E s \in Within(p) : r = Renamed(s)
          THEN tree[CHOOSE s \in Within(p) : r = Renamed(s)]
          ELSE IF r \in Within(p) THEN Absent ELSE tree[r]]
     /\ \E deleted \in Ordered("deleted", Within(p)), added \in Ordered("added", new) :
          \/ Told(deleted \o added) /\ UNCHANGED early
          \/ Told(added \o deleted) /\ early' = early \cup {Key(r) : r \in new}
     /\ UNCHANGED reader

\* The watcher tells what it has collected.
AsTold == FoldLeft(Apply, reader, Coalesce(coalesced))

Deliver ==
  /\ coalesced # <<>>
  /\ reader' = AsTold
  /\ coalesced' = <<>>
  /\ latest' = [k \in Keys |-> NoPath]
  /\ UNCHANGED <<tree, early, changes>>

CoalescerNext ==
  \/ \E p \in Path : Create(p) \/ Write(p) \/ Delete(p)
  \/ \E p, q \in Path : RenameCase(p, q)
  \/ Deliver

CoalescerSpec == CoalescerInit /\ [][CoalescerNext]_coalescerVars

-----------------------------------------------------------------------------
Found == {Absent} \cup Something
Changes == [type : {"added", "updated", "deleted"}, path : Path]

CoalescerTypeOK ==
  /\ tree \in [Path -> Found] /\ reader \in [Path -> Found \cup {Astray}]
  /\ coalesced \in Seq(Changes)
  /\ latest \in [Keys -> Path \cup {NoPath}]
  /\ early \subseteq Keys /\ changes \in 0 .. MaxChanges

(***************************************************************************)
(* A client that is told the coalesced changes has the tree as it is: each *)
(* change is of what was or is there, nothing that has changed is left     *)
(* out, and nothing in a folder that was deleted and made again survives.  *)
(* The lapse of the code: when a rename tells of the new path first, what  *)
(* was collected for the old path stays, or a change that follows takes the*)
(* place of its deletion.                                                  *)
(***************************************************************************)
SameTree ==
  \A p \in Path : Key(p) \notin early => AsTold[p] = tree[p]
=============================================================================
