------------------------------ MODULE UndoRedo ------------------------------
(***************************************************************************)
(* UndoRedoService (platform/undoRedo/common/undoRedoService.ts): a stack  *)
(* of elements for every resource, elements that touch several resources,  *)
(* and undos and redos that wait for a dialog, for models to load or for   *)
(* files; with what ModelService (editor/common/services/modelService.ts)  *)
(* does to the stacks when a model is closed and opened again.             *)
(*                                                                         *)
(* Undo and redo are one algorithm: what is undone is the last of the past *)
(* and goes to the future, what is redone the last of the future.  A call  *)
(* that is made in the same turn of the event loop is the next step: while *)
(* there is one in calls nothing else happens.  What an edit does to a     *)
(* text is left out: a text is the sequence of the edits that are in       *)
(* effect.                                                                 *)
(***************************************************************************)
EXTENDS Naturals, FiniteSets, SequencesExt

CONSTANTS
  Model,       \* text models, named by their resource
  ComparisonKey, \* getUriComparisonKey: the name of the stack of a model
  Plans,       \* what is done to the models: a sequence of edits, and the bounds, which
               \* models may be closed and which contents replaced
  MaxAsked,    \* bound: how often undo or redo is asked for
  MaxFlows,    \* bound: how many undos and redos wait at a time
  MaxReplaced  \* bound: how often the content of a model is replaced

\* An edit of the plan: what kind of element it makes, for which models.
PlannedEdits == [kind : {"typing", "bulk", "files"}, models : Seq(Model), group : Nat,
                 source : Nat, confirm : BOOLEAN]

ASSUME PlansAreEdits == \A p \in Plans : p.edits \in Seq(PlannedEdits)
ASSUME UndoBounds == MaxAsked \in Nat /\ MaxFlows \in Nat

VARIABLES
  plan,      \* the edits, by the number of the element
  mayClose, mayReplace, \* bounds
  pushed,    \* how many of them have been made
  service,   \* the stacks, and the marks of elements
  calls,     \* the call of _undo or _redo that this turn still makes
  flows,     \* the undos and redos that wait
  open,      \* the models there are
  initial,   \* the initialUndoRedoSnapshot of a model or of its disposedModelData
  disposedModels,  \* _disposedModels
  linked,    \* the edits of models that refer to a model, not to a resource
  asked,     \* bound
  text,      \* history: the edits that are in effect, by model
  before,    \* history: the text an element was made on
  noted      \* history: what went wrong

bounds == <<plan, mayClose, mayReplace>>
modelVars == <<open, initial, disposedModels, linked>>
undoVars == <<bounds, pushed, service, calls, flows, modelVars, asked, text, before, noted>>

Resource == {ComparisonKey[m] : m \in Model}
Shared(m) == ComparisonKey[m] # m
\* The models that no edit of the plan is about are left out.
Edited == UNION {ToSet(plan[i].models) : i \in DOMAIN plan}

\* An element is a number of the plan and the models it still stands for: those of the
\* edit, or one of them when it was split.
Element(i, models) == [of |-> i, on |-> models]
Whole(i) == Element(i, plan[i].models)
NoElement == Element(0, <<>>)

Kind(x) == plan[x.of].kind
Resources(x) == {ComparisonKey[m] : m \in ToSet(x.on)}
IsWorkspace(x) == Cardinality(Resources(x)) > 1
IsSplit(x) == x # Whole(x.of)
Group(x) == IF IsSplit(x) THEN 0 ELSE plan[x.of].group
Source(x) == IF IsSplit(x) THEN 0 ELSE plan[x.of].source
Confirm(x) == ~IsSplit(x) /\ plan[x.of].confirm
CanSplit(x) == Kind(x) = "bulk"
GetMissingModels(x) == {m \in ToSet(x.on) : <<x.of, m>> \notin linked}

\* The stacks that were made for a resource, which of them it has, 0 for none, and the marks:
\* removedResources by element and invalidatedResources or ~isValid.  A stack is named by its
\* resource and its place among those that were made for it.
EditStack(past) == [past |-> past, future |-> <<>>, locked |-> FALSE, versionId |-> 2]
Missing == [past |-> <<>>, future |-> <<>>, locked |-> TRUE, versionId |-> 1]
Stack(s, i) == IF i[2] = 0 THEN Missing ELSE s.stacks[i[1]][i[2]]
StackId(s, r) == <<r, s.editStacks[r]>>
StackOf(s, r) == Stack(s, StackId(s, r))
Elements(stack) == ToSet(stack.past) \cup ToSet(stack.future)

Other(side) == IF side = "past" THEN "future" ELSE "past"
Closest(stack, side) == IF stack[side] = <<>> THEN NoElement ELSE Last(stack[side])

RemovedOf(s, x) == {r \in Resources(x) : <<x.of, r>> \in s.removed}
InvalidOf(s, x) == {r \in Resources(x) : <<x, r>> \in s.invalid}
\* removeResource for the elements of several resources
Removals(r, xs) == {<<x.of, r>> : x \in {y \in xs : IsWorkspace(y)}}

UndoCall(side, r, source, confirmed) ==
  [side |-> side, resource |-> r, source |-> source, confirmed |-> confirmed]
\* loads: the models that the preparation loads and, once it has, keeps open.
Flow(pc, c, x, snapshot) ==
  [pc |-> pc, call |-> c, element |-> x, snapshot |-> snapshot,
   loads |-> IF pc \in {"prepare", "prepareAll"} /\ Kind(x) # "files"
             THEN GetMissingModels(x) ELSE {}]

UndoInit ==
  /\ \E p \in Plans : plan = p.edits /\ mayClose = p.mayClose /\ mayReplace = p.mayReplace
  /\ pushed = 0
  /\ service = [stacks |-> [r \in Resource |-> <<>>], editStacks |-> [r \in Resource |-> 0],
                removed |-> {}, invalid |-> {}]
  /\ calls = <<>>
  /\ flows = <<>>
  /\ open = Edited
  /\ initial = [m \in Model |-> <<>>]
  /\ disposedModels = {}
  /\ linked = {}
  /\ asked = 0
  /\ text = [m \in Model |-> <<>>]
  /\ before = <<>>
  /\ noted = {}

Idle == calls = <<>>
Note(what, when) == IF when THEN {what} ELSE {}

(***************************************************************************)
(* What the operations do to the stacks.                                   *)
(***************************************************************************)
\* The stacks is become what Change makes of them, and have another version.
ChangeStacks(s, is, Change(_, _)) ==
  [s EXCEPT !.stacks =
     [r \in Resource |->
        [k \in DOMAIN s.stacks[r] |->
           IF <<r, k>> \in is
           THEN [Change(r, s.stacks[r][k]) EXCEPT !.versionId = @ + 1]
           ELSE s.stacks[r][k]]]]

\* pushElement of the ResourceEditStacks, some of which may be new
PushElement(s, x) ==
  LET rs == Resources(x)
      new == {r \in rs : s.editStacks[r] = 0}
      Pushed(r, stack) == [stack EXCEPT !.past = Append(@, x), !.future = <<>>]
      t == ChangeStacks(s, {StackId(s, r) : r \in rs}, Pushed)
  IN  [t EXCEPT
         !.stacks = [r \in Resource |->
                       IF r \in new THEN Append(t.stacks[r], EditStack(<<x>>)) ELSE t.stacks[r]],
         !.editStacks = [r \in Resource |->
                           IF r \in new THEN Len(s.stacks[r]) + 1 ELSE s.editStacks[r]],
         !.removed = @ \cup UNION {Removals(r, ToSet(StackOf(s, r).future)) : r \in rs}]

\* removeElements
RemoveElements(s, rs) ==
  LET Same(r, stack) == stack
  IN  [ChangeStacks(s, {StackId(s, r) : r \in rs}, Same) EXCEPT
         !.editStacks = [r \in Resource |-> IF r \in rs THEN 0 ELSE s.editStacks[r]],
         !.removed = @ \cup UNION {Removals(r, Elements(StackOf(s, r))) : r \in rs}]

Flush(s, r) ==
  LET Emptied(q, stack) == [stack EXCEPT !.past = <<>>, !.future = <<>>]
  IN  ChangeStacks(s, {StackId(s, r)}, Emptied)

\* setElementsValidFlag with the filter of ModelService: the edits that match the model
Matching(s, m) ==
  {x \in Elements(StackOf(s, ComparisonKey[m])) : Kind(x) # "files" /\ m \in ToSet(x.on)}
SetElementsValidFlag(s, m, isValid) ==
  LET marks == {<<x, ComparisonKey[m]>> : x \in Matching(s, m)}
  IN  [s EXCEPT !.invalid = IF isValid THEN @ \ marks ELSE @ \cup marks]

\* moveBackward or moveForward: it pops whatever is last
MoveAll(s, is, x, side) ==
  LET Moved(r, stack) == [stack EXCEPT ![side] = IF @ = <<>> THEN @ ELSE Front(@),
                                       ![Other(side)] = Append(@, x)]
  IN  ChangeStacks(s, is, Moved)

SetLocked(s, is, locked) ==
  [s EXCEPT !.stacks =
     [r \in Resource |->
        [k \in DOMAIN s.stacks[r] |->
           IF <<r, k>> \in is THEN [s.stacks[r][k] EXCEPT !.locked = locked]
           ELSE s.stacks[r][k]]]]

\* _splitPastWorkspaceElement or _splitFutureWorkspaceElement.  The map of the split
\* elements is by resource: the last model of a resource stands for it.
SplitElement(x, r) ==
  LET IsOf(m) == ComparisonKey[m] = r
  IN  Element(x.of, <<x.on[SelectLastInSeq(x.on, IsOf)]>>)
SplitOn(s, x, rs, side) ==
  LET Replaced(q, y) == LET IsThat(z) == z = x
                        IN  IF x \in ToSet(q) THEN ReplaceAt(q, SelectLastInSeq(q, IsThat), y)
                                              ELSE q
      Divided(r, stack) == [stack EXCEPT ![side] = Replaced(@, SplitElement(x, r))]
  IN  [ChangeStacks(s, {StackId(s, r) : r \in rs}, Divided) EXCEPT
         !.invalid = @ \ {<<SplitElement(x, r), r>> : r \in rs}]
\* It goes through the resources in order, and throws at one that has no stack.
Throws(s, x, ignore) == \E r \in Resources(x) \ ignore : s.editStacks[r] = 0
Split(s, x, side, ignore) ==
  LET Lacks(m) == ComparisonKey[m] \notin ignore /\ s.editStacks[ComparisonKey[m]] = 0
      reached == IF Throws(s, x, ignore)
                 THEN SubSeq(x.on, 1, SelectInSeq(x.on, Lacks) - 1) ELSE x.on
  IN  SplitOn(s, x, {ComparisonKey[m] : m \in ToSet(reached)} \ ignore, side)

(***************************************************************************)
(* Snapshots of a stack.                                                   *)
(***************************************************************************)
\* createSnapshot: the past and then the future, the next to be redone first
SnapshotOf(stack) == stack.past \o Reverse(stack.future)

\* The place of the first element that the snapshot has not, 0 if it has all.
FirstDifference(stack, snapshot) ==
  LET q == SnapshotOf(stack)
      Differs(i) == i > Len(snapshot) \/ snapshot[i] # q[i]
  IN  IF \E i \in DOMAIN q : Differs(i)
      THEN CHOOSE i \in DOMAIN q : Differs(i) /\ \A j \in 1..i - 1 : ~Differs(j)
      ELSE 0

\* restoreSnapshot of a stack.  A difference in the past drops all of the past and none
\* of the future.
RestoredStack(stack, snapshot) ==
  LET i == FirstDifference(stack, snapshot)
      kept == i - 1 - Len(stack.past)
  IN  IF i = 0 THEN stack
      ELSE IF i \in DOMAIN stack.past THEN [stack EXCEPT !.past = <<>>]
      ELSE [stack EXCEPT !.future = SubSeq(@, Len(@) - kept + 1, Len(@))]

\* The elements that restoreSnapshot marks: from the first difference on.
Marked(stack, snapshot) ==
  LET i == FirstDifference(stack, snapshot)
      q == SnapshotOf(stack)
  IN  IF i = 0 THEN {} ELSE ToSet(SubSeq(q, i, Len(q)))

\* restoreSnapshot of the service, for models that have an initial snapshot, and a stack for
\* themselves
Restore(s, models) ==
  LET rs == {r \in models \cap Resource : initial[r] # <<>> /\ s.editStacks[r] # 0}
      Restored(r, stack) == RestoredStack(stack, initial[r][1])
      t == ChangeStacks(s, {StackId(s, r) : r \in rs}, Restored)
  IN  [t EXCEPT
         !.editStacks = [r \in Resource |->
                           IF r \in rs /\ Elements(StackOf(t, r)) = {} THEN 0
                           ELSE s.editStacks[r]],
         !.removed = @ \cup UNION {Removals(r, Marked(StackOf(s, r), initial[r][1])) : r \in rs}]

(***************************************************************************)
(* Edits, and models that are closed and opened.                           *)
(***************************************************************************)
Foreign == 0
Replaceable(m) == m \in mayReplace /\ Len(SelectSeq(text[m], LAMBDA i : i = Foreign)) < MaxReplaced

\* The next edit of the plan.  The initial snapshot of a model is made where its text is
\* edited, if there is none: before typing is pushed, and after a bulk edit is, which
\* pushes its own element.
Push ==
  /\ Idle /\ pushed < Len(plan)
  /\ LET x == Whole(pushed + 1)
         models == ToSet(x.on)
         edited == IF Kind(x) = "files" THEN {} ELSE models
         pushedOn == PushElement(service, x)
         seen == IF Kind(x) = "bulk" THEN pushedOn ELSE service
     IN  /\ edited \subseteq open
         /\ pushed' = pushed + 1
         /\ service' = pushedOn
         /\ linked' = linked \cup ({pushed + 1} \X edited)
         /\ initial' = [m \in Model |->
              IF m \in edited /\ initial[m] = <<>>
              THEN <<SnapshotOf(StackOf(seen, ComparisonKey[m]))>> ELSE initial[m]]
         /\ before' = Append(before, [m \in models |-> text[m]])
         /\ text' = [m \in Model |-> IF m \in models THEN Append(text[m], pushed + 1)
                                                     ELSE text[m]]
  /\ UNCHANGED <<bounds, calls, flows, open, disposedModels, asked, noted>>

\* setValue of a model: the edit stack is cleared.
SetValue(m) ==
  /\ Idle /\ m \in open /\ Replaceable(m)
  /\ service' = RemoveElements(service, {ComparisonKey[m]})
  /\ text' = [text EXCEPT ![m] = Append(@, Foreign)]
  /\ UNCHANGED <<bounds, pushed, calls, flows, modelVars, asked, before, noted>>

\* _onWillDispose: the edits of the model let go of it.
Closes(m) ==
  /\ Idle /\ m \in open \cap mayClose /\ \A f \in DOMAIN flows : m \notin flows[f].loads
  /\ open' = open \ {m}
  /\ linked' = linked \ {<<x.of, m>> : x \in Matching(service, m)}
  /\ UNCHANGED <<bounds, pushed, calls, flows, asked, text, before, noted>>

\* They stay, invalid, and for that others that were disposed of may have to go.
CloseMaintained(m, evicted) ==
  /\ Closes(m) /\ Matching(service, m) # {}
  /\ evicted \subseteq {n \in disposedModels : ~Shared(n)}
  /\ service' = SetElementsValidFlag(Restore(service, evicted), m, FALSE)
  /\ disposedModels' = (disposedModels \ evicted) \cup {m}
  /\ initial' = [n \in Model |-> IF n \in evicted THEN <<>> ELSE initial[n]]

\* There are none, or they do not fit.
CloseDropped(m) ==
  /\ Closes(m)
  /\ Shared(m) => Matching(service, m) = {}
  /\ service' = IF Shared(m) THEN service ELSE Restore(service, {m})
  /\ initial' = [initial EXCEPT ![m] = <<>>]
  /\ UNCHANGED disposedModels

\* _createModelData, with the content the model had.
Reopen(m) ==
  /\ Idle /\ m \in Edited \ open
  /\ open' = open \cup {m}
  /\ IF m \in disposedModels
     THEN /\ linked' = linked \cup {<<x.of, m>> : x \in Matching(service, m)}
          /\ service' = SetElementsValidFlag(service, m, TRUE)
          /\ disposedModels' = disposedModels \ {m}
     ELSE UNCHANGED <<linked, service, disposedModels>>
  /\ UNCHANGED <<bounds, pushed, calls, flows, initial, asked, text, before, noted>>

\* Or with another.  Cells of a notebook come back with theirs.
ReopenOther(m) ==
  /\ Idle /\ m \in Edited \ open /\ ~Shared(m) /\ Replaceable(m)
  /\ open' = open \cup {m}
  /\ service' = IF m \in disposedModels THEN Restore(service, {m}) ELSE service
  /\ disposedModels' = disposedModels \ {m}
  /\ initial' = [initial EXCEPT ![m] = <<>>]
  /\ text' = [text EXCEPT ![m] = Append(@, Foreign)]
  /\ noted' = noted \cup Note("kept", Matching(service', m) # {})
  /\ UNCHANGED <<bounds, pushed, calls, flows, linked, asked, before>>

(***************************************************************************)
(* Asking for an undo or redo.                                             *)
(***************************************************************************)
\* The resources whose closest element is chosen, that satisfies P: of the highest order
\* to be undone, the lowest to be redone.  The order is that of the pushes.
Foremost(s, side, P(_)) ==
  LET ready == {r \in Resource : LET x == Closest(StackOf(s, r), side)
                                 IN  x # NoElement /\ P(x)}
      Order(r) == Closest(StackOf(s, r), side).of
  IN  {r \in ready : \A q \in ready : IF side = "past" THEN Order(q) <= Order(r)
                                                        ELSE Order(r) <= Order(q)}
InGroup(s, side, group) == Foremost(s, side, LAMBDA x : Group(x) = group)
OfSource(s, side, source) == Foremost(s, side, LAMBDA x : Source(x) = source)

\* undo and redo, of a model or of a source
Ask(side, m) ==
  /\ Idle /\ asked < MaxAsked /\ Len(flows) < MaxFlows /\ m \in open
  /\ asked' = asked + 1
  /\ calls' = <<UndoCall(side, ComparisonKey[m], 0, FALSE)>>
  /\ UNCHANGED <<bounds, pushed, service, flows, modelVars, text, before, noted>>

AskSource(side, source) ==
  /\ Idle /\ asked < MaxAsked /\ Len(flows) < MaxFlows
  /\ asked' = asked + 1
  /\ \E r \in OfSource(service, side, source) :
       calls' = <<UndoCall(side, r, IF side = "past" THEN source ELSE 0, FALSE)>>
  /\ UNCHANGED <<bounds, pushed, service, flows, modelVars, text, before, noted>>

(***************************************************************************)
(* The call that this turn still makes: _undo or _redo.                    *)
(***************************************************************************)
Called == ~Idle
theCall == Head(calls)
CalledStack == StackOf(service, theCall.resource)
CalledElement == Closest(CalledStack, theCall.side)
Out(x) == Group(x) # 0 /\ \E r \in InGroup(service, theCall.side, Group(x)) :
                             Closest(StackOf(service, r), theCall.side) # x
Asks(x) == theCall.side = "past" /\ ~theCall.confirmed /\ (Source(x) # theCall.source \/ Confirm(x))

Waits(pc, x, snapshot) == flows' = Append(flows, Flow(pc, theCall, x, snapshot))

CallNothing ==
  /\ Called /\ CalledElement = NoElement
  /\ calls' = <<>>
  /\ UNCHANGED <<bounds, pushed, service, flows, modelVars, asked, text, before, noted>>

\* There is an element of the group that comes before.
CallInGroup ==
  /\ Called /\ CalledElement # NoElement /\ Out(CalledElement)
  /\ \E r \in InGroup(service, theCall.side, Group(CalledElement)) :
       calls' = <<[theCall EXCEPT !.resource = r]>>
  /\ UNCHANGED <<bounds, pushed, service, flows, modelVars, asked, text, before, noted>>

\* _confirmAndContinueUndo
CallConfirm ==
  /\ Called /\ CalledElement # NoElement /\ ~Out(CalledElement) /\ Asks(CalledElement)
  /\ Waits("confirm", CalledElement, {})
  /\ calls' = <<>>
  /\ UNCHANGED <<bounds, pushed, service, modelVars, asked, text, before, noted>>

Runs(x) == Called /\ x # NoElement /\ ~Out(x) /\ ~Asks(x)

\* Whether the texts of models are as the element left or found them.  Operations on
\* files do not mind the text, only one another.
Minds(x, q) ==
  IF Kind(x) # "files" THEN q
  ELSE SelectSeq(q, LAMBDA i : i # Foreign /\ plan[i].kind = "files")
InOrder(x, models, side) ==
  \A m \in models :
    LET q == Minds(x, text[m])
    IN  IF side = "past" THEN q # <<>> /\ Last(q) = x.of
                         ELSE q = Minds(x, before[x.of][m])
\* A text with an edit taken out, wherever it is
Without(q, i) ==
  LET kept[k \in 0..Len(q)] ==
        IF k = 0 THEN <<>> ELSE IF q[k] = i THEN kept[k - 1] ELSE Append(kept[k - 1], q[k])
  IN  kept[Len(q)]
Applied(x, models, side) ==
  [m \in Model |->
    IF m \notin models THEN text[m]
    ELSE IF side = "past" THEN Without(text[m], x.of)
    ELSE Append(text[m], x.of)]

\* _continueUndoInGroup and _continueRedoInGroup
Continue(s, x, c) ==
  LET next == InGroup(s, c.side, Group(x))
  IN  IF Group(x) = 0 \/ next = {} THEN {<<>>}
      ELSE {<<UndoCall(c.side, r, 0, c.confirmed)>> : r \in next}

\* The models an element gets to: up to the first one that is missing, where it throws.
Reached(x) ==
  IF Kind(x) = "files" THEN ToSet(x.on)
  ELSE LET IsMissing(m) == m \in GetMissingModels(x)
           i == SelectInSeq(x.on, IsMissing)
       IN  ToSet(IF i = 0 THEN x.on ELSE SubSeq(x.on, 1, i - 1))

\* _safeInvokeWithLocks of undo or redo on the stacks is.  Text is edited at once, files
\* are not.  When it fails, _onError removes the elements.
CannotLock(s, x, is, waiting) ==
  /\ \E i \in is : Stack(s, i).locked
  /\ service' = s
  /\ flows' = waiting
  /\ calls' = <<>>
  /\ UNCHANGED text

InvokeFiles(s, x, is, c, waiting) ==
  /\ \A i \in is : ~Stack(s, i).locked
  /\ Kind(x) = "files"
  /\ service' = SetLocked(s, is, TRUE)
  /\ flows' = Append(waiting, Flow("running", c, x, {<<i, Stack(s, i).versionId>> : i \in is}))
  /\ calls' = <<>>
  /\ text' = Applied(x, ToSet(x.on), c.side)

InvokeEdits(s, x, is, c, waiting) ==
  /\ \A i \in is : ~Stack(s, i).locked
  /\ Kind(x) # "files"
  /\ flows' = waiting
  /\ IF Reached(x) = ToSet(x.on)
     THEN service' = s /\ calls' \in Continue(s, x, c)
     ELSE service' = RemoveElements(s, Resources(x)) /\ calls' = <<>>
  /\ text' = Applied(x, Reached(x), c.side)

Invoke(s, x, is, c, waiting, notes) ==
  /\ \/ CannotLock(s, x, is, waiting)
     \/ InvokeFiles(s, x, is, c, waiting)
     \/ InvokeEdits(s, x, is, c, waiting)
  /\ noted' = noted \cup notes \cup
       Note("disorder", /\ \A i \in is : ~Stack(s, i).locked
                        /\ ~InOrder(x, Reached(x), c.side))
  /\ UNCHANGED <<bounds, pushed, modelVars, asked, before>>

\* _resourceUndo and _resourceRedo.  The preparation is awaited only if models are missing.
Prepares(x) == Kind(x) = "bulk" /\ Len(x.on) > 1 /\ GetMissingModels(x) # {}
Invalid(x) == InvalidOf(service, x) # {}

CallResource ==
  LET x == CalledElement
      i == StackId(service, theCall.resource)
  IN  /\ Runs(x) /\ ~IsWorkspace(x) /\ ~Invalid(x) /\ ~CalledStack.locked
      /\ IF Prepares(x)
         THEN /\ Waits("prepare", x, {<<i, CalledStack.versionId>>})
              /\ calls' = <<>>
              /\ UNCHANGED <<bounds, pushed, service, modelVars, asked, text, before, noted>>
         ELSE Invoke(MoveAll(service, {i}, x, theCall.side), x, {i}, theCall, flows, {})

CallResourceInvalid ==
  LET x == CalledElement
  IN  /\ Runs(x) /\ ~IsWorkspace(x)
      /\ Invalid(x) \/ CalledStack.locked
      /\ service' = IF Invalid(x) THEN Flush(service, theCall.resource) ELSE service
      /\ calls' = <<>>
      /\ UNCHANGED <<bounds, pushed, flows, modelVars, asked, text, before, noted>>

\* _checkWorkspaceUndo and _checkWorkspaceRedo
Affected(s, x) == {<<StackId(s, r), StackOf(s, r).versionId>> : r \in Resources(x)}
\* Mutant of Changed: only what has changed since the snapshot counts.
ChangedSince(s, x, side, snapshot) ==
  \E a \in snapshot : Stack(s, a[1]).versionId # a[2]
Changed(s, x, side, snapshot) ==
  \E a \in snapshot : LET stack == Stack(s, a[1])
                      IN  \/ Closest(stack, side) # x
                          \/ stack.locked
                          \/ stack.versionId # a[2]
\* The resources a split leaves alone
Ignored(s, x, checkInvalidated) ==
  IF RemovedOf(s, x) # {} THEN RemovedOf(s, x)
  ELSE IF checkInvalidated THEN InvalidOf(s, x) ELSE {}
Verified(s, x, side, snapshot, checkInvalidated) ==
  Ignored(s, x, checkInvalidated) = {} /\ ~Changed(s, x, side, snapshot)

\* Splitting the element, and undoing or redoing the part of the resource.  An element
\* that was removed and is still there, since a restore keeps the future, is found again,
\* and again, until the call overflows.
Overflows(s, x, c) ==
  c.resource \in RemovedOf(s, x) /\ Closest(StackOf(s, c.resource), c.side) = x
SplitAndCall(x, c, ignore) ==
  /\ service' = Split(service, x, c.side, ignore)
  /\ calls' = IF Throws(service, x, ignore) \/ Overflows(service, x, c) THEN <<>>
              ELSE <<UndoCall(c.side, c.resource, 0, TRUE)>>

\* _tryToSplitAndUndo and _tryToSplitAndRedo
TryToSplit(x, c, checkInvalidated) ==
  IF CanSplit(x)
  THEN SplitAndCall(x, c, Ignored(service, x, checkInvalidated))
  ELSE /\ service' = RemoveElements(service, Resources(x))
       /\ calls' = <<>>

IsPartOfUndoGroup(x) ==
  Group(x) # 0 /\ InGroup(service, "past", Group(x)) # {}

\* _workspaceUndo and _workspaceRedo
CallWorkspace ==
  LET x == CalledElement
      affected == Affected(service, x)
      asks == theCall.side = "past" /\ CanSplit(x) /\ ~IsPartOfUndoGroup(x)
  IN  /\ Runs(x) /\ IsWorkspace(x)
      /\ IF Verified(service, x, theCall.side, affected, FALSE)
         THEN /\ Waits(IF asks THEN "prompt" ELSE "prepareAll", x, affected)
              /\ calls' = <<>>
              /\ UNCHANGED service
         ELSE TryToSplit(x, theCall, FALSE) /\ UNCHANGED flows
      /\ UNCHANGED <<bounds, pushed, modelVars, asked, text, before, noted>>

(***************************************************************************)
(* What was waited for.                                                    *)
(***************************************************************************)
At(f, pc) == Idle /\ flows[f].pc = pc
Stacks(flow) == {a[1] : a \in flow.snapshot}

\* The dialog of _confirmAndContinueUndo is answered.
ConfirmAnswered(f, yes) ==
  /\ At(f, "confirm")
  /\ flows' = RemoveAt(flows, f)
  /\ calls' = IF yes THEN <<[flows[f].call EXCEPT !.confirmed = TRUE]>> ELSE <<>>
  /\ UNCHANGED <<bounds, pushed, service, modelVars, asked, text, before, noted>>

\* The dialog of _confirmAndExecuteWorkspaceUndo is answered.
PromptCancelled(f) ==
  /\ At(f, "prompt")
  /\ flows' = RemoveAt(flows, f)
  /\ UNCHANGED <<bounds, pushed, service, calls, modelVars, asked, text, before, noted>>

PromptAnsweredThis(f) ==
  /\ At(f, "prompt")
  /\ flows' = RemoveAt(flows, f)
  /\ SplitAndCall(flows[f].element, flows[f].call, {})
  /\ UNCHANGED <<bounds, pushed, modelVars, asked, text, before, noted>>

PromptAnsweredAll(f) ==
  LET x == flows[f].element
      c == [flows[f].call EXCEPT !.confirmed = TRUE]
  IN  /\ At(f, "prompt")
      /\ IF Verified(service, x, "past", flows[f].snapshot, FALSE)
         THEN /\ flows' = [flows EXCEPT ![f] = Flow("prepareAll", c, x, @.snapshot)]
              /\ UNCHANGED <<service, calls>>
         ELSE flows' = RemoveAt(flows, f) /\ TryToSplit(x, c, FALSE)
      /\ UNCHANGED <<bounds, pushed, modelVars, asked, text, before, noted>>

\* Mutant of AllPrepared: nothing is checked again once the models are loaded.
AllPreparedUnchecked(f) ==
  LET x == flows[f].element
      c == flows[f].call
      is == Stacks(flows[f])
  IN  /\ At(f, "prepareAll")
      /\ Invoke(MoveAll(service, is, x, c.side), x, is, c, RemoveAt(flows, f), {})

\* The models of an element of several resources are loaded, or cannot be.
AllPrepared(f) ==
  LET x == flows[f].element
      c == flows[f].call
      is == Stacks(flows[f])
  IN  /\ At(f, "prepareAll")
      /\ IF Verified(service, x, c.side, flows[f].snapshot, TRUE)
         THEN Invoke(MoveAll(service, is, x, c.side), x, is, c, RemoveAt(flows, f), {})
         ELSE /\ flows' = RemoveAt(flows, f)
              /\ TryToSplit(x, c, TRUE)
              /\ UNCHANGED <<bounds, pushed, modelVars, asked, text, before, noted>>

\* Those of an element of one resource are: nothing is looked at again.
Overtaken(f) ==
  \E a \in flows[f].snapshot :
    \/ Closest(Stack(service, a[1]), flows[f].call.side) # flows[f].element
    \/ Stack(service, a[1]).locked
    \/ StackId(service, flows[f].call.resource) # a[1]
Prepared(f) ==
  LET x == flows[f].element
      c == flows[f].call
      is == Stacks(flows[f])
  IN  /\ At(f, "prepare")
      /\ Invoke(MoveAll(service, is, x, c.side), x, is, c, RemoveAt(flows, f),
                Note("overtaken", Overtaken(f)))

\* The undo or redo of files ends, or fails.
FilesDone(f) ==
  LET s == SetLocked(service, Stacks(flows[f]), FALSE)
  IN  /\ At(f, "running")
      /\ service' = s
      /\ flows' = RemoveAt(flows, f)
      /\ calls' \in Continue(s, flows[f].element, flows[f].call)
      /\ UNCHANGED <<bounds, pushed, modelVars, asked, text, before, noted>>

\* Mutant of FilesFail: a failure does not release the locks.
FilesFailLocked(f) ==
  /\ At(f, "running")
  /\ service' = RemoveElements(service, Resources(flows[f].element))
  /\ flows' = RemoveAt(flows, f)
  /\ UNCHANGED <<bounds, pushed, calls, modelVars, asked, text, before, noted>>

FilesFail(f) ==
  /\ At(f, "running")
  /\ service' = RemoveElements(SetLocked(service, Stacks(flows[f]), FALSE),
                              Resources(flows[f].element))
  /\ flows' = RemoveAt(flows, f)
  /\ UNCHANGED <<bounds, pushed, calls, modelVars, asked, text, before, noted>>

UndoNext ==
  \/ Push
  \/ \E m \in Model :
       \/ SetValue(m)
       \/ \E evicted \in SUBSET Model : CloseMaintained(m, evicted)
       \/ CloseDropped(m)
       \/ Reopen(m) \/ ReopenOther(m)
       \/ \E side \in {"past", "future"} : Ask(side, m)
  \/ \E side \in {"past", "future"} : AskSource(side, 1)
  \/ CallNothing \/ CallInGroup \/ CallConfirm
  \/ CallResource \/ CallResourceInvalid \/ CallWorkspace
  \/ \E f \in DOMAIN flows :
       \/ \E yes \in BOOLEAN : ConfirmAnswered(f, yes)
       \/ PromptCancelled(f) \/ PromptAnsweredThis(f) \/ PromptAnsweredAll(f)
       \/ AllPrepared(f) \/ Prepared(f)
       \/ FilesDone(f) \/ FilesFail(f)

UndoSpec == UndoInit /\ [][UndoNext]_undoVars

-----------------------------------------------------------------------------
UndoElements ==
  {Whole(i) : i \in 1..pushed} \cup
  UNION {{Element(i, <<m>>) : m \in ToSet(plan[i].models)} : i \in 1..pushed}

\* Every variable has its type.
UndoTypeOK ==
  /\ pushed \in 0..Len(plan) /\ asked \in 0..MaxAsked /\ Len(flows) <= MaxFlows
  /\ service.stacks \in [Resource -> Seq([past : Seq(UndoElements), future : Seq(UndoElements),
                                          locked : BOOLEAN, versionId : Nat])]
  /\ service.editStacks \in [Resource -> Nat]
  /\ \A r \in Resource : service.editStacks[r] <= Len(service.stacks[r])
  /\ service.removed \subseteq (1..pushed) \X Resource
  /\ service.invalid \subseteq UndoElements \X Resource
  /\ \A c \in ToSet(calls) \cup {flows[f].call : f \in DOMAIN flows} :
       c \in [side : {"past", "future"}, resource : Resource, source : Nat,
              confirmed : BOOLEAN]
  /\ \A f \in DOMAIN flows :
       /\ flows[f].element \in UndoElements
       /\ Stacks(flows[f]) \subseteq Resource \X Nat
  /\ disposedModels \subseteq Edited \ open /\ open \subseteq Edited
  /\ linked \subseteq (1..pushed) \X Edited
  /\ DOMAIN before = 1..pushed
  /\ text \in [Model -> Seq(0..pushed)]
  /\ noted \subseteq {"disorder", "overtaken", "kept"}

\* What is undone was the last edit of each text it changes, and what is redone finds
\* each text as the edit found it, whatever was pushed, split, undone or closed while a
\* dialog was open or models were loaded; but for two cases: an element of one stack that
\* another undo or edit overtook while its models were loaded, and an edit that a restored
\* snapshot kept for a content it was not made on.
InOrderButForTwo == "disorder" \in noted => noted \cap {"overtaken", "kept"} # {}

\* The stacks that are locked are those of the files that are being undone or redone: no
\* failure leaves a stack locked, and none is unlocked by another.
LocksAreHeld ==
  \A r \in Resource : \A k \in DOMAIN service.stacks[r] :
    service.stacks[r][k].locked <=> \E f \in DOMAIN flows :
                                      flows[f].pc = "running" /\ <<r, k>> \in Stacks(flows[f])

\* An edit of several resources that was not split is undone in all of them or in none.
WholeMoves ==
  \A p, q \in Resource :
    \A x \in ToSet(StackOf(service, p).past) \cap ToSet(StackOf(service, q).future) :
       ~IsWorkspace(x)
=============================================================================
