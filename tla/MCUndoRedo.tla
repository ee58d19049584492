----------------------------- MODULE MCUndoRedo -----------------------------
(***************************************************************************)
(* Small instances of UndoRedo: two files, and two cells of a notebook,    *)
(* which share its stack.                                                  *)
(***************************************************************************)
EXTENDS UndoRedo

CONSTANTS file1, file2, cell1, cell2, notebook

Texts == {file1, cell1, cell2, file2}
KeyOfText == [m \in Texts |-> IF m \in {cell1, cell2} THEN notebook ELSE m]

\* Typing in a text, an edit of several texts, files that are created or renamed.  What
\* is done to texts and files at once is a group.
PlannedEdit(kind, models, group) ==
  [kind |-> kind, models |-> models, group |-> group, source |-> 0, confirm |-> FALSE]
Typing(m) == PlannedEdit("typing", <<m>>, 0)
Bulk(ms, group) == PlannedEdit("bulk", ms, group)
Files(ms, group) == PlannedEdit("files", ms, group)
Asking(edit, source, confirm) == [edit EXCEPT !.source = source, !.confirm = confirm]

\* With the models that are closed, and those that get other contents.
Plan(edits, closed, replaced) ==
  [edits |-> edits, mayClose |-> closed, mayReplace |-> replaced]

\* A file that is edited twice, closed, and opened with another content.
ReopenPlans == {Plan(<<Typing(file1), Typing(file1)>>, {file1}, {file1})}

AllPlans == ReopenPlans \cup
  {\* an edit of two files that is undone while one of them comes back with other content
   Plan(<<Typing(file1), Bulk(<<file1, file2>>, 1)>>, {file1}, {file1}),
   \* whose models have to be loaded, and one gives way to the other
   Plan(<<Bulk(<<file1, file2>>, 1)>>, {file1, file2}, {}),
   \* and that has to be split
   Plan(<<Bulk(<<file1, file2>>, 1), Typing(file2)>>, {file1}, {}),
   Plan(<<Typing(cell1), Bulk(<<file1, cell1>>, 1)>>, {cell1}, {file1}),
   \* an edit that belongs to no group, as the tests of the service push it: the dialog
   Plan(<<Bulk(<<file1, file2>>, 0), Typing(file1)>>, {}, {file2}),
   \* two cells, with one stack
   Plan(<<Bulk(<<cell1, cell2>>, 1), Typing(cell1)>>, {cell1, cell2}, {}),
   \* a file that is created, and another that is edited for it
   Plan(<<Files(<<file1>>, 1), Bulk(<<file2>>, 1)>>, {file2}, {}),
   \* files that are renamed or created, and edited
   Plan(<<Asking(Files(<<file1, file2>>, 1), 1, TRUE),
          Asking(Bulk(<<file1, file2>>, 1), 1, FALSE)>>, {}, {}),
   Plan(<<Asking(Files(<<file1>>, 1), 1, FALSE), Typing(file1), Typing(file1)>>,
        {file1}, {file1})}
=============================================================================
