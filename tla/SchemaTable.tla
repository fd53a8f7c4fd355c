---- MODULE SchemaTable ----
(***************************************************************************)
(* The table every resource of the desktop GUI is shown in                 *)
(* (SchemaDataTable.tsx, schemaAdapter.ts): what is visible of its rows,   *)
(* in which order, and what a click does to the selection and the sorting. *)
(*                                                                         *)
(* A row is its key, a number; keys are numbered in the default order of   *)
(* the manifest.  A cell is the rank of its text under compareCellValues,  *)
(* or Blank: the comparison is taken to order the cells of one column.  It *)
(* does where they are all numbers, all dates or all text; with numbers    *)
(* next to text it need not be transitive, and the order is then outside   *)
(* the model.  The filter is the set of keys whose cells contain the text. *)
(***************************************************************************)
EXTENDS Naturals, Sequences, FiniteSets, FiniteSetsExt, SequencesExt

CONSTANT Cells  \* [column -> [key -> rank]]

Blank == 0
NoSort == [column |-> "none", direction |-> "none"]
NoKey == 0

\* compareCellValues: blank cells after all others
CellBefore(a, b) == a # Blank /\ (b = Blank \/ a < b)

\* sortSchemaRows by the manifest's default sort, then by the sort state; rows
\* that compare equal keep the order of the default.
RowBefore(sort, a, b) ==
  LET cell == Cells[sort.column]
      before(x, y) == IF sort.direction = "asc" THEN CellBefore(cell[x], cell[y])
                                                ELSE CellBefore(cell[y], cell[x])
  IN  IF sort = NoSort THEN a < b
                       ELSE before(a, b) \/ (~before(b, a) /\ a < b)

\* The rows of keys as they are sorted: the i-th is the one with i - 1 others
\* before it.
Rows(keys, sort) ==
  LET above(k) == {m \in keys : RowBefore(sort, m, k)}
  IN  [i \in 1..Cardinality(keys) |-> CHOOSE k \in keys : Cardinality(above(k)) = i - 1]

VisibleRows(keys, filter, sort) == Rows(keys \cap filter, sort)

\* A click on a column's head: ascending, descending, unsorted.
ToggledSort(sort, column) ==
  CASE sort.column # column -> [column |-> column, direction |-> "asc"]
    [] sort.column = column /\ sort.direction = "asc" ->
         [column |-> column, direction |-> "desc"]
    [] OTHER -> NoSort

\* The effect on [columns]: a sort by a column that is gone is dropped.
KeptSort(sort, columns) == IF sort.column \in columns THEN sort ELSE NoSort

\* updateRowSelection: the rows one click on a checkbox changes
Clicked(visible, anchor, key, shift) ==
  LET at(k) == CHOOSE i \in DOMAIN visible : visible[i] = k
      lo == Min({at(anchor), at(key)})
      hi == Max({at(anchor), at(key)})
  IN  IF shift /\ anchor \in Range(visible)
      THEN {visible[i] : i \in lo..hi}
      ELSE {key}

Checked(selected, keys, checked) ==
  IF checked THEN selected \cup keys ELSE selected \ keys

\* The checkbox in the head: all that is visible, or nothing of it.
AllVisible(selected, visible) ==
  Checked(selected, Range(visible), ~(Range(visible) \subseteq selected))

\* The effect on [rows]: the selection and the anchor keep to the rows.
Pruned(selected, keys) == selected \cap keys
PrunedAnchor(anchor, keys) == IF anchor \in keys THEN anchor ELSE NoKey
====
