---- MODULE MCListElement ----
EXTENDS ListElement
CONSTANTS wide, narrow, min
Heights_ == [p \in (1..3) \X {wide, narrow, min} |->
  CASE p[1] = 1 -> IF p[2] = wide THEN 1 ELSE 2
    [] p[1] = 2 -> 2
    [] OTHER -> IF p[2] = min THEN 3 ELSE 1]
Lists ==
  {[alignment |-> "Top", sizing |-> "Auto", measuring |-> "visible"],
   [alignment |-> "Bottom", sizing |-> "Auto", measuring |-> "pending"],
   [alignment |-> "Top", sizing |-> "Infer", measuring |-> "visible"]}
MinusPlus == {-2, 1}
Cursor == {[row |-> 2, top |-> 0, bottom |-> 1], [row |-> 2, top |-> 1, bottom |-> 2]}

\* Rows that are all as high.
Ones == [p \in Rows \X {wide, min} |-> 1]
PlainList == {[alignment |-> "Top", sizing |-> "Auto", measuring |-> "visible"]}

\* Rows that are higher in a wider list, for one that infers its size.
HighWhenWide == [p \in (1..5) \X {wide, min} |-> IF p[2] = wide THEN 2 ELSE 1]
InferredList == {[alignment |-> "Top", sizing |-> "Infer", measuring |-> "visible"]}
CursorAtEnd == {[row |-> 5, top |-> 0, bottom |-> 1]}
====
