----------------------------- MODULE MCWindowFrame ----------------------------
(* WindowFrame for TLC: a window with a list, a panel, and a menu in the     *)
(* panel that is drawn deferred.                                            *)
EXTENDS WindowFrame
CONSTANTS root, list, panel, label, menu

In(v) == [view |-> v, deferred |-> FALSE]
Deferred(v) == [view |-> v, deferred |-> TRUE]

\* The list is not always there; the panel is cached, and so is the label in it.
Tree ==
  [v \in {root, list, panel, label, menu} |->
     [s \in 0..1 |->
        CASE v = root -> IF s = 0 THEN <<In(list), In(panel)>> ELSE <<In(panel)>>
          [] v = panel -> IF s = 0 THEN <<In(label), Deferred(menu)>> ELSE <<In(label)>>
          [] OTHER -> <<>>]]

\* The label looks at the list.
SomeReads ==
  [v \in {root, list, panel, label, menu} |-> [s \in 0..1 |-> IF v = label THEN {list} ELSE {}]]

\* The root looks at the label while there is a list.
RootReads ==
  [v \in {root, list, panel, label, menu} |->
     [s \in 0..1 |-> IF v = root /\ s = 0 THEN {label} ELSE {}]]

\* The tree of the run is of those that the theorems are about: with other reads, or another
\* view cached, it need not be.
ASSUME TreeAssumption ==
  Reads = SomeReads /\ Cached = {panel, label} => ReadsApart /\ NothingCachedDeferred
=============================================================================
