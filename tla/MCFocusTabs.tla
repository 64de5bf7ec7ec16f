---- MODULE MCFocusTabs ----
EXTENDS FocusTabs
CONSTANTS h1, h2, h3
SomeTabs == [h \in Handles |-> {[index |-> IF h = h2 THEN 1 ELSE 0, stop |-> TRUE]}]
NewTabs == [h \in Handles |-> IF h = h1 THEN {[index |-> 2, stop |-> FALSE]} ELSE {}]
HeldOf == [h \in Handles |-> 1]
====
