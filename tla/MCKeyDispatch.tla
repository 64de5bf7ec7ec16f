---------------------------- MODULE MCKeyDispatch -----------------------------
(* KeyDispatch for TLC: a workspace with a pane in it, and few bindings.     *)
EXTENDS KeyDispatch
CONSTANTS j, k, pane, workspace

Contexts ==
  [f \in {Nobody, pane, workspace} |->
     CASE f = pane -> <<"workspace", "pane">>
       [] f = workspace -> <<"workspace">>
       [] OTHER -> <<>>]

Binds(keys, context) == [keys |-> keys, context |-> context, disables |-> FALSE, user |-> TRUE]
Disables(keys, context, user) == [keys |-> keys, context |-> context, disables |-> TRUE, user |-> user]

\* Prefixes of each other in both orders, pieces to replay, and disabled ones.
SomeKeymaps ==
  {<<Binds(<<j>>, "pane"), Binds(<<j, k>>, "workspace"), Binds(<<k>>, Anywhere)>>,
   <<Binds(<<j, k, j>>, Anywhere), Binds(<<j>>, "workspace")>>,
   <<Binds(<<j, k, j>>, "workspace"), Binds(<<k, k>>, "pane"), Binds(<<k, k>>, Anywhere)>>,
   <<Binds(<<j, k>>, "workspace"), Disables(<<j, k>>, "pane", TRUE)>>,
   <<Binds(<<j>>, "workspace"), Disables(<<j>>, "pane", FALSE), Binds(<<j, j>>, "pane")>>}

\* A NoAction in the outer context, after the binding in the inner one.
DisabledOutside ==
  {<<Binds(<<j, k>>, "pane"), Disables(<<j, k>>, "workspace", TRUE)>>}
=============================================================================
