-------------------------------- MODULE Keymap --------------------------------
(***************************************************************************)
(* Which bindings a sequence of keystrokes finds: Keymap::bindings_for_input *)
(* of src/src/keymap.rs, and DispatchTree::dispatch_key and flush_dispatch of *)
(* src/src/key_dispatch.rs, which cut what was typed into pieces.            *)
(*                                                                         *)
(* A keymap is a sequence of bindings in the order they were added, each    *)
(*   [keys, context, disables, user]:                                       *)
(* its keystrokes, the one context it asks for or Anywhere, whether its     *)
(* action is NoAction, and whether its meta says that a user wrote it.      *)
(* A context stack is the sequence of key contexts from the root to the     *)
(* focus.  (Of the predicates only identifiers are here.)                   *)
(***************************************************************************)
EXTENDS Integers, Sequences, SequencesExt

Anywhere == "anywhere"
NotEnabled == -1

\* A binding for some keystrokes, and a stack of contexts.
Binding(keys) ==
  [keys : Seq(keys), context : STRING, disables : BOOLEAN, user : BOOLEAN]
ContextStack == Seq(STRING)

\* Keymap::binding_enabled: how deep in the stack a binding matches.  Without a
\* predicate it is as good as the deepest context.
Depth(binding, contexts) ==
  LET at == {d \in DOMAIN contexts : contexts[d] = binding.context} IN
  IF binding.context = Anywhere THEN Len(contexts)
  ELSE IF at = {} THEN NotEnabled ELSE Max(at)

Enabled(keymap, contexts) ==
  {i \in DOMAIN keymap : Depth(keymap[i], contexts) # NotEnabled}

\* KeyBinding::match_keystrokes: all of a binding was typed, or only its beginning.
Complete(keymap, contexts, typed) ==
  {i \in Enabled(keymap, contexts) : keymap[i].keys = typed}
Begun(keymap, contexts, typed) ==
  {i \in Enabled(keymap, contexts) : IsStrictPrefix(typed, keymap[i].keys)}

\* The order of precedence: the deeper context, then the later binding.
Precedes(keymap, contexts, i, j) ==
  LET di == Depth(keymap[i], contexts)
      dj == Depth(keymap[j], contexts)
  IN  di > dj \/ (di = dj /\ i > j)

\* bindings_for_input, what is to be tried: a NoAction of the user hides every
\* binding it precedes, one of a built-in keymap nothing.
Bindings(keymap, contexts, typed) ==
  LET complete == Complete(keymap, contexts, typed)
      hidden(i) == \E j \in complete :
                     /\ keymap[j].disables /\ keymap[j].user
                     /\ Precedes(keymap, contexts, j, i)
      found == {i \in complete : ~keymap[i].disables /\ ~hidden(i)}
      before(i) == {j \in found : Precedes(keymap, contexts, j, i)}
  IN  [n \in 1..Cardinality(found) |->
         CHOOSE i \in found : Cardinality(before(i)) = n - 1]

\* bindings_for_input, whether more keystrokes may find another binding: one that
\* is not older than the first one found, nor followed by a NoAction for the same
\* keystrokes.
Pending(keymap, contexts, typed) ==
  LET found == Bindings(keymap, contexts, typed)
      begun == {i \in Begun(keymap, contexts, typed) :
                  found # <<>> => i > found[1]}
  IN  \E i \in begun :
        /\ ~keymap[i].disables
        /\ ~ \E j \in begun :
               j > i /\ keymap[j].disables /\ keymap[j].keys = keymap[i].keys

-----------------------------------------------------------------------------
(* A piece is a number of keystrokes, and the bindings to try for them.     *)

Piece(len, bindings) == [len |-> len, bindings |-> bindings]

\* DispatchTree::replay_prefix: the longest beginning that has bindings, or the
\* first keystroke without any.
ReplayPrefix(keymap, contexts, typed) ==
  LET bound == {n \in DOMAIN typed :
                  Bindings(keymap, contexts, SubSeq(typed, 1, n)) # <<>>}
      n == IF bound = {} THEN 1 ELSE Max(bound)
  IN  Piece(n, Bindings(keymap, contexts, SubSeq(typed, 1, n)))

\* Mutant of FlushDispatch: what follows the first piece is not flushed.
FlushDispatchFirst(keymap, contexts, typed) == <<ReplayPrefix(keymap, contexts, typed)>>

\* DispatchTree::flush_dispatch: all of the keystrokes, piece by piece.
FlushDispatch(keymap, contexts, typed) ==
  LET from[n \in 0..Len(typed)] ==
        IF n = Len(typed) THEN <<>>
        ELSE LET piece == ReplayPrefix(keymap, contexts, SubSeq(typed, n + 1, Len(typed)))
             IN  <<piece>> \o from[n + piece.len]
  IN  from[0]

\* DispatchTree::dispatch_key for everything typed, the new keystroke last: it is
\* pending, or the end of a binding, or (a piece without bindings) not bound; or
\* the beginning is replayed and the rest looked at again.
DispatchKey(keymap, contexts, typed) ==
  LET all == Len(typed)
      from[n \in 0..(all - 1)] ==
        LET rest == SubSeq(typed, n + 1, all)
            found == Bindings(keymap, contexts, rest)
            piece == ReplayPrefix(keymap, contexts, SubSeq(rest, 1, Len(rest) - 1))
            later == from[n + piece.len]
        IN  IF Pending(keymap, contexts, rest)
            THEN [pieces |-> <<>>, pending |-> Len(rest), bound |-> found # <<>>]
            ELSE IF found # <<>> \/ Len(rest) = 1
            THEN [pieces |-> <<Piece(Len(rest), found)>>, pending |-> 0, bound |-> FALSE]
            ELSE [later EXCEPT !.pieces = <<piece>> \o @]
  IN  from[0]
=============================================================================
