----------------------------- MODULE KeyDispatch ------------------------------
(***************************************************************************)
(* Keystrokes on their way through a Window: dispatch_key_event, the pending *)
(* input of bindings with several keystrokes and its timeout, and           *)
(* replay_pending_input (src/src/window.rs).                                *)
(*                                                                         *)
(* Everything runs on the main thread, but actions, key listeners and input *)
(* handlers are user code: in the middle of a dispatch it moves the focus   *)
(* and dispatches keystrokes of its own.  The timer is a task that lives in *)
(* the pending input: it is cancelled when that is dropped.                 *)
(*                                                                         *)
(* Keystrokes are numbered as they are typed.                               *)
(***************************************************************************)
EXTENDS Keymap

CONSTANTS
  Keys,        \* keystrokes
  Keymaps,     \* the keymaps a run starts with
  Focuses,     \* the focus handles of the window
  Nobody,      \* no focus
  ContextsOf,  \* the context stack of each focus in the rendered frame
  MaxTyped,    \* bound: how many keystrokes are typed
  MaxDepth     \* bound: how deep dispatches nest

ASSUME NobodyAssumption == Nobody \notin Focuses
ASSUME KeymapsAssumption == Keymaps \subseteq Seq(Binding(Keys))
ASSUME ContextsAssumption == ContextsOf \in [Focuses \cup {Nobody} -> ContextStack]
ASSUME BoundsAssumption == MaxTyped \in Nat /\ MaxDepth \in Nat \ {0}

Ids == 1..MaxTyped

VARIABLES
  keymap,   \* the keymap
  focus,    \* Window.focus
  pending,  \* Window.pending_input
  stack,    \* the dispatches that have not returned
  typed,    \* history: every keystroke
  fate,     \* history: the keystrokes that were dealt with, in that order
  intercepted, \* history: the keystrokes that an interceptor stopped
  nested,   \* history: user code of a dispatch dispatched a keystroke
  shown,    \* history: what the observers of the pending input saw last
  silent    \* history: the pending input was cleared without telling them

vars == <<keymap, focus, pending, stack, typed, fate, intercepted, nested, shown, silent>>

\* No pending input.  home, a history, is the focus whose bindings it was looked up
\* in: not its focus when that moved while what was before it was replayed.
NoPending ==
  [keys |-> <<>>, focus |-> Nobody, home |-> Nobody, needs |-> FALSE, timer |-> FALSE]

\* A dispatch of a key event or of the timer: the pieces still to be handled (the
\* last one of a key event may be the event itself), the keystrokes to store when
\* they are, whether those need a timeout, the focus it began with, and whether user
\* code runs.
Dispatch(of, pieces, store, needs) ==
  [of |-> of, pieces |-> pieces, store |-> store, needs |-> needs, home |-> focus,
   user |-> FALSE]

Top == stack[Len(stack)]
Below == SubSeq(stack, 1, Len(stack) - 1)
Replace(dispatch) == stack' = Append(Below, dispatch)

\* The platform's event loop, or user code inside of a dispatch.
UserCode == stack # <<>> => Top.user

KeysOf(ids, all) == [n \in DOMAIN ids |-> all[ids[n]]]

\* The pieces of Keymap, each with the keystrokes it is about.
Cut(ids, pieces) ==
  LET start[n \in 1..(Len(pieces) + 1)] ==
        IF n = 1 THEN 0 ELSE start[n - 1] + pieces[n - 1].len
  IN  [n \in DOMAIN pieces |->
         [ids |-> SubSeq(ids, start[n] + 1, start[n + 1]),
          bindings |-> pieces[n].bindings]]

Init ==
  /\ keymap \in Keymaps
  /\ focus = Nobody
  /\ pending = NoPending
  /\ stack = <<>>
  /\ typed = <<>>
  /\ fate = <<>>
  /\ intercepted = {}
  /\ nested = FALSE
  /\ shown = <<>>
  /\ silent = FALSE

-----------------------------------------------------------------------------
\* Window::focus clears the pending input.
Focus(f) ==
  /\ UserCode
  /\ focus # f
  /\ focus' = f
  /\ pending' = NoPending
  /\ fate' = fate \o pending.keys
  /\ silent' = (silent \/ pending.keys # <<>>)
  /\ UNCHANGED <<keymap, stack, typed, intercepted, nested, shown>>

\* Window::blur keeps it.
Blur ==
  /\ UserCode
  /\ focus # Nobody
  /\ focus' = Nobody
  /\ UNCHANGED <<keymap, pending, stack, typed, fate, intercepted, nested, shown, silent>>

\* clear_pending_keystrokes, when a menu of the application opens.
OpenMenu ==
  /\ stack = <<>>
  /\ pending.keys # <<>>
  /\ pending' = NoPending
  /\ fate' = fate \o pending.keys
  /\ silent' = TRUE
  /\ UNCHANGED <<keymap, focus, stack, typed, intercepted, nested, shown>>

\* What was typed before for the focus that is there now; the input that was
\* pending for another one is forgotten.
StillPending ==
  IF pending.focus # Nobody /\ pending.focus # focus THEN NoPending ELSE pending

\* A key down event: the keystroke interceptors see it first, user code too.  The
\* dispatch path is that of the focus before them.
TypeKey(key) ==
  LET id == Len(typed) + 1 IN
  /\ UserCode
  /\ Len(stack) < MaxDepth
  /\ id <= MaxTyped
  /\ typed' = Append(typed, key)
  /\ stack' = Append(stack,
       [Dispatch("interceptor", <<[ids |-> <<id>>, bindings |-> <<>>]>>, <<>>, FALSE)
          EXCEPT !.user = TRUE])
  /\ nested' = (nested \/ stack # <<>>)
  /\ UNCHANGED <<keymap, focus, pending, fate, intercepted, shown, silent>>

\* An interceptor stops it: only the key listeners see it, and what is pending stays.
Intercept ==
  /\ stack # <<>>
  /\ Top.of = "interceptor"
  /\ Replace([Top EXCEPT !.of = "intercepted", !.user = FALSE])
  /\ intercepted' = intercepted \cup Range(Top.pieces[1].ids)
  /\ UNCHANGED <<keymap, focus, pending, typed, fate, nested, shown, silent>>

\* Mutant of DispatchEvent: the pending input is read, not taken.
DispatchEventKeepsPending(text) ==
  LET ids == StillPending.keys \o Top.pieces[1].ids
      result == DispatchKey(keymap, ContextsOf[Top.home], KeysOf(ids, typed))
  IN
  /\ stack # <<>>
  /\ Top.of = "interceptor"
  /\ ~text
  /\ Replace([Top EXCEPT
       !.of = "key", !.user = FALSE, !.pieces = Cut(ids, result.pieces),
       !.store = SubSeq(ids, Len(ids) - result.pending + 1, Len(ids)),
       !.needs = StillPending.needs \/ result.bound])
  /\ UNCHANGED <<keymap, focus, pending, typed, fate, intercepted, nested, shown, silent>>

\* dispatch_key_event from the interceptors to the first piece.  An event that
\* prefers character input is not tried on bindings when text is accepted.
DispatchEvent(text) ==
  LET ids == StillPending.keys \o Top.pieces[1].ids
      result == DispatchKey(keymap, ContextsOf[Top.home], KeysOf(ids, typed))
      pieces == Cut(ids, result.pieces)
      last == Len(pieces)
  IN
  /\ stack # <<>>
  /\ Top.of = "interceptor"
  /\ pending' = NoPending
  /\ fate' = IF StillPending = pending THEN fate ELSE fate \o pending.keys
  /\ Replace([Top EXCEPT
       !.of = "key", !.user = FALSE,
       !.pieces = IF text /\ result.pending = 0
                  THEN [pieces EXCEPT ![last].bindings = <<>>] ELSE pieces,
       !.store = SubSeq(ids, Len(ids) - result.pending + 1, Len(ids)),
       !.needs = StillPending.needs \/ result.bound])
  /\ UNCHANGED <<keymap, focus, typed, intercepted, nested, shown, silent>>

\* The first binding of the next piece is tried: user code, if something listens
\* to its action.  A piece without bindings goes to the key listeners and the
\* input handler (its last keystroke does: the others are swallowed).
Try ==
  /\ stack # <<>>
  /\ ~Top.user
  /\ Top.pieces # <<>>
  /\ Replace([Top EXCEPT !.user = TRUE])
  /\ UNCHANGED <<keymap, focus, pending, typed, fate, intercepted, nested, shown, silent>>

\* It returns.  When it propagates, the next binding is tried, and after the last
\* one the piece is handled like one without bindings.
Tried(handled) ==
  LET piece == Head(Top.pieces)
      over  == handled \/ piece.bindings = <<>>
  IN
  /\ stack # <<>>
  /\ Top.user /\ Top.of # "interceptor"
  /\ Replace([Top EXCEPT
       !.user = FALSE,
       !.pieces = IF over THEN Tail(@)
                  ELSE <<[piece EXCEPT !.bindings = Tail(@)]>> \o Tail(@)])
  /\ fate' = IF over THEN fate \o piece.ids ELSE fate
  /\ UNCHANGED <<keymap, focus, pending, typed, intercepted, nested, shown, silent>>

\* Mutant of EndDispatch: only this keystroke decides whether there is a timer.
EndDispatchForgetsNeeds(text) ==
  /\ stack # <<>>
  /\ ~Top.user
  /\ Top.pieces = <<>>
  /\ stack' = Below
  /\ IF Top.store = <<>> THEN pending' = pending
     ELSE pending' = [keys |-> Top.store, focus |-> focus, home |-> Top.home,
                         needs |-> text, timer |-> text]
  /\ IF Top.of = "key" THEN shown' = pending'.keys /\ silent' = FALSE
     ELSE UNCHANGED <<shown, silent>>
  /\ UNCHANGED <<keymap, focus, typed, fate, intercepted, nested>>

\* The end of a dispatch.  Pending keystrokes are stored for the focus that is there
\* now, with a timer if they, or what was pending before them, are bound or were
\* accepted as text.  The observers were told of a flush before it.
EndDispatch(text) ==
  LET needs == Top.needs \/ text IN
  /\ stack # <<>>
  /\ ~Top.user
  /\ Top.pieces = <<>>
  /\ stack' = Below
  /\ \/ /\ Top.store # <<>>
        /\ pending' = [keys |-> Top.store, focus |-> focus, home |-> Top.home,
                       needs |-> needs, timer |-> needs]
     \/ /\ Top.store = <<>> /\ ~text
        /\ UNCHANGED pending
  /\ \/ /\ Top.of = "key"
        /\ shown' = pending'.keys
        /\ silent' = FALSE
     \/ /\ Top.of # "key"
        /\ UNCHANGED <<shown, silent>>
  /\ UNCHANGED <<keymap, focus, typed, fate, intercepted, nested>>

\* Mutant of Timeout: the observers are not told of the flush.
TimeoutTellsNobody ==
  /\ stack = <<>>
  /\ pending.timer
  /\ pending' = NoPending
  /\ \/ /\ pending.focus # focus
        /\ fate' = fate \o pending.keys
        /\ silent' = TRUE
        /\ UNCHANGED stack
     \/ /\ pending.focus = focus
        /\ stack' = <<Dispatch("timer", Cut(pending.keys,
                       FlushDispatch(keymap, ContextsOf[focus], KeysOf(pending.keys, typed))),
                       <<>>, FALSE)>>
        /\ UNCHANGED <<fate, silent>>
  /\ UNCHANGED <<keymap, focus, typed, intercepted, nested, shown>>

\* The timer, a second after the last pending keystroke: the pending input is
\* flushed, or forgotten when it is of another focus.
Timeout ==
  /\ stack = <<>>
  /\ pending.timer
  /\ pending' = NoPending
  /\ \/ /\ pending.focus # focus
        /\ fate' = fate \o pending.keys
        /\ silent' = TRUE
        /\ UNCHANGED <<stack, shown>>
     \/ /\ pending.focus = focus
        /\ stack' = <<Dispatch("timer", Cut(pending.keys,
                       FlushDispatch(keymap, ContextsOf[focus], KeysOf(pending.keys, typed))),
                       <<>>, FALSE)>>
        /\ shown' = <<>>
        /\ silent' = FALSE
        /\ UNCHANGED fate
  /\ UNCHANGED <<keymap, focus, typed, intercepted, nested>>

Next ==
  \/ \E f \in Focuses : Focus(f)
  \/ Blur
  \/ OpenMenu
  \/ \E key \in Keys : TypeKey(key)
  \/ Intercept
  \/ \E text \in BOOLEAN : DispatchEvent(text)
  \/ Try
  \/ \E handled \in BOOLEAN : Tried(handled)
  \/ \E text \in BOOLEAN : EndDispatch(text)
  \/ Timeout

Spec == Init /\ [][Next]_vars

-----------------------------------------------------------------------------
PieceType == [ids : Seq(Ids), bindings : Seq(Nat)]
DispatchType == [of : {"interceptor", "intercepted", "key", "timer"}, pieces : Seq(PieceType), store : Seq(Ids),
                 needs : BOOLEAN, home : Focuses \cup {Nobody}, user : BOOLEAN]

\* What the variables hold; without keystrokes there is no pending input, so no
\* timer and no focus of one.
TypeOK ==
  /\ keymap \in Keymaps
  /\ focus \in Focuses \cup {Nobody}
  /\ pending \in [keys : Seq(Ids), focus : Focuses \cup {Nobody},
                  home : Focuses \cup {Nobody}, needs : BOOLEAN, timer : BOOLEAN]
  /\ pending.keys = <<>> => pending = NoPending
  /\ stack \in Seq(DispatchType)
  /\ typed \in Seq(Keys)
  /\ fate \in Seq(Ids)
  /\ intercepted \subseteq Ids
  /\ nested \in BOOLEAN
  /\ shown \in Seq(Ids)
  /\ silent \in BOOLEAN

\* What a dispatch still has to do, and what it will store.
WorkOf(dispatch) ==
  FlattenSeq([n \in DOMAIN dispatch.pieces |-> dispatch.pieces[n].ids]) \o dispatch.store
Work == FlattenSeq([n \in DOMAIN stack |-> WorkOf(stack[n])])

\* Keystrokes are dealt with once and in the order they were typed, however they
\* are pending, replayed, timed out or cleared, as long as no interceptor stops them
\* and user code does not dispatch keystrokes in the middle of a dispatch.
InTypedOrder ==
  LET all == fate \o pending.keys \o Work IN
  ~nested =>
    /\ \A id \in DOMAIN typed \ intercepted : \E n \in DOMAIN all : all[n] = id
    /\ \A n \in DOMAIN all : all[n] \in DOMAIN typed
    /\ \A m, n \in DOMAIN all :
         m < n /\ all[m] \notin intercepted /\ all[n] \notin intercepted => all[m] < all[n]

\* And if it does, still no keystroke is dealt with twice.
NeverTwice == IsInjective(fate \o pending.keys \o Work)

\* Both, and the types: keystrokes are neither lost, repeated nor overtaken, and
\* without pending ones there is no timer left (dispatch_key_event, replay_pending_input).
KeysDealtWith == TypeOK /\ InTypedOrder /\ NeverTwice

\* Keystrokes that are a binding, where they were typed, wait for a longer one only
\* with a timer, whatever was pending before or replayed meanwhile.
BoundOnesTimeOut ==
  pending.keys # <<>>
    /\ Bindings(keymap, ContextsOf[pending.home], KeysOf(pending.keys, typed)) # <<>>
  => pending.timer

\* The observers of the pending input have seen what is pending, unless it was
\* cleared by a change of the focus or a menu since.
ShownIsPending == stack = <<>> /\ ~silent => shown = pending.keys

-----------------------------------------------------------------------------
(* What the comment on bindings_for_input says.                            *)

\* "Disabled bindings are evaluated with the same precedence rules so you can
\* disable a rule in a given context only": a binding that would be found when all
\* of it is typed, and no beginning of which is bound, can be typed.
DisabledByPrecedence ==
  \A f \in Focuses, i \in DOMAIN keymap :
    LET found(n) == Bindings(keymap, ContextsOf[f], SubSeq(keymap[i].keys, 1, n))
        all == Len(keymap[i].keys)
    IN  found(all) # <<>> /\ Head(found(all)) = i /\ (\A n \in 1..(all - 1) : found(n) = <<>>)
        => \A n \in 1..(all - 1) :
             Pending(keymap, ContextsOf[f], SubSeq(keymap[i].keys, 1, n))
=============================================================================
