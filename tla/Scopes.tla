------------------------------- MODULE Scopes -------------------------------
(* What a game may use only inside a callback: the framebuffer, the data   *)
(* of a bitmap, a bitmap as the drawing context and a bitmap as the        *)
(* stencil (runtime.go).  Callbacks nest; the game keeps the views it was  *)
(* given, and may call them at any time.                                   *)
EXTENDS Integers, Sequences, FiniteSets, SequencesExt

CONSTANTS
  Images,          \* owned bitmaps
  Frames,          \* bitmaps that are lent, and stay open
  Height,          \* rows of the framebuffer and of a bitmap
  Nesting,         \* bound: callbacks inside one another
  MaxViews,        \* bound: views that a game is given
  ClosesBorrowed,  \* whether games close a bitmap that a callback is about
  None

ScopesAssumption ==
  /\ Images \cap Frames = {}
  /\ Height \in Nat /\ MaxViews \in Nat
  /\ None \notin Images \cup Frames \cup Nat

VARIABLES
  closed,         \* owned bitmaps that are closed and freed
  scopes,         \* the callbacks that run: [kind, target, view]
  views,          \* the views: [target, valid, dirty: the rows from low to high]
  stencilActive,  \* applicationContext.stencilActive
  stencil,        \* the native stencil
  contexts,       \* the native stack of drawing contexts
  marked,         \* rows that the native side was told to show
  touched,        \* history: rows of the framebuffer set through a view
  strayed         \* history: freed memory was used

scoped ==
  <<closed, scopes, views, stencilActive, stencil, contexts, marked, touched, strayed>>

Init ==
  /\ closed = {} /\ scopes = <<>> /\ views = <<>>
  /\ stencilActive = FALSE /\ stencil = None /\ contexts = <<>>
  /\ marked = {} /\ touched = {} /\ strayed = FALSE

Rows == 0 .. Height - 1
Clean == [low |-> Height, high |-> -1]
Live(b) == b \in Frames \cup (Images \ closed)

Enter(kind, target, view) ==
  /\ Len(scopes) < Nesting
  /\ scopes' = Append(scopes, [kind |-> kind, target |-> target, view |-> view])

GivenView(kind, target) ==
  /\ Len(views) < MaxViews
  /\ Enter(kind, target, Len(views) + 1)
  /\ views' = Append(views, [target |-> target, valid |-> TRUE, dirty |-> Clean])
  /\ UNCHANGED <<closed, stencilActive, stencil, contexts, marked, touched, strayed>>

WithFramebuffer == GivenView("framebuffer", None)
WithBitmapData(b) == b \in Images /\ Live(b) /\ GivenView("data", b)

DrawInto(b) ==
  /\ b \in Images /\ Live(b)
  /\ Enter("context", b, None)
  /\ contexts' = Append(contexts, b)
  /\ UNCHANGED <<closed, views, stencilActive, stencil, marked, touched, strayed>>

WithStencil(b) ==
  /\ ~stencilActive /\ Live(b)
  /\ Enter("stencil", b, None)
  /\ stencilActive' = TRUE /\ stencil' = b
  /\ UNCHANGED <<closed, views, contexts, marked, touched, strayed>>

(* The innermost callback returns, with an error or without. *)
Expire(scope) ==
  /\ scope.kind \in {"framebuffer", "data"}
  /\ views' = [views EXCEPT ![scope.view].valid = FALSE]
  /\ marked' = IF scope.kind = "framebuffer"
               THEN marked \cup (views[scope.view].dirty.low .. views[scope.view].dirty.high) ELSE marked
  /\ UNCHANGED <<stencilActive, stencil, contexts>>
Restore(scope) ==
  /\ scope.kind = "context"
  /\ contexts' = Front(contexts)
  /\ UNCHANGED <<views, marked, stencilActive, stencil>>
Unmask(scope) ==
  /\ scope.kind = "stencil"
  /\ stencilActive' = FALSE /\ stencil' = None
  /\ UNCHANGED <<views, marked, contexts>>
Return ==
  /\ scopes # <<>>
  /\ Expire(Last(scopes)) \/ Restore(Last(scopes)) \/ Unmask(Last(scopes))
  /\ scopes' = Front(scopes)
  /\ UNCHANGED <<closed, touched, strayed>>

(* SetPixel and MarkDirtyRows of a view; a view of a bitmap is dirty as a  *)
(* whole.                                                                  *)
MarkDirtyRows(v, start, end) ==
  views' = [views EXCEPT ![v].dirty =
              IF views[v].target # None THEN [low |-> 0, high |-> Height - 1]
              ELSE [low |-> IF start < @.low THEN start ELSE @.low,
                    high |-> IF end > @.high THEN end ELSE @.high]]
Usable(v) == v \in DOMAIN views /\ views[v].valid
SetPixel(v, y) ==
  /\ Usable(v)
  /\ MarkDirtyRows(v, y, y)
  /\ touched' = IF views[v].target = None THEN touched \cup {y} ELSE touched
  /\ strayed' = (strayed \/ views[v].target \in closed \/ ~views[v].valid)
  /\ UNCHANGED <<closed, scopes, stencilActive, stencil, contexts, marked>>
MarkRows(v, start, end) ==
  /\ Usable(v) /\ start <= end
  /\ MarkDirtyRows(v, start, end)
  /\ UNCHANGED <<closed, scopes, stencilActive, stencil, contexts, marked, touched, strayed>>

(* Whatever is drawn goes into the context, through the stencil. *)
Draw ==
  /\ strayed' = (strayed \/ stencil \in closed \/ (contexts # <<>> /\ Last(contexts) \in closed))
  /\ UNCHANGED <<closed, scopes, views, stencilActive, stencil, contexts, marked, touched>>

Close(b) ==
  /\ b \in Images /\ Live(b)
  /\ ClosesBorrowed \/ \A i \in DOMAIN scopes : scopes[i].target # b
  /\ closed' = closed \cup {b}
  /\ UNCHANGED <<scopes, views, stencilActive, stencil, contexts, marked, touched, strayed>>

Next ==
  \/ WithFramebuffer \/ Return \/ Draw
  \/ \E b \in Images \cup Frames : WithBitmapData(b) \/ DrawInto(b) \/ WithStencil(b) \/ Close(b)
  \/ \E v \in 1 .. MaxViews, y, z \in Rows : SetPixel(v, y) \/ MarkRows(v, y, z)
Spec == Init /\ [][Next]_scoped

-----------------------------------------------------------------------------
TypeOK ==
  /\ closed \subseteq Images
  /\ \A i \in DOMAIN scopes : scopes[i].view \in {None} \cup DOMAIN views
  /\ marked \subseteq Rows /\ touched \subseteq Rows

Running(kind) == {i \in DOMAIN scopes : scopes[i].kind = kind}
Depth(i) == Cardinality({j \in Running("context") : j <= i})

(* The native side draws where, and through what, the running callbacks    *)
(* say: API.md, "The previous native drawing context is restored before    *)
(* DrawInto returns" and "clears the native stencil before returning".     *)
NativeFollowsScopes ==
  /\ Len(contexts) = Cardinality(Running("context"))
  /\ \A i \in Running("context") : contexts[Depth(i)] = scopes[i].target
  /\ {scopes[i].target : i \in Running("stencil")} = {stencil} \ {None}
  /\ Cardinality(Running("stencil")) <= 1
  /\ stencilActive <=> stencil # None

(* API.md, "checked operations on the view return ErrFramebufferExpired    *)
(* after the callback": a view can be used exactly while its callback      *)
(* runs; and what was set is shown, at the latest when the last callback   *)
(* that may have set it returns.                                           *)
ViewsEnd ==
  /\ \A v \in DOMAIN views : views[v].valid <=> \E i \in DOMAIN scopes : scopes[i].view = v
  /\ Running("framebuffer") = {} => touched \subseteq marked

(* No freed bitmap is drawn into, through, or set pixels of. *)
NothingStrays == ~strayed
=============================================================================
