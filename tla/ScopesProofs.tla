---------------------------- MODULE ScopesProofs ----------------------------
(***************************************************************************)
(* Proofs about callbacks that lend memory, for any bitmaps, heights and   *)
(* depths of nesting: the native side draws where and through what the     *)
(* running callbacks say, views end with their callbacks, and nothing is   *)
(* drawn into freed memory by games that keep open what a callback is      *)
(* about.                                                                  *)
(***************************************************************************)
EXTENDS Scopes, FiniteSetTheorems, TLAPS

Targets == Images \cup Frames \cup {None}
Scope == [kind : {"framebuffer", "data", "context", "stencil"},
          target : Targets, view : Nat \cup {None}]
Dirty == [low : 0 .. Height, high : -1 .. Height - 1]
View == [target : Targets, valid : BOOLEAN, dirty : Dirty]

Typed ==
  /\ closed \subseteq Images
  /\ scopes \in Seq(Scope) /\ views \in Seq(View) /\ contexts \in Seq(Images)
  /\ stencil \in Targets /\ stencilActive \in BOOLEAN
  /\ marked \subseteq Rows /\ touched \subseteq Rows
  /\ strayed \in BOOLEAN

(* The views of the running callbacks, and no others, are valid. *)
Viewing(i) == scopes[i].kind \in {"framebuffer", "data"}
ViewOf(i) ==
  IF Viewing(i)
  THEN /\ scopes[i].view \in DOMAIN views
       /\ views[scopes[i].view].target = scopes[i].target
       /\ scopes[i].kind = "framebuffer" <=> scopes[i].target = None
  ELSE scopes[i].view = None /\ scopes[i].target # None
Given ==
  /\ \A i \in DOMAIN scopes : ViewOf(i)
  /\ \A i, j \in DOMAIN scopes : Viewing(i) /\ scopes[i].view = scopes[j].view => i = j
  /\ \A v \in DOMAIN views : views[v].valid <=> \E i \in DOMAIN scopes : scopes[i].view = v

(* A row that was set is shown, or in the dirty rows of a valid view. *)
Soiled(y) ==
  \E v \in DOMAIN views :
    /\ views[v].valid /\ views[v].target = None
    /\ views[v].dirty.low <= y /\ y <= views[v].dirty.high
Shown == \A y \in touched : y \in marked \/ Soiled(y)

(* The native contexts are of running callbacks. *)
Entered ==
  \A k \in 1 .. Cardinality(Running("context")) : \E i \in Running("context") : Depth(i) = k

IInv == Typed /\ Given /\ Shown /\ NativeFollowsScopes /\ Entered

-----------------------------------------------------------------------------
(* Entering and leaving. *)

LEMMA EnterIs ==
  ASSUME Typed, NEW kind, NEW target, NEW view, Enter(kind, target, view)
  PROVE  /\ Len(scopes') = Len(scopes) + 1
         /\ DOMAIN scopes = 1 .. Len(scopes) /\ DOMAIN scopes' = 1 .. Len(scopes) + 1
         /\ \A i \in 1 .. Len(scopes) : scopes'[i] = scopes[i]
         /\ scopes'[Len(scopes) + 1] = [kind |-> kind, target |-> target, view |-> view]
         /\ Len(scopes) \in Nat
BY DEF Typed, Enter

LEMMA LeaveIs ==
  ASSUME Typed, scopes # <<>>, scopes' = Front(scopes)
  PROVE  /\ Len(scopes) \in Nat \ {0} /\ scopes' \in Seq(Scope)
         /\ DOMAIN scopes = 1 .. Len(scopes) /\ DOMAIN scopes' = 1 .. Len(scopes) - 1
         /\ \A i \in 1 .. Len(scopes) - 1 : scopes'[i] = scopes[i]
         /\ Last(scopes) = scopes[Len(scopes)] /\ Last(scopes) \in Scope
<1>1. Len(scopes) \in Nat /\ Len(scopes) # 0
  BY DEF Typed
<1>2. Last(scopes) = scopes[Len(scopes)] /\ Last(scopes) \in Scope
  BY <1>1 DEF Last, Typed
<1>3. scopes' = SubSeq(scopes, 1, Len(scopes) - 1)
  BY DEF Front
<1> QED
  BY <1>1, <1>2, <1>3 DEF Typed

LEMMA RunningIsFinite ==
  ASSUME Typed, NEW kind
  PROVE  /\ Running(kind) \subseteq 1 .. Len(scopes) /\ IsFiniteSet(Running(kind))
         /\ Cardinality(Running(kind)) \in Nat
<1>1. Len(scopes) \in Nat /\ Running(kind) \in SUBSET (1 .. Len(scopes))
  BY DEF Typed, Running
<1>2. IsFiniteSet(1 .. Len(scopes))
  BY <1>1, FS_Interval
<1> QED
  BY <1>1, <1>2, FS_Subset, FS_CardinalityType

LEMMA EnterRuns ==
  ASSUME Typed, NEW kind, NEW target, NEW view, Enter(kind, target, view), NEW k
  PROVE  /\ Running(k)' = Running(k) \cup (IF k = kind THEN {Len(scopes) + 1} ELSE {})
         /\ Len(scopes) + 1 \notin Running(k)
         /\ Cardinality(Running(k)') = Cardinality(Running(k)) + (IF k = kind THEN 1 ELSE 0)
<1>a. scopes'[Len(scopes) + 1] = [kind |-> kind, target |-> target, view |-> view]
  BY EnterIs
<1>b. /\ DOMAIN scopes = 1 .. Len(scopes) /\ DOMAIN scopes' = 1 .. Len(scopes) + 1
      /\ \A i \in 1 .. Len(scopes) : scopes'[i] = scopes[i]
      /\ Len(scopes) \in Nat
  BY EnterIs
<1>1. /\ DOMAIN scopes = 1 .. Len(scopes) /\ DOMAIN scopes' = 1 .. Len(scopes) + 1
      /\ \A i \in 1 .. Len(scopes) : scopes'[i] = scopes[i]
      /\ scopes'[Len(scopes) + 1].kind = kind
      /\ Len(scopes) \in Nat
  BY <1>a, <1>b
<1>2. \A i : i \in {j \in DOMAIN scopes' : scopes'[j].kind = k} <=>
             \/ i \in 1 .. Len(scopes) /\ scopes[i].kind = k
             \/ i = Len(scopes) + 1 /\ k = kind
  BY <1>1
<1>3. Running(k)' = Running(k) \cup (IF k = kind THEN {Len(scopes) + 1} ELSE {})
  BY <1>1, <1>2 DEF Running
<1>4. Len(scopes) + 1 \notin Running(k)
  BY <1>1 DEF Running
<1>5. Cardinality(Running(k) \cup {Len(scopes) + 1}) = Cardinality(Running(k)) + 1
  BY <1>4, RunningIsFinite, FS_AddElement
<1>6. Cardinality(Running(k)) + 0 = Cardinality(Running(k)) /\ Running(k) \cup {} = Running(k)
  BY RunningIsFinite
<1> QED
  BY <1>3, <1>4, <1>5, <1>6

LEMMA LeaveRuns ==
  ASSUME Typed, scopes # <<>>, scopes' = Front(scopes), NEW k
  PROVE  /\ Running(k)' = Running(k) \ {Len(scopes)}
         /\ Len(scopes) \in Running(k) <=> Last(scopes).kind = k
         /\ Cardinality(Running(k)') =
              IF Last(scopes).kind = k THEN Cardinality(Running(k)) - 1 ELSE Cardinality(Running(k))
<1>1. /\ Len(scopes) \in Nat \ {0}
      /\ DOMAIN scopes = 1 .. Len(scopes) /\ DOMAIN scopes' = 1 .. Len(scopes) - 1
      /\ \A i \in 1 .. Len(scopes) - 1 : scopes'[i] = scopes[i]
      /\ Last(scopes) = scopes[Len(scopes)]
  BY LeaveIs
<1>2. \A i : i \in {j \in DOMAIN scopes' : scopes'[j].kind = k} <=>
             i \in 1 .. Len(scopes) - 1 /\ scopes[i].kind = k
  BY <1>1
<1>3. Running(k)' = Running(k) \ {Len(scopes)}
  BY <1>1, <1>2 DEF Running
<1>4. Len(scopes) \in Running(k) <=> Last(scopes).kind = k
  BY <1>1 DEF Running
<1>5. Cardinality(Running(k) \ {Len(scopes)}) =
        IF Len(scopes) \in Running(k) THEN Cardinality(Running(k)) - 1 ELSE Cardinality(Running(k))
  BY RunningIsFinite, FS_RemoveElement
<1> QED
  BY <1>3, <1>4, <1>5

(* How deep a drawing callback is among those that run. *)
LEMMA EnterDepth ==
  ASSUME Typed, NEW kind, NEW target, NEW view, Enter(kind, target, view)
  PROVE  /\ \A i \in 1 .. Len(scopes) : Depth(i)' = Depth(i)
         /\ kind = "context" =>
              \A i : i = Len(scopes) + 1 => Depth(i)' = Cardinality(Running("context")) + 1
<1>1. Running("context") \subseteq 1 .. Len(scopes) /\ Len(scopes) \in Nat
  BY RunningIsFinite, EnterIs
<1>2. Running("context")' = Running("context") \cup (IF "context" = kind THEN {Len(scopes) + 1} ELSE {})
  BY EnterRuns
<1>3. ASSUME NEW i \in 1 .. Len(scopes) PROVE Depth(i)' = Depth(i)
  <2>1. {j \in Running("context")' : j <= i} = {j \in Running("context") : j <= i}
    BY <1>1, <1>2
  <2> QED
    BY <2>1 DEF Depth
<1>4. ASSUME kind = "context", NEW i, i = Len(scopes) + 1
      PROVE  Depth(i)' = Cardinality(Running("context")) + 1
  <2>1. {j \in Running("context")' : j <= i} = Running("context")'
    BY <1>1, <1>2, <1>4
  <2>2. Cardinality(Running("context")') = Cardinality(Running("context")) + 1
    BY <1>4, EnterRuns
  <2> QED
    BY <2>1, <2>2 DEF Depth
<1> QED
  BY <1>3, <1>4

LEMMA LeaveDepth ==
  ASSUME Typed, scopes # <<>>, scopes' = Front(scopes), NEW i \in 1 .. Len(scopes) - 1
  PROVE  Depth(i)' = Depth(i)
<1>1. Running("context") \subseteq 1 .. Len(scopes) /\ Len(scopes) \in Nat
  BY RunningIsFinite, LeaveIs
<1>2. Running("context")' = Running("context") \ {Len(scopes)}
  BY LeaveRuns
<1>3. {j \in Running("context")' : j <= i} = {j \in Running("context") : j <= i}
  BY <1>1, <1>2
<1> QED
  BY <1>3 DEF Depth

LEMMA DepthIs ==
  ASSUME Typed, NEW i \in Running("context")
  PROVE  Depth(i) \in 1 .. Cardinality(Running("context"))
<1>1. {j \in Running("context") : j <= i} \in SUBSET Running("context")
  OBVIOUS
<1>2. i \in {j \in Running("context") : j <= i}
  BY RunningIsFinite
<1>3. /\ IsFiniteSet({j \in Running("context") : j <= i})
      /\ Depth(i) <= Cardinality(Running("context"))
  BY <1>1, RunningIsFinite, FS_Subset DEF Depth
<1>4. Depth(i) \in Nat /\ Depth(i) # 0
  BY <1>2, <1>3, FS_EmptySet, FS_CardinalityType DEF Depth
<1> QED
  BY <1>3, <1>4, RunningIsFinite

LEMMA LastIsDeepest ==
  ASSUME Typed, scopes # <<>>, Last(scopes).kind = "context",
         scopes' = Front(scopes), NEW i \in Running("context")'
  PROVE  Depth(i) \in 1 .. Cardinality(Running("context")) - 1
<1>1. /\ Running("context") \subseteq 1 .. Len(scopes) /\ Len(scopes) \in Nat \ {0}
      /\ IsFiniteSet(Running("context")) /\ Cardinality(Running("context")) \in Nat
  BY RunningIsFinite, LeaveIs
<1>2. /\ Running("context")' = Running("context") \ {Len(scopes)}
      /\ Len(scopes) \in Running("context")
  BY LeaveRuns
<1>3. {j \in Running("context") : j <= i} \in SUBSET Running("context")
  OBVIOUS
<1>4. Len(scopes) \notin {j \in Running("context") : j <= i}
  BY <1>1, <1>2
<1>5. Cardinality({j \in Running("context") : j <= i}) # Cardinality(Running("context"))
  BY <1>1, <1>2, <1>3, <1>4, FS_Subset
<1>6. Depth(i) \in 1 .. Cardinality(Running("context"))
  BY <1>2, DepthIs
<1> QED
  BY <1>1, <1>5, <1>6 DEF Depth

-----------------------------------------------------------------------------
(* Steps that leave the scopes alone. *)

LEMMA NativeStays ==
  ASSUME NativeFollowsScopes, Entered, UNCHANGED <<scopes, contexts, stencil, stencilActive>>
  PROVE  NativeFollowsScopes' /\ Entered'
<1>1. \A kind : Running(kind)' = Running(kind)
  BY DEF Running
<1>2. \A i : Depth(i)' = Depth(i)
  BY <1>1 DEF Depth
<1> QED
  BY <1>1, <1>2 DEF NativeFollowsScopes, Entered

(* Callbacks that lend a view. *)
LEMMA ViewStep ==
  ASSUME ScopesAssumption, IInv, NEW kind \in {"framebuffer", "data"}, NEW target \in Targets,
         kind = "framebuffer" <=> target = None, GivenView(kind, target)
  PROVE  IInv'
<1> DEFINE n == Len(scopes) + 1
           m == Len(views) + 1
<1>1. /\ Enter(kind, target, m)
      /\ views' = Append(views, [target |-> target, valid |-> TRUE, dirty |-> Clean])
      /\ UNCHANGED <<closed, stencilActive, stencil, contexts, marked, touched, strayed>>
  BY DEF GivenView
<1>2. /\ Len(scopes) \in Nat /\ DOMAIN scopes = 1 .. Len(scopes) /\ DOMAIN scopes' = 1 .. n
      /\ \A i \in 1 .. Len(scopes) : scopes'[i] = scopes[i]
  BY <1>1, EnterIs DEF IInv
<1>3. scopes'[n] = [kind |-> kind, target |-> target, view |-> m]
  BY <1>1, EnterIs DEF IInv
<1>4. /\ Len(views) \in Nat /\ DOMAIN views = 1 .. Len(views) /\ DOMAIN views' = 1 .. m
      /\ \A v \in 1 .. Len(views) : views'[v] = views[v]
      /\ views'[m] = [target |-> target, valid |-> TRUE, dirty |-> Clean]
  BY <1>1 DEF IInv, Typed
<1>5. Typed'
  <2>1. [kind |-> kind, target |-> target, view |-> m] \in Scope
    BY <1>4 DEF Scope
  <2>2. [target |-> target, valid |-> TRUE, dirty |-> Clean] \in View
    BY DEF View, Dirty, Clean, ScopesAssumption
  <2>3. scopes' \in Seq(Scope) /\ views' \in Seq(View)
    BY <1>1, <2>1, <2>2 DEF IInv, Typed, Enter
  <2> QED
    BY <1>1, <2>3 DEF IInv, Typed, Rows
<1>6. Given'
  <2>1. \A i \in 1 .. Len(scopes) : scopes[i].view # m
    BY <1>2, <1>4 DEF IInv, Given, ViewOf, ScopesAssumption
  <2>2. \A i \in DOMAIN scopes' : ViewOf(i)'
    <3>1. ASSUME NEW i \in 1 .. Len(scopes) PROVE ViewOf(i)'
      BY <1>2, <1>4 DEF IInv, Given, ViewOf, Viewing
    <3>2. ASSUME NEW i, i = n PROVE ViewOf(i)'
      BY <1>2, <1>3, <1>4, <3>2 DEF ViewOf, Viewing
    <3> QED
      BY <1>2, <3>1, <3>2
  <2>3. ASSUME NEW i \in DOMAIN scopes', NEW j \in DOMAIN scopes',
               Viewing(i)', scopes'[i].view = scopes'[j].view
        PROVE  i = j
    BY <1>2, <1>3, <2>1, <2>3 DEF IInv, Given, Viewing
  <2>4. ASSUME NEW v \in DOMAIN views'
        PROVE  views'[v].valid <=> \E i \in DOMAIN scopes' : scopes'[i].view = v
    <3>1. CASE v = m
      <4>1. n \in DOMAIN scopes' /\ scopes'[n].view = m
        BY <1>2, <1>3
      <4> QED
        BY <1>4, <3>1, <4>1
    <3>2. CASE v # m
      <4>1. v \in DOMAIN views /\ views'[v] = views[v]
        BY <1>4, <3>2
      <4>2. (\E i \in DOMAIN scopes' : scopes'[i].view = v) <=> \E i \in DOMAIN scopes : scopes[i].view = v
        BY <1>2, <1>3, <3>2
      <4> QED
        BY <4>1, <4>2 DEF IInv, Given
    <3> QED
      BY <3>1, <3>2
  <2> QED
    BY <2>2, <2>3, <2>4 DEF Given
<1>7. Shown'
  <2>1. ASSUME NEW y, Soiled(y) PROVE Soiled(y)'
    BY <1>4, <2>1 DEF Soiled
  <2> QED
    BY <1>1, <2>1 DEF IInv, Shown
<1>8. NativeFollowsScopes' /\ Entered'
  <2>a. Running("context")' = Running("context")
    BY <1>1, EnterRuns DEF IInv
  <2>c. Running("stencil")' = Running("stencil") \cup (IF "stencil" = kind THEN {n} ELSE {})
    BY <1>1, EnterRuns DEF IInv
  <2>b. Running("stencil")' = Running("stencil")
    BY <2>c
  <2>1. Running("context")' = Running("context") /\ Running("stencil")' = Running("stencil")
    BY <2>a, <2>b
  <2>2. \A i \in Running("context") \cup Running("stencil") : i \in 1 .. Len(scopes) /\ scopes'[i] = scopes[i]
    BY <1>2 DEF Running
  <2>3. \A i \in Running("context") : Depth(i)' = Depth(i)
    BY <1>1, <2>2, EnterDepth DEF IInv
  <2>4. {scopes'[i].target : i \in Running("stencil")'} = {scopes[i].target : i \in Running("stencil")}
    BY <2>1, <2>2
  <2>5. NativeFollowsScopes'
    BY <1>1, <2>1, <2>2, <2>3, <2>4 DEF IInv, NativeFollowsScopes
  <2>6. Entered'
    BY <2>1, <2>2, <2>3 DEF IInv, Entered
  <2> QED
    BY <2>5, <2>6
<1> QED
  BY <1>5, <1>6, <1>7, <1>8 DEF IInv

(* Callbacks that lend no view: drawing contexts and stencils. *)
LEMMA PlainEnter ==
  ASSUME ScopesAssumption, IInv, NEW kind \in {"context", "stencil"}, NEW b \in Images \cup Frames,
         Enter(kind, b, None), UNCHANGED <<closed, views, marked, touched, strayed>>,
         contexts' \in Seq(Images), stencil' \in Targets, stencilActive' \in BOOLEAN
  PROVE  Typed' /\ Given' /\ Shown'
<1> DEFINE n == Len(scopes) + 1
<1>1. /\ Len(scopes) \in Nat /\ DOMAIN scopes = 1 .. Len(scopes) /\ DOMAIN scopes' = 1 .. n
      /\ \A i \in 1 .. Len(scopes) : scopes'[i] = scopes[i]
  BY EnterIs DEF IInv
<1>2. scopes'[n] = [kind |-> kind, target |-> b, view |-> None]
  BY EnterIs DEF IInv
<1>3. Typed'
  <2>1. [kind |-> kind, target |-> b, view |-> None] \in Scope
    BY DEF Scope, Targets
  <2>2. scopes' \in Seq(Scope)
    BY <2>1 DEF IInv, Typed, Enter
  <2> QED
    BY <2>2 DEF IInv, Typed, Rows
<1>4. \A v \in DOMAIN views : v \in Nat /\ v # None
  BY DEF IInv, Typed, ScopesAssumption
<1>5. Given'
  <2>1. \A i \in DOMAIN scopes' : ViewOf(i)'
    <3>1. ASSUME NEW i \in 1 .. Len(scopes) PROVE ViewOf(i)'
      BY <1>1 DEF IInv, Given, ViewOf, Viewing
    <3>2. ASSUME NEW i, i = n PROVE ViewOf(i)'
      BY <1>1, <1>2, <3>2 DEF ViewOf, Viewing, ScopesAssumption
    <3> QED
      BY <1>1, <3>1, <3>2
  <2>2. ASSUME NEW i \in DOMAIN scopes', NEW j \in DOMAIN scopes',
               Viewing(i)', scopes'[i].view = scopes'[j].view
        PROVE  i = j
    <3>1. i # n
      BY <1>2, <2>2 DEF Viewing
    <3>2. scopes'[i] = scopes[i] /\ i \in DOMAIN scopes
      BY <1>1, <3>1
    <3>3. scopes[i].view \in DOMAIN views
      BY <2>2, <3>2 DEF IInv, Given, ViewOf, Viewing
    <3>4. j # n
      BY <1>2, <1>4, <2>2, <3>2, <3>3
    <3> QED
      BY <1>1, <2>2, <3>2, <3>4 DEF IInv, Given, Viewing
  <2>3. ASSUME NEW v \in DOMAIN views'
        PROVE  views'[v].valid <=> \E i \in DOMAIN scopes' : scopes'[i].view = v
    <3>1. (\E i \in DOMAIN scopes' : scopes'[i].view = v) <=> \E i \in DOMAIN scopes : scopes[i].view = v
      BY <1>1, <1>2, <1>4
    <3> QED
      BY <3>1 DEF IInv, Given
  <2> QED
    BY <2>1, <2>2, <2>3 DEF Given
<1>6. Shown'
  BY DEF IInv, Shown, Soiled
<1> QED
  BY <1>3, <1>5, <1>6

LEMMA DrawIntoStep ==
  ASSUME ScopesAssumption, IInv, NEW b, DrawInto(b)
  PROVE  IInv'
<1>1. /\ b \in Images /\ Enter("context", b, None) /\ contexts' = Append(contexts, b)
      /\ UNCHANGED <<closed, views, stencilActive, stencil, marked, touched, strayed>>
  BY DEF DrawInto
<1>2. Typed' /\ Given' /\ Shown'
  <2>1. contexts' \in Seq(Images) /\ stencil' \in Targets /\ stencilActive' \in BOOLEAN
    BY <1>1 DEF IInv, Typed
  <2> QED
    BY <1>1, <2>1, PlainEnter
<1>3. /\ Len(scopes) \in Nat /\ DOMAIN scopes = 1 .. Len(scopes) /\ DOMAIN scopes' = 1 .. Len(scopes) + 1
      /\ \A i \in 1 .. Len(scopes) : scopes'[i] = scopes[i]
  BY <1>1, EnterIs DEF IInv
<1>4. scopes'[Len(scopes) + 1] = [kind |-> "context", target |-> b, view |-> None]
  BY <1>1, EnterIs DEF IInv
<1>5. /\ Running("context")' = Running("context") \cup {Len(scopes) + 1}
      /\ Cardinality(Running("context")') = Cardinality(Running("context")) + 1
  BY <1>1, EnterRuns DEF IInv
<1>6. Running("stencil")' = Running("stencil")
  BY <1>1, EnterRuns DEF IInv
<1>7. /\ Len(contexts) \in Nat /\ Len(contexts') = Len(contexts) + 1
      /\ DOMAIN contexts = 1 .. Len(contexts) /\ DOMAIN contexts' = 1 .. Len(contexts) + 1
      /\ \A k \in 1 .. Len(contexts) : contexts'[k] = contexts[k]
      /\ contexts'[Len(contexts) + 1] = b
  BY <1>1 DEF IInv, Typed
<1>8. Len(contexts) = Cardinality(Running("context"))
  BY DEF IInv, NativeFollowsScopes
<1>9. ASSUME NEW i \in Running("context")' PROVE contexts'[Depth(i)'] = scopes'[i].target
  <2>1. CASE i = Len(scopes) + 1
    BY <1>1, <1>4, <1>7, <1>8, <2>1, EnterDepth DEF IInv
  <2>2. CASE i # Len(scopes) + 1
    <3>1. i \in Running("context") /\ i \in 1 .. Len(scopes)
      BY <1>3, <1>5, <2>2 DEF Running
    <3>2. Depth(i)' = Depth(i) /\ Depth(i) \in 1 .. Len(contexts)
      BY <1>1, <1>8, <3>1, EnterDepth, DepthIs DEF IInv
    <3> QED
      BY <1>3, <1>7, <3>1, <3>2 DEF IInv, NativeFollowsScopes
  <2> QED
    BY <2>1, <2>2
<1>10. NativeFollowsScopes'
  <2>1. \A i \in Running("stencil") : scopes'[i] = scopes[i]
    BY <1>3 DEF Running
  <2>2. {scopes'[i].target : i \in Running("stencil")'} = {scopes[i].target : i \in Running("stencil")}
    BY <1>6, <2>1
  <2> QED
    BY <1>1, <1>5, <1>6, <1>7, <1>8, <1>9, <2>2 DEF IInv, NativeFollowsScopes
<1>11. Entered'
  <2>1. ASSUME NEW k \in 1 .. Len(contexts)
        PROVE  \E i \in Running("context")' : Depth(i)' = k
    <3>1. PICK i \in Running("context") : Depth(i) = k
      BY <1>8 DEF IInv, Entered
    <3>2. i \in 1 .. Len(scopes)
      BY <1>3 DEF Running
    <3>3. Depth(i)' = k
      BY <1>1, <3>1, <3>2, EnterDepth DEF IInv
    <3> QED
      BY <1>5, <3>3
  <2>2. \E i \in Running("context")' : Depth(i)' = Len(contexts) + 1
    BY <1>1, <1>5, <1>8, EnterDepth DEF IInv
  <2> QED
    BY <1>5, <1>7, <1>8, <2>1, <2>2 DEF Entered
<1> QED
  BY <1>2, <1>10, <1>11 DEF IInv

LEMMA WithStencilStep ==
  ASSUME ScopesAssumption, IInv, NEW b, WithStencil(b)
  PROVE  IInv'
<1>1. /\ ~stencilActive /\ b \in Images \cup Frames /\ Enter("stencil", b, None)
      /\ stencilActive' = TRUE /\ stencil' = b
      /\ UNCHANGED <<closed, views, contexts, marked, touched, strayed>>
  BY DEF WithStencil, Live
<1>2. b # None
  BY <1>1 DEF ScopesAssumption
<1>3. Typed' /\ Given' /\ Shown'
  <2>1. contexts' \in Seq(Images) /\ stencil' \in Targets /\ stencilActive' \in BOOLEAN
    BY <1>1 DEF IInv, Typed, Targets
  <2> QED
    BY <1>1, <2>1, PlainEnter
<1>4. /\ Len(scopes) \in Nat /\ DOMAIN scopes = 1 .. Len(scopes) /\ DOMAIN scopes' = 1 .. Len(scopes) + 1
      /\ \A i \in 1 .. Len(scopes) : scopes'[i] = scopes[i]
  BY <1>1, EnterIs DEF IInv
<1>5. scopes'[Len(scopes) + 1] = [kind |-> "stencil", target |-> b, view |-> None]
  BY <1>1, EnterIs DEF IInv
<1>6. Running("context")' = Running("context")
  BY <1>1, EnterRuns DEF IInv
<1>7. Running("stencil") = {}
  <2>1. {scopes[i].target : i \in Running("stencil")} = {}
    BY <1>1 DEF IInv, NativeFollowsScopes
  <2> QED
    BY <2>1
<1>8. Running("stencil")' = {Len(scopes) + 1}
  <2>1. Running("stencil")' = Running("stencil") \cup {Len(scopes) + 1}
    BY <1>1, EnterRuns DEF IInv
  <2> QED
    BY <1>7, <2>1
<1>9. NativeFollowsScopes'
  <2>1. \A i \in Running("context") : i \in 1 .. Len(scopes) /\ scopes'[i] = scopes[i] /\ Depth(i)' = Depth(i)
    BY <1>1, <1>4, EnterDepth DEF IInv, Running
  <2>2. {scopes'[i].target : i \in Running("stencil")'} = {stencil'} \ {None}
    BY <1>1, <1>2, <1>5, <1>8
  <2>a. Cardinality({Len(scopes) + 1}) = 1
    BY FS_Singleton
  <2>3. Cardinality(Running("stencil")') <= 1
    BY <1>8, <2>a
  <2>4. stencilActive' <=> stencil' # None
    BY <1>1, <1>2
  <2>5. Len(contexts') = Cardinality(Running("context")')
    BY <1>1, <1>6 DEF IInv, NativeFollowsScopes
  <2>6. \A i \in Running("context")' : contexts'[Depth(i)'] = scopes'[i].target
    BY <1>1, <1>6, <2>1 DEF IInv, NativeFollowsScopes
  <2> QED
    BY <2>2, <2>3, <2>4, <2>5, <2>6 DEF NativeFollowsScopes
<1>10. Entered'
  <2>1. \A i \in Running("context") : i \in 1 .. Len(scopes) /\ Depth(i)' = Depth(i)
    BY <1>1, <1>4, EnterDepth DEF IInv, Running
  <2> QED
    BY <1>6, <2>1 DEF IInv, Entered
<1> QED
  BY <1>3, <1>9, <1>10 DEF IInv

(* The innermost callback returns. *)
LEMMA LeaveStep ==
  ASSUME ScopesAssumption, IInv, Return
  PROVE  Typed' /\ Given' /\ Shown'
<1> DEFINE n == Len(scopes)
           last == Last(scopes)
<1>1. /\ scopes # <<>> /\ scopes' = Front(scopes)
      /\ Expire(last) \/ Restore(last) \/ Unmask(last)
      /\ UNCHANGED <<closed, touched, strayed>>
  BY DEF Return
<1>2. /\ n \in Nat \ {0} /\ scopes' \in Seq(Scope)
      /\ DOMAIN scopes = 1 .. n /\ DOMAIN scopes' = 1 .. n - 1
      /\ \A i \in 1 .. n - 1 : scopes'[i] = scopes[i]
      /\ last = scopes[n] /\ last \in Scope
  BY <1>1, LeaveIs DEF IInv
<1>3. n \in DOMAIN scopes /\ ViewOf(n)
  BY <1>2 DEF IInv, Given
<1> HIDE DEF n, last
<1>4. ASSUME Expire(last)
      PROVE  /\ last.view \in DOMAIN views /\ views' \in Seq(View) /\ DOMAIN views' = DOMAIN views
             /\ views'[last.view].valid = FALSE
             /\ \A v \in DOMAIN views : views'[v].target = views[v].target /\ views'[v].dirty = views[v].dirty
             /\ \A v \in DOMAIN views : v # last.view => views'[v] = views[v]
             /\ views[last.view].target = last.target
             /\ last.kind = "framebuffer" <=> last.target = None
             /\ UNCHANGED <<stencilActive, stencil, contexts>>
  <2>1. last.kind \in {"framebuffer", "data"}
    BY <1>4 DEF Expire
  <2>2. /\ last.view \in DOMAIN views /\ views[last.view].target = last.target
        /\ last.kind = "framebuffer" <=> last.target = None
    BY <1>2, <1>3, <2>1 DEF ViewOf, Viewing
  <2>3. views' = [views EXCEPT ![last.view].valid = FALSE]
    BY <1>4 DEF Expire
  <2>4. views \in Seq(View) /\ \A v \in DOMAIN views : views[v] \in View
    BY DEF IInv, Typed
  <2>5. [views[last.view] EXCEPT !.valid = FALSE] \in View
    BY <2>2, <2>4 DEF View
  <2>6. views' \in Seq(View)
    BY <2>2, <2>3, <2>4, <2>5
  <2> QED
    BY <1>4, <2>2, <2>3, <2>4, <2>6 DEF Expire, View
<1>5. ASSUME Restore(last) \/ Unmask(last)
      PROVE  last.view \notin DOMAIN views /\ UNCHANGED <<views, marked>>
  <2>1. last.view = None
    BY <1>2, <1>3, <1>5 DEF Restore, Unmask, ViewOf, Viewing
  <2>2. DOMAIN views \subseteq Nat
    BY DEF IInv, Typed
  <2> QED
    BY <1>5, <2>1, <2>2 DEF Restore, Unmask, ScopesAssumption
<1>6. Typed'
  <2>1. marked' \subseteq Rows
    <3>1. CASE Expire(last)
      <4>a. views \in Seq(View) /\ last.view \in DOMAIN views
        BY <1>4, <3>1 DEF IInv, Typed
      <4>b. views[last.view] \in View
        BY <4>a
      <4>1. views[last.view].dirty \in Dirty
        BY <4>b DEF View
      <4>2. (views[last.view].dirty.low .. views[last.view].dirty.high) \subseteq Rows
        BY <4>1 DEF Dirty, Rows, ScopesAssumption
      <4> QED
        BY <3>1, <4>2 DEF Expire, IInv, Typed
    <3> QED
      BY <1>1, <1>5, <3>1 DEF IInv, Typed
  <2>2. views' \in Seq(View)
    BY <1>1, <1>4, <1>5 DEF IInv, Typed
  <2>3. contexts' \in Seq(Images)
    <3>1. CASE Restore(last)
      <4>1. contexts' = SubSeq(contexts, 1, Len(contexts) - 1) /\ contexts \in Seq(Images)
        BY <3>1 DEF Restore, Front, IInv, Typed
      <4> QED
        BY <4>1
    <3> QED
      BY <1>1, <3>1 DEF Expire, Unmask, IInv, Typed
  <2>4. stencil' \in Targets /\ stencilActive' \in BOOLEAN
    BY <1>1 DEF Expire, Restore, Unmask, IInv, Typed, Targets
  <2> QED
    BY <1>1, <1>2, <2>1, <2>2, <2>3, <2>4 DEF IInv, Typed, Rows
<1>7. DOMAIN views' = DOMAIN views /\ \A v \in DOMAIN views : views'[v].target = views[v].target
  BY <1>1, <1>4, <1>5
<1>8. Given'
  <2>1. \A i \in DOMAIN scopes' : ViewOf(i)'
    BY <1>2, <1>7 DEF IInv, Given, ViewOf, Viewing
  <2>2. \A i, j \in DOMAIN scopes' : Viewing(i)' /\ scopes'[i].view = scopes'[j].view => i = j
    BY <1>2 DEF IInv, Given, Viewing
  <2>3. ASSUME NEW v \in DOMAIN views'
        PROVE  views'[v].valid <=> \E i \in DOMAIN scopes' : scopes'[i].view = v
    <3>1. CASE v = last.view
      <4>1. Expire(last)
        BY <1>1, <1>5, <1>7, <3>1
      <4>2. ~views'[v].valid
        BY <1>4, <3>1, <4>1
      <4>3. Viewing(n)
        BY <1>2, <4>1 DEF Expire, Viewing
      <4>4. \A i \in DOMAIN scopes : scopes[i].view = v => i = n
        BY <1>2, <1>3, <3>1, <4>3 DEF IInv, Given
      <4> QED
        BY <1>2, <4>2, <4>4
    <3>2. CASE v # last.view
      <4>1. views'[v] = views[v] /\ v \in DOMAIN views
        BY <1>1, <1>4, <1>5, <1>7, <3>2
      <4>2. (\E i \in DOMAIN scopes' : scopes'[i].view = v) <=> \E i \in DOMAIN scopes : scopes[i].view = v
        BY <1>2, <3>2
      <4> QED
        BY <4>1, <4>2 DEF IInv, Given
    <3> QED
      BY <3>1, <3>2
  <2> QED
    BY <2>1, <2>2, <2>3 DEF Given
<1>9. Shown'
  <2>1. ASSUME NEW y \in touched PROVE y \in marked' \/ Soiled(y)'
    <3>1. CASE y \in marked
      BY <1>1, <1>5, <3>1 DEF Expire
    <3>2. CASE Soiled(y) /\ ~Expire(last)
      BY <1>1, <1>5, <3>2 DEF Soiled
    <3>3. CASE Soiled(y) /\ Expire(last)
      <4>1. PICK v \in DOMAIN views :
              /\ views[v].valid /\ views[v].target = None
              /\ views[v].dirty.low <= y /\ y <= views[v].dirty.high
        BY <3>3 DEF Soiled
      <4>2. CASE v = last.view
        <5>1. marked' = marked \cup (views[v].dirty.low .. views[v].dirty.high)
          BY <1>4, <3>3, <4>1, <4>2 DEF Expire
        <5>2. y \in Int
          BY DEF IInv, Typed, Rows, ScopesAssumption
        <5>3. views \in Seq(View)
          BY DEF IInv, Typed
        <5>4. views[v] \in View
          BY <5>3
        <5>5. views[v].dirty.low \in Int /\ views[v].dirty.high \in Int
          BY <5>4 DEF View, Dirty, ScopesAssumption
        <5> QED
          BY <4>1, <5>1, <5>2, <5>5
      <4>3. CASE v # last.view
        BY <1>4, <1>7, <3>3, <4>1, <4>3 DEF Soiled
      <4> QED
        BY <4>2, <4>3
    <3> QED
      BY <3>1, <3>2, <3>3 DEF IInv, Shown
  <2> QED
    BY <1>1, <2>1 DEF Shown
<1> QED
  BY <1>6, <1>8, <1>9

LEMMA NativeLeaves ==
  ASSUME ScopesAssumption, IInv, Return
  PROVE  NativeFollowsScopes' /\ Entered'
<1> DEFINE n == Len(scopes)
           last == Last(scopes)
<1>1. /\ scopes # <<>> /\ scopes' = Front(scopes)
      /\ Expire(last) \/ Restore(last) \/ Unmask(last)
  BY DEF Return
<1>2. /\ n \in Nat \ {0}
      /\ DOMAIN scopes = 1 .. n /\ DOMAIN scopes' = 1 .. n - 1
      /\ \A i \in 1 .. n - 1 : scopes'[i] = scopes[i]
      /\ last = scopes[n]
  BY <1>1, LeaveIs DEF IInv
<1>3. /\ Running("context")' = Running("context") \ {n}
      /\ n \in Running("context") <=> last.kind = "context"
      /\ Cardinality(Running("context")') =
           IF last.kind = "context" THEN Cardinality(Running("context")) - 1 ELSE Cardinality(Running("context"))
  BY <1>1, LeaveRuns DEF IInv
<1>4. /\ Running("stencil")' = Running("stencil") \ {n}
      /\ n \in Running("stencil") <=> last.kind = "stencil"
      /\ Cardinality(Running("stencil")') =
           IF last.kind = "stencil" THEN Cardinality(Running("stencil")) - 1 ELSE Cardinality(Running("stencil"))
  BY <1>1, LeaveRuns DEF IInv
<1>5. /\ \A i \in Running("context")' : i \in 1 .. n - 1 /\ scopes'[i] = scopes[i] /\ i \in Running("context")
      /\ \A i \in Running("stencil")' : i \in 1 .. n - 1 /\ scopes'[i] = scopes[i] /\ i \in Running("stencil")
  BY <1>2, <1>3, <1>4 DEF Running
<1>6. \A i \in 1 .. n - 1 : Depth(i)' = Depth(i)
  BY <1>1, LeaveDepth DEF IInv
<1>7. IsFiniteSet(Running("stencil")) /\ Cardinality(Running("stencil")) \in Nat /\ Cardinality(Running("context")) \in Nat
  BY RunningIsFinite DEF IInv
<1> HIDE DEF n, last
<1>8. (* The stack of contexts. *)
      /\ Len(contexts') = Cardinality(Running("context")')
      /\ \A i \in Running("context")' : contexts'[Depth(i)'] = scopes'[i].target
      /\ Entered'
  <2>1. CASE last.kind # "context"
    <3>1. Running("context")' = Running("context") /\ contexts' = contexts
      BY <1>1, <1>3, <2>1 DEF Expire, Restore, Unmask
    <3> QED
      BY <1>5, <1>6, <3>1 DEF IInv, NativeFollowsScopes, Entered
  <2>2. CASE last.kind = "context"
    <3>1. contexts' = SubSeq(contexts, 1, Len(contexts) - 1)
      BY <1>1, <2>2 DEF Expire, Restore, Unmask, Front
    <3>2. Cardinality(Running("context")) # 0
      BY <1>3, <2>2, RunningIsFinite, FS_EmptySet DEF IInv
    <3>3. Len(contexts) = Cardinality(Running("context")) /\ Len(contexts) \in Nat \ {0}
      BY <1>7, <3>2 DEF IInv, NativeFollowsScopes
    <3>4. /\ Len(contexts') = Len(contexts) - 1 /\ DOMAIN contexts' = 1 .. Len(contexts) - 1
          /\ \A k \in 1 .. Len(contexts) - 1 : contexts'[k] = contexts[k]
          /\ DOMAIN contexts = 1 .. Len(contexts)
      BY <3>1, <3>3 DEF IInv, Typed
    <3>5. ASSUME NEW i \in Running("context")'
          PROVE  Depth(i)' = Depth(i) /\ Depth(i) \in 1 .. Len(contexts) - 1
      BY <1>1, <1>5, <1>6, <2>2, <3>3, LastIsDeepest DEF IInv, last
    <3>6. \A i \in Running("context")' : contexts'[Depth(i)'] = scopes'[i].target
      BY <1>5, <3>4, <3>5 DEF IInv, NativeFollowsScopes
    <3>7. Depth(n) = Len(contexts)
      <4>1. {j \in Running("context") : j <= n} = Running("context")
        BY <1>2, RunningIsFinite DEF IInv, n
      <4> QED
        BY <3>3, <4>1 DEF Depth
    <3>8. ASSUME NEW k \in 1 .. Len(contexts) - 1
          PROVE  \E i \in Running("context")' : Depth(i)' = k
      <4>1. PICK i \in Running("context") : Depth(i) = k
        BY <3>3 DEF IInv, Entered
      <4>2. i # n
        BY <3>3, <3>7, <4>1
      <4>3. i \in Running("context")' /\ Depth(i)' = k
        BY <1>3, <1>5, <1>6, <4>1, <4>2
      <4> QED
        BY <4>3
    <3> QED
      BY <1>3, <2>2, <3>3, <3>4, <3>6, <3>8 DEF Entered
  <2> QED
    BY <2>1, <2>2
<1>9. /\ {scopes'[i].target : i \in Running("stencil")'} = {stencil'} \ {None}
      /\ Cardinality(Running("stencil")') <= 1
      /\ stencilActive' <=> stencil' # None
  <2>1. CASE last.kind # "stencil"
    <3>1. UNCHANGED <<stencil, stencilActive>> /\ Running("stencil")' = Running("stencil")
      BY <1>1, <1>4, <2>1 DEF Expire, Restore, Unmask
    <3>2. {scopes'[i].target : i \in Running("stencil")'} = {scopes[i].target : i \in Running("stencil")}
      BY <1>5, <3>1
    <3> QED
      BY <3>1, <3>2 DEF IInv, NativeFollowsScopes
  <2>2. CASE last.kind = "stencil"
    <3>1. stencilActive' = FALSE /\ stencil' = None
      BY <1>1, <2>2 DEF Expire, Restore, Unmask
    <3>2. Cardinality(Running("stencil")) <= 1 /\ n \in Running("stencil")
      BY <1>4, <2>2 DEF IInv, NativeFollowsScopes
    <3>3. Cardinality(Running("stencil")') = 0
      <4>1. Cardinality(Running("stencil")) # 0
        BY <1>7, <3>2, FS_EmptySet
      <4> QED
        BY <1>4, <1>7, <2>2, <3>2, <4>1
    <3>4. Running("stencil")' = {}
      <4>1. IsFiniteSet(Running("stencil") \ {n}) /\ Cardinality(Running("stencil") \ {n}) = 0
        BY <1>4, <1>7, <3>3, FS_RemoveElement
      <4> QED
        BY <1>4, <4>1, FS_EmptySet
    <3> QED
      BY <3>1, <3>3, <3>4
  <2> QED
    BY <2>1, <2>2
<1> QED
  BY <1>8, <1>9 DEF NativeFollowsScopes

(* A row is set, or called dirty, through a valid view. *)
LEMMA DirtyStep ==
  ASSUME ScopesAssumption, IInv, NEW v \in DOMAIN views, views[v].valid,
         NEW y \in Rows, NEW z \in Rows, y <= z, MarkDirtyRows(v, y, z),
         touched' \subseteq touched \cup (IF y = z /\ views[v].target = None THEN {y} ELSE {}),
         UNCHANGED <<closed, scopes, stencilActive, stencil, contexts, marked>>, strayed' \in BOOLEAN
  PROVE  IInv'
<1> DEFINE soiled == IF views[v].target # None THEN [low |-> 0, high |-> Height - 1]
                     ELSE [low |-> IF y < views[v].dirty.low THEN y ELSE views[v].dirty.low,
                           high |-> IF z > views[v].dirty.high THEN z ELSE views[v].dirty.high]
<1>1. views' = [views EXCEPT ![v].dirty = soiled]
  BY DEF MarkDirtyRows
<1>2. views \in Seq(View) /\ views[v] \in View
  BY DEF IInv, Typed
<1>3. /\ views[v].dirty.low \in 0 .. Height /\ views[v].dirty.high \in -1 .. Height - 1
      /\ y \in 0 .. Height - 1 /\ z \in 0 .. Height - 1 /\ Height \in Nat
  BY <1>2 DEF View, Dirty, Rows, ScopesAssumption
<1>4. /\ soiled \in Dirty
      /\ views[v].target = None =>
           /\ soiled.low <= y /\ z <= soiled.high
           /\ soiled.low <= views[v].dirty.low /\ views[v].dirty.high <= soiled.high
  BY <1>3 DEF Dirty
<1> HIDE DEF soiled
<1>5. /\ views' \in Seq(View) /\ DOMAIN views' = DOMAIN views
      /\ \A u \in DOMAIN views : views'[u].target = views[u].target /\ views'[u].valid = views[u].valid
      /\ \A u \in DOMAIN views : u # v => views'[u] = views[u]
      /\ views'[v].dirty = soiled
  <2>1. [views[v] EXCEPT !.dirty = soiled] \in View
    BY <1>2, <1>4 DEF View
  <2>2. views' \in Seq(View)
    BY <1>1, <1>2, <2>1
  <2>3. \A u \in DOMAIN views : views[u] \in View
    BY <1>2
  <2> QED
    BY <1>1, <1>2, <2>2, <2>3 DEF View
<1>6. Typed'
  BY <1>5 DEF IInv, Typed, Rows
<1>7. Given'
  BY <1>5 DEF IInv, Given, ViewOf, Viewing
<1>8. Shown'
  <2>1. ASSUME NEW x \in touched, x \notin marked PROVE Soiled(x)'
    <3>1. PICK u \in DOMAIN views :
            /\ views[u].valid /\ views[u].target = None
            /\ views[u].dirty.low <= x /\ x <= views[u].dirty.high
      BY <2>1 DEF IInv, Shown, Soiled
    <3>2. CASE u = v
      <4>1. x \in Int /\ soiled.low \in Int /\ soiled.high \in Int
        BY <1>3, <1>4 DEF IInv, Typed, Rows, Dirty
      <4>2. soiled.low <= x /\ x <= soiled.high
        BY <1>3, <1>4, <3>1, <3>2, <4>1
      <4> QED
        BY <1>5, <3>1, <3>2, <4>2 DEF Soiled
    <3>3. CASE u # v
      BY <1>5, <3>1, <3>3 DEF Soiled
    <3> QED
      BY <3>2, <3>3
  <2>2. ASSUME views[v].target = None, y = z PROVE Soiled(y)'
    BY <1>4, <1>5, <2>2 DEF Soiled
  <2> QED
    BY <2>1, <2>2 DEF Shown
<1> QED
  BY <1>6, <1>7, <1>8, NativeStays DEF IInv

LEMMA StepKeeps ==
  ASSUME ScopesAssumption, IInv, [Next]_scoped
  PROVE  IInv'
<1>1. CASE WithFramebuffer
  BY <1>1, ViewStep DEF WithFramebuffer, Targets
<1>2. CASE Return
  BY <1>2, LeaveStep, NativeLeaves DEF IInv
<1>3. CASE Draw \/ UNCHANGED scoped
  <2>1. UNCHANGED <<closed, scopes, views, stencilActive, stencil, contexts, marked, touched>>
    BY <1>3 DEF Draw, scoped
  <2>2. strayed' \in BOOLEAN
    BY <1>3 DEF Draw, scoped, IInv, Typed
  <2>3. Typed' /\ Given' /\ Shown'
    BY <2>1, <2>2 DEF IInv, Typed, Rows, Given, ViewOf, Viewing, Shown, Soiled
  <2> QED
    BY <2>1, <2>3, NativeStays DEF IInv
<1>4. ASSUME NEW b \in Images \cup Frames, WithBitmapData(b) PROVE IInv'
  BY <1>4, ViewStep DEF WithBitmapData, Targets, ScopesAssumption
<1>5. ASSUME NEW b \in Images \cup Frames, DrawInto(b) PROVE IInv'
  BY <1>5, DrawIntoStep
<1>6. ASSUME NEW b \in Images \cup Frames, WithStencil(b) PROVE IInv'
  BY <1>6, WithStencilStep
<1>7. ASSUME NEW b \in Images \cup Frames, Close(b) PROVE IInv'
  <2>1. /\ closed' \subseteq Images
        /\ UNCHANGED <<scopes, views, stencilActive, stencil, contexts, marked, touched, strayed>>
    BY <1>7 DEF Close, IInv, Typed
  <2>2. Typed' /\ Given' /\ Shown'
    BY <2>1 DEF IInv, Typed, Rows, Given, ViewOf, Viewing, Shown, Soiled
  <2> QED
    BY <2>1, <2>2, NativeStays DEF IInv
<1>8. ASSUME NEW v \in 1 .. MaxViews, NEW y \in Rows, NEW z \in Rows, SetPixel(v, y) \/ MarkRows(v, y, z)
      PROVE  IInv'
  <2>1. CASE SetPixel(v, y)
    <3>1. /\ v \in DOMAIN views /\ views[v].valid /\ y <= y /\ MarkDirtyRows(v, y, y)
          /\ touched' \subseteq touched \cup (IF y = y /\ views[v].target = None THEN {y} ELSE {})
          /\ UNCHANGED <<closed, scopes, stencilActive, stencil, contexts, marked>> /\ strayed' \in BOOLEAN
      BY <2>1 DEF SetPixel, Usable, Rows, ScopesAssumption
    <3> QED
      BY <3>1, DirtyStep
  <2>2. CASE MarkRows(v, y, z)
    <3>1. /\ v \in DOMAIN views /\ views[v].valid /\ y <= z /\ MarkDirtyRows(v, y, z)
          /\ touched' \subseteq touched \cup (IF y = z /\ views[v].target = None THEN {y} ELSE {})
          /\ UNCHANGED <<closed, scopes, stencilActive, stencil, contexts, marked>> /\ strayed' \in BOOLEAN
      BY <2>2 DEF MarkRows, Usable, IInv, Typed
    <3> QED
      BY <3>1, DirtyStep
  <2> QED
    BY <1>8, <2>1, <2>2
<1> QED
  BY <1>1, <1>2, <1>3, <1>4, <1>5, <1>6, <1>7, <1>8 DEF Next

LEMMA InitHolds ==
  ASSUME ScopesAssumption, Init
  PROVE  IInv
<1>0. DOMAIN scopes = {} /\ DOMAIN views = {} /\ Len(contexts) = 0
  BY DEF Init
<1>1. Typed
  <2>1. scopes \in Seq(Scope) /\ views \in Seq(View) /\ contexts \in Seq(Images)
    BY DEF Init
  <2>2. stencil \in Targets /\ stencilActive \in BOOLEAN /\ strayed \in BOOLEAN
    BY DEF Init, Targets
  <2>3. closed = {} /\ marked = {} /\ touched = {}
    BY DEF Init
  <2> QED
    BY <2>1, <2>2, <2>3 DEF Typed
<1>a. Given /\ Shown
  BY <1>0 DEF Init, Given, Shown
<1>2. Running("context") = {} /\ Running("stencil") = {}
  BY <1>0 DEF Running
<1>b. Cardinality({}) = 0
  BY FS_EmptySet
<1>c. {scopes[i].target : i \in Running("stencil")} = {stencil} \ {None}
  BY <1>2 DEF Init
<1>d. stencilActive <=> stencil # None
  BY DEF Init
<1>e. Len(contexts) = Cardinality(Running("context"))
  BY <1>0, <1>2, <1>b
<1>f. \A i \in Running("context") : contexts[Depth(i)] = scopes[i].target
  BY <1>2
<1>g. Cardinality(Running("stencil")) <= 1
  BY <1>2, <1>b
<1>3. NativeFollowsScopes
  BY <1>c, <1>d, <1>e, <1>f, <1>g DEF NativeFollowsScopes
<1>4. Entered
  BY <1>2, <1>b DEF Entered
<1> QED
  BY <1>1, <1>a, <1>3, <1>4 DEF IInv

LEMMA InvariantHolds ==
  ASSUME ScopesAssumption
  PROVE  Spec => []IInv
<1>1. Init => IInv
  BY InitHolds
<1>2. IInv /\ [Next]_scoped => IInv'
  BY StepKeeps
<1> QED
  BY <1>1, <1>2, PTL DEF Spec

(* The native stack of contexts and the native stencil are those of the    *)
(* running callbacks, and a view can be used exactly while its callback    *)
(* runs, with every row that was set shown once no callback lends the      *)
(* framebuffer (runtime.go:3775, API.md, "ErrFramebufferExpired").         *)
THEOREM CallbacksBound ==
  ASSUME ScopesAssumption
  PROVE  Spec => [](TypeOK /\ NativeFollowsScopes /\ ViewsEnd)
<1>1. IInv => TypeOK
  BY DEF IInv, Typed, Given, ViewOf, TypeOK
<1>2. IInv => ViewsEnd
  <2> SUFFICES ASSUME IInv PROVE ViewsEnd
    OBVIOUS
  <2>1. ASSUME NEW y \in touched, y \notin marked PROVE Running("framebuffer") # {}
    <3>1. PICK v \in DOMAIN views : views[v].valid /\ views[v].target = None
      BY <2>1 DEF IInv, Shown, Soiled
    <3>2. PICK i \in DOMAIN scopes : scopes[i].view = v
      BY <3>1 DEF IInv, Given
    <3>3. v # None
      BY DEF IInv, Typed, ScopesAssumption
    <3>4. scopes[i].kind = "framebuffer"
      BY <3>1, <3>2, <3>3 DEF IInv, Given, ViewOf
    <3> QED
      BY <3>4 DEF Running
  <2> QED
    BY <2>1 DEF IInv, Given, ViewsEnd
<1>3. IInv => NativeFollowsScopes
  BY DEF IInv
<1> QED
  BY <1>1, <1>2, <1>3, InvariantHolds, PTL

-----------------------------------------------------------------------------
(* Nothing freed is used. *)

Kept == ~strayed /\ \A i \in DOMAIN scopes : scopes[i].target \notin closed

LEMMA KeptStays ==
  ASSUME ScopesAssumption, ClosesBorrowed = FALSE, IInv, Kept, [Next]_scoped
  PROVE  Kept'
<1>1. ASSUME NEW kind, NEW target, target \notin closed, NEW view, Enter(kind, target, view), UNCHANGED <<closed, strayed>>
      PROVE  Kept'
  <2>1. /\ DOMAIN scopes = 1 .. Len(scopes) /\ DOMAIN scopes' = 1 .. Len(scopes) + 1
        /\ \A i \in 1 .. Len(scopes) : scopes'[i] = scopes[i]
    BY <1>1, EnterIs DEF IInv
  <2>2. scopes'[Len(scopes) + 1] = [kind |-> kind, target |-> target, view |-> view]
    BY <1>1, EnterIs DEF IInv
  <2>3. Len(scopes) \in Nat
    BY DEF IInv, Typed
  <2> QED
    BY <1>1, <2>1, <2>2, <2>3 DEF Kept
<1>2. None \notin closed /\ \A b : Live(b) => b \notin closed
  BY DEF IInv, Typed, Live, ScopesAssumption
<1>3. CASE WithFramebuffer
  BY <1>1, <1>2, <1>3 DEF WithFramebuffer, GivenView
<1>4. ASSUME NEW b \in Images \cup Frames, WithBitmapData(b) \/ DrawInto(b) \/ WithStencil(b) PROVE Kept'
  BY <1>1, <1>2, <1>4 DEF WithBitmapData, GivenView, DrawInto, WithStencil
<1>5. CASE Return
  <2>1. scopes # <<>> /\ scopes' = Front(scopes) /\ UNCHANGED <<closed, strayed>>
    BY <1>5 DEF Return
  <2> QED
    BY <2>1, LeaveIs DEF Kept, IInv
<1>6. CASE Draw
  <2>1. stencil \notin closed
    BY <1>2 DEF IInv, NativeFollowsScopes, Kept, Running
  <2>2. contexts # <<>> => Last(contexts) \notin closed
    <3>1. SUFFICES ASSUME contexts # <<>> PROVE contexts[Len(contexts)] \notin closed
      BY DEF Last
    <3>2. Len(contexts) \in 1 .. Cardinality(Running("context"))
      BY <3>1 DEF IInv, Typed, NativeFollowsScopes
    <3>3. PICK i \in Running("context") : Depth(i) = Len(contexts)
      BY <3>2 DEF IInv, Entered
    <3> QED
      BY <3>3 DEF IInv, NativeFollowsScopes, Kept, Running
  <2> QED
    BY <1>6, <2>1, <2>2 DEF Draw, Kept
<1>7. ASSUME NEW b \in Images \cup Frames, Close(b) PROVE Kept'
  BY <1>7 DEF Close, Kept
<1>8. ASSUME NEW v \in 1 .. MaxViews, NEW y \in Rows, NEW z \in Rows, SetPixel(v, y) \/ MarkRows(v, y, z)
      PROVE  Kept'
  <2>1. v \in DOMAIN views /\ views[v].valid /\ UNCHANGED <<closed, scopes>>
    BY <1>8 DEF SetPixel, MarkRows, Usable
  <2>2. views[v].target \notin closed
    <3>1. PICK i \in DOMAIN scopes : scopes[i].view = v
      BY <2>1 DEF IInv, Given
    <3>2. v # None
      BY <2>1 DEF IInv, Typed, ScopesAssumption
    <3> QED
      BY <3>1, <3>2 DEF IInv, Given, ViewOf, Kept
  <2>3. strayed' = strayed
    BY <1>8, <2>1, <2>2 DEF SetPixel, MarkRows, IInv, Typed
  <2> QED
    BY <2>1, <2>3 DEF Kept
<1>9. CASE UNCHANGED scoped
  BY <1>9 DEF scoped, Kept
<1> QED
  BY <1>3, <1>4, <1>5, <1>6, <1>7, <1>8, <1>9 DEF Next

(* Games that keep open the bitmap that a running callback is about draw   *)
(* into, through and set pixels of live bitmaps only, however the          *)
(* callbacks nest (runtime.go:3775-3806).                                  *)
THEOREM DrawsIntoLiveBitmaps ==
  ASSUME ScopesAssumption, ClosesBorrowed = FALSE
  PROVE  Spec => []NothingStrays
<1>1. Init => Kept
  BY DEF Init, Kept
<1>2. IInv /\ Kept /\ [Next]_scoped => Kept'
  BY KeptStays
<1>3. Kept => NothingStrays
  BY DEF Kept, NothingStrays
<1> QED
  BY <1>1, <1>2, <1>3, InvariantHolds, PTL DEF Spec
=============================================================================
