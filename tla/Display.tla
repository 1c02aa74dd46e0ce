------------------------------ MODULE Display ------------------------------
(***************************************************************************)
(* The runtime's resources for drawing: bitmaps with their masks and mask  *)
(* views, bitmap tables and fonts that lend frames and glyphs, sprites on  *)
(* the display list, their tile maps and callbacks, and video players.     *)
(*                                                                         *)
(* An object that others rely on counts its users (`users`: maskUsers,     *)
(* maskViews, attachments, tileMapUsers) and refuses to be closed while it *)
(* has any; frames, glyphs and views instead ask at every call whether     *)
(* what they were borrowed from is still open.  The native side does       *)
(* neither: it frees what it is told to free.                              *)
(***************************************************************************)
EXTENDS Integers, FiniteSets, Edges

CONSTANTS
  Bitmaps,      \* owned bitmaps
  Views,        \* mask views, two at most
  Tables, Fonts,
  TileMaps,
  Sprites,
  Callers,      \* sprites on which a game sets callbacks
  Guests,       \* sprites that a query returned
  Of,           \* guest -> its sprite
  Videos,
  Scenes,       \* sets of objects that one game creates
  Limit,        \* spriteCallbackLimit
  BorrowedMasks,  \* whether games mask with, or take masks of, borrowed bitmaps
  GuestsListed,   \* whether games add and remove sprites through guests
  None

VARIABLES
  planned,     \* objects the game may still create
  open,        \* wrappers that exist and are not closed
  freed,       \* objects whose native counterpart was freed
  holds,       \* the edges in the wrappers' fields
  users,       \* <<slot, wrapper>> -> its count of users
  native,      \* the edges on the native side
  added,       \* sprite wrappers that believe to be on the display list
  listed,      \* sprites on the native display list
  installed,   \* <<sprite, kind>>: the callbacks in the wrappers
  callbacks    \* SpriteDisplayListState.callbacks

images == <<planned, open, freed, holds, users, native>>
list == <<added, listed, installed, callbacks>>
vars == <<images, list>>

Frame(t) == <<"frame", t>>
Glyph(f) == <<"glyph", f>>
Lent == {Frame(t) : t \in Tables} \cup {Glyph(f) : f \in Fonts}
OwnedBitmaps == Bitmaps \cup Views
AnyBitmap == OwnedBitmaps \cup Lent
Wrappers == Sprites \cup Guests
Sprite(w) == IF w \in Guests THEN Of[w] ELSE w
Owned == OwnedBitmaps \cup Tables \cup Fonts \cup TileMaps \cup Sprites \cup Videos
Objects == Owned \cup Lent \cup Guests
Kinds == {"draw", "update", "collision"}

(* An object is of one kind. *)
DisplayAssumption ==
  /\ OwnedBitmaps \cap (Lent \cup Tables \cup Fonts \cup TileMaps \cup Wrappers \cup Videos) = {}
  /\ Lent \cap (Tables \cup Fonts \cup TileMaps \cup Wrappers \cup Videos) = {}
  /\ (Tables \cup Fonts) \cap (TileMaps \cup Wrappers \cup Videos) = {}
  /\ TileMaps \cap (Wrappers \cup Videos) = {}
  /\ Tables \cap Fonts = {} /\ Wrappers \cap Videos = {} /\ Sprites \cap Guests = {}
  /\ Of \in [Guests -> Sprites] /\ Callers \subseteq Sprites
  /\ Scenes \subseteq SUBSET Objects
  /\ None \notin Objects /\ Limit \in Nat

(* The slots whose used objects count their users. *)
Counted ==
  ({"mask", "parent"} \X AnyBitmap) \cup ({"tileMap"} \X TileMaps) \cup ({"table"} \X Tables)

Init ==
  \E scene \in Scenes :
    /\ planned = scene \cap (Lent \cup Views \cup TileMaps \cup Guests)
    /\ open = scene \ planned
    /\ freed = {} /\ holds = {} /\ native = {}
    /\ users = [k \in Counted |-> 0]
    /\ added = {} /\ listed = {} /\ installed = {}
    /\ callbacks = 0

Create(x) ==
  /\ x \in planned
  /\ planned' = planned \ {x}
  /\ open' = open \cup {x}

(* The wrappers' fields lose the edges R and gain the edges A, and the     *)
(* users of what they hold are counted down and up.                        *)
Counting(E, k) == Cardinality({e \in E : <<e[2], Used(e)>> = k})
Hold(R, A) ==
  /\ holds' = (holds \ R) \cup A
  /\ users' = [k \in Counted |-> users[k] - Counting(R, k) + Counting(A, k)]

(* The native side has one object in a slot. *)
Natively(slot, x) == (native \ InSlot(native, slot)) \cup (IF x = None THEN {} ELSE {<<slot[1], slot[2], x>>})

(***************************************************************************)
(* Bitmaps.                                                                *)
(***************************************************************************)
CreateFrame(t) == t \in open /\ Create(Frame(t)) /\ UNCHANGED <<freed, holds, users, native, list>>
CreateGlyph(f) == f \in open /\ Create(Glyph(f)) /\ UNCHANGED <<freed, holds, users, native, list>>

Parents(S) == {Used(e) : e \in {h \in holds : h[2] = "parent" /\ User(h) \in S}}

(* nativeHandle of a bitmap *)
Live(b) ==
  /\ b \in open
  /\ \A t \in Tables : b = Frame(t) => t \in open
  /\ \A f \in Fonts : b = Glyph(f) => f \in open
  /\ Parents({b}) \subseteq open

MayMask(b) == BorrowedMasks \/ b \in OwnedBitmaps

BitmapMask(b, v) ==
  /\ Live(b) /\ v \in Views /\ Create(v)
  /\ MayMask(b)
  /\ Hold({}, {<<v, "parent", b>>})
  /\ UNCHANGED <<freed, native, list>>

SetBitmapMaskOnly(b, m) ==
  /\ b \in OwnedBitmaps /\ Live(b) /\ Live(m)
  /\ MayMask(m)
  /\ Hold({}, {<<b, "mask", m>>})
  /\ native' = Natively(<<b, "mask">>, m)
  /\ UNCHANGED <<planned, open, freed, list>>
SetBitmapMask(b, m) ==
  /\ b \in OwnedBitmaps /\ Live(b) /\ Live(m)
  /\ MayMask(m)
  /\ Hold(InSlot(holds, <<b, "mask">>), {<<b, "mask", m>>})
  /\ native' = Natively(<<b, "mask">>, m)
  /\ UNCHANGED <<planned, open, freed, list>>

ClearBitmapMask(b) ==
  /\ b \in OwnedBitmaps /\ Live(b)
  /\ Hold(InSlot(holds, <<b, "mask">>), {})
  /\ native' = Natively(<<b, "mask">>, None)
  /\ UNCHANGED <<planned, open, freed, list>>

(* What a native bitmap's pixels belong to: the masks of masks of a bitmap *)
(* are the deepest views.                                                  *)
Lender(x) == IF x \in Lent THEN x[2] ELSE x
Storage(x) ==
  LET once == {x} \cup Parents({x})
  IN {Lender(y) : y \in once \cup Parents(once)}
Dead(x) == Storage(x) \cap freed # {}

(* API.md:742, 766: the game closes sprites before the bitmaps, tables and *)
(* fonts whose images they show.                                           *)
Shown(x) == \E e \in native : e[2] \in {"image", "stencil"} /\ x \in Storage(Used(e))

(* A closed wrapper lets go what it holds; it has no users, and the native *)
(* object is freed with its own references.                                *)
CloseUnmarked(x) ==
  /\ Hold(UsedBy(holds, x), {})
  /\ native' = native \ UsedBy(native, x)
  /\ freed' = freed \cup {x}
  /\ UNCHANGED <<planned, open>>
Close(x) ==
  /\ Hold(UsedBy(holds, x), {})
  /\ native' = native \ UsedBy(native, x)
  /\ open' = open \ {x}
  /\ freed' = freed \cup {x}
  /\ UNCHANGED planned

CloseBitmap(b) ==
  /\ b \in OwnedBitmaps \cap open
  /\ users[<<"mask", b>>] <= 0 /\ users[<<"parent", b>>] <= 0
  /\ ~Shown(b)
  /\ Close(b)
  /\ UNCHANGED list

CloseTableInUse(t) ==
  /\ t \in open
  /\ ~Shown(t)
  /\ Close(t)
  /\ UNCHANGED list
CloseTable(t) ==
  /\ t \in open
  /\ users[<<"table", t>>] = 0
  /\ ~Shown(t)
  /\ Close(t)
  /\ UNCHANGED list

CloseFont(f) ==
  /\ f \in open
  /\ ~Shown(f)
  /\ Close(f)
  /\ UNCHANGED list

(***************************************************************************)
(* Video players draw into the screen or into a bitmap.                    *)
(***************************************************************************)
SetContext(p, b) ==
  /\ p \in open
  /\ b \in OwnedBitmaps /\ Live(b)
  /\ holds' = (holds \ InSlot(holds, <<p, "context">>)) \cup {<<p, "context", b>>}
  /\ native' = Natively(<<p, "context">>, b)
  /\ UNCHANGED <<planned, open, freed, users, list>>

UseScreenContext(p) ==
  /\ p \in open
  /\ holds' = holds \ InSlot(holds, <<p, "context">>)
  /\ native' = Natively(<<p, "context">>, None)
  /\ UNCHANGED <<planned, open, freed, users, list>>

CloseVideo(p) == p \in open /\ Close(p) /\ UNCHANGED list

(***************************************************************************)
(* Sprites and their tile maps.                                            *)
(***************************************************************************)
NewTileMap(m, t) ==
  /\ t \in open /\ m \in TileMaps /\ Create(m)
  /\ Hold({}, {<<m, "table", t>>})
  /\ native' = Natively(<<m, "table">>, t)
  /\ UNCHANGED <<freed, list>>

SetTileMap(w, m) ==
  /\ w \in open /\ m \in open
  /\ <<w, "tileMap", m>> \notin holds
  /\ Hold(InSlot(holds, <<w, "tileMap">>), {<<w, "tileMap", m>>})
  /\ native' = Natively(<<Sprite(w), "tileMap">>, m)
  /\ UNCHANGED <<planned, open, freed, list>>

ClearTileMap(w) ==
  /\ w \in open
  /\ Hold(InSlot(holds, <<w, "tileMap">>), {})
  /\ native' = Natively(<<Sprite(w), "tileMap">>, None)
  /\ UNCHANGED <<planned, open, freed, list>>

CloseTileMap(m) ==
  /\ m \in open
  /\ users[<<"tileMap", m>>] = 0
  /\ Close(m)
  /\ UNCHANGED list

(* SetBitmap and SetStencilImage keep nothing in the wrapper. *)
SetImage(w, slot, b) ==
  /\ w \in open /\ Live(b)
  /\ native' = Natively(<<Sprite(w), slot>>, b)
  /\ UNCHANGED <<planned, open, freed, holds, users, list>>

ClearStencil(w) ==
  /\ w \in open
  /\ native' = Natively(<<Sprite(w), "stencil">>, None)
  /\ UNCHANGED <<planned, open, freed, holds, users, list>>

(* Queries find what is on the display list. *)
Query(g) ==
  /\ Of[g] \in listed
  /\ Create(g)
  /\ UNCHANGED <<freed, holds, users, native, list>>

(* Add and Remove of one sprite, AddSprites and RemoveSprites of several: *)
(* a wrapper that believes to be there already is skipped.                *)
SetSpritesAdded(S, add) ==
  LET effective == {Sprite(w) : w \in {x \in S : (x \in added) # add}}
  IN /\ S \subseteq open
     /\ GuestsListed \/ S \subseteq Sprites
     /\ listed' = IF add THEN listed \cup effective ELSE listed \ effective
     /\ added' = IF add THEN added \cup S ELSE added \ S
     /\ UNCHANGED <<images, installed, callbacks>>

RemoveAll ==
  /\ listed' = {}
  /\ added' = added \ Sprites
  /\ UNCHANGED <<images, installed, callbacks>>

SetCallback(s, kind, set) ==
  /\ s \in open
  /\ set # (<<s, kind>> \in installed)
  /\ set => callbacks < Limit
  /\ callbacks' = IF set THEN callbacks + 1 ELSE callbacks - 1
  /\ installed' = IF set THEN installed \cup {<<s, kind>>} ELSE installed \ {<<s, kind>>}
  /\ UNCHANGED <<images, added, listed>>

CallbacksOf(s) == {c \in installed : c[1] = s}

(* The game drops what it knows of a sprite when it closes it. *)
Forgotten(s) == {g \in Guests : Of[g] = s}

ReleaseSprite(s) ==
  /\ s \in open
  /\ Hold(UsedBy(holds, s), {})
  /\ native' = native \ UsedBy(native, s)
  /\ open' = open \ ({s} \cup Forgotten(s))
  /\ freed' = freed \cup {s}
  /\ planned' = planned \ Forgotten(s)
  /\ listed' = IF s \in added THEN listed \ {s} ELSE listed
  /\ added' = added \ {s}
  /\ installed' = installed \ CallbacksOf(s)

CloseSpriteKeepsSlots(s) == ReleaseSprite(s) /\ UNCHANGED callbacks
CloseSprite(s) ==
  /\ ReleaseSprite(s)
  /\ callbacks' = callbacks - Cardinality(CallbacksOf(s))

Draw ==
  \/ \E t \in Tables : CreateFrame(t) \/ CloseTable(t)
  \/ \E f \in Fonts : CreateGlyph(f) \/ CloseFont(f)
  \/ \E b \in AnyBitmap, v \in Views : BitmapMask(b, v)
  \/ \E b \in OwnedBitmaps, m \in AnyBitmap : SetBitmapMask(b, m)
  \/ \E b \in OwnedBitmaps : ClearBitmapMask(b) \/ CloseBitmap(b)
  \/ \E p \in Videos : UseScreenContext(p) \/ CloseVideo(p) \/ \E b \in OwnedBitmaps : SetContext(p, b)

Arrange ==
  \/ \E m \in TileMaps : CloseTileMap(m) \/ \E t \in Tables : NewTileMap(m, t)
  \/ \E w \in Wrappers, m \in TileMaps : SetTileMap(w, m)
  \/ \E w \in Wrappers : ClearTileMap(w) \/ ClearStencil(w)
  \/ \E w \in Wrappers, slot \in {"image", "stencil"}, b \in AnyBitmap : SetImage(w, slot, b)
  \/ \E g \in Guests : Query(g)
  \/ \E S \in SUBSET (Wrappers \cap open) : SetSpritesAdded(S, TRUE) \/ SetSpritesAdded(S, FALSE)
  \/ \E s \in Callers, kind \in Kinds : SetCallback(s, kind, TRUE) \/ SetCallback(s, kind, FALSE)
  \/ \E s \in Sprites : CloseSprite(s)
  \/ RemoveAll

Next == Draw \/ Arrange

Spec == Init /\ [][Next]_vars

-----------------------------------------------------------------------------
(* Types: references run between objects of the game, a freed object is    *)
(* not open, no count is negative.                                         *)
TypeOK ==
  /\ planned \cup open \subseteq Objects /\ freed \subseteq Owned
  /\ open \cap freed = {}
  /\ \A e \in holds \cup native : User(e) \in Objects /\ Used(e) \in Objects
  /\ users \in [Counted -> Nat]
  /\ added \subseteq Wrappers /\ listed \subseteq Sprites
  /\ installed \subseteq Sprites \X Kinds

(* Each object's count is the number of fields that hold it, so that what  *)
(* is not used can be closed, and what is used cannot (runtime.go:1544,    *)
(* runtime.go:1477, runtime.go:2543).                                      *)
UsersCounted ==
  \A k \in Counted : users[k] = Counting({e \in holds : User(e) \in open \/ User(e) \in Guests}, k)

(* Nothing that the native side draws with is freed under it: masks, the   *)
(* images and stencils of sprites, tile maps and their tables, in whatever *)
(* order the game closes what it owns.                                     *)
NothingDangling ==
  \A e \in native : e[2] # "context" => ~Dead(Used(e))

(* Every call that gets past the checks of its wrapper reaches native      *)
(* objects that are alive: those of a bitmap, of its Close, of a table or  *)
(* a font, of a sprite or a tile map, and RenderFrame into its context.    *)
BitmapCalls == {b \in AnyBitmap : Live(b)} \cup (OwnedBitmaps \cap open)
TableCalls == Tables \cap open
FontCalls == Fonts \cap open
SpriteCalls == {Sprite(w) : w \in Wrappers \cap open}
TileMapCalls == TileMaps \cap open
RenderFrame == {Used(e) : e \in {n \in native : n[2] = "context" /\ \A h \in InSlot(holds, SlotOf(n)) : Live(Used(h))}}
CallsReachLiveObjects ==
  \A x \in BitmapCalls \cup TableCalls \cup FontCalls \cup SpriteCalls \cup TileMapCalls \cup RenderFrame : ~Dead(x)

(* A sprite is on the display list exactly when its wrapper is open and    *)
(* says so: Add and Remove decide by that whether to call the native side  *)
(* (runtime.go:2389, runtime.go:1912), and sprite.go:3 promises: "Closing  *)
(* a sprite removes it from the display list before releasing its native   *)
(* handle."                                                                *)
ListAgrees ==
  listed = added \cap Sprites /\ listed \subseteq open

(* API.md:718: at most 64 installed callbacks, and Close releases every  *)
(* slot: the count is that of the open sprites' callbacks.               *)
SlotsCounted ==
  /\ callbacks = Cardinality({c \in Sprites \X Kinds : c \in installed /\ c[1] \in open})
  /\ callbacks <= Limit
=============================================================================
