---------------------------- MODULE DisplayProofs ----------------------------
(***************************************************************************)
(* Proofs about the resources for drawing, for any bitmaps, tables, fonts, *)
(* sprites, tile maps and players: users and callbacks are counted, the    *)
(* display list is what the wrappers say, and nothing that the native side *)
(* draws with is freed under it.                                           *)
(*                                                                         *)
(* The games are those that neither mask with borrowed bitmaps nor add     *)
(* sprites through a second wrapper, as the model-checked ones.            *)
(*                                                                         *)
(* What holds the proof together is that a field that counts holds an open *)
(* object.  The native side repeats the fields for masks, contexts and     *)
(* tables; the tile map it shows is held by one of the sprite's wrappers;  *)
(* and nobody holds what a sprite shows otherwise, so that only the game's *)
(* order of closing protects it.                                           *)
(***************************************************************************)
EXTENDS Display, FiniteSetTheorems, TLAPS

(* The edges that there can be. *)
Fields ==
  UNION {OwnedBitmaps \X {"mask"} \X OwnedBitmaps, Views \X {"parent"} \X OwnedBitmaps,
         Videos \X {"context"} \X OwnedBitmaps, TileMaps \X {"table"} \X Tables,
         Wrappers \X {"tileMap"} \X TileMaps}

Repeated == {"mask", "context", "table"}
ImageSlots == {"image", "stencil"}
Shows == UNION {Sprites \X {"tileMap"} \X TileMaps, Sprites \X ImageSlots \X AnyBitmap}
Slot(E, kinds) == {e \in E : e[2] \in kinds}

Typed ==
  /\ open \subseteq Objects /\ freed \subseteq Owned
  /\ planned \subseteq Objects \cap (Lent \cup Views \cup TileMaps \cup Guests)
  /\ holds \subseteq Fields /\ IsFiniteSet(holds)

Lives ==
  /\ open \cap freed = {} /\ planned \cap (open \cup freed) = {}
  /\ \A g \in Guests \cap open : Of[g] \in open

Held ==
  /\ \A e \in holds : User(e) \in open \cup Guests
  /\ \A e \in holds : e[2] # "context" => Used(e) \in open
  /\ users = [k \in Counted |-> Counting(holds, k)]

(* What the native side draws with. *)
TileMapsHeld ==
  \A e \in Slot(native, {"tileMap"}) :
    \E w \in Wrappers : Sprite(w) = User(e) /\ <<w, "tileMap", Used(e)>> \in holds
ImagesLive == \A e \in Slot(native, ImageSlots) : Used(e) \notin planned /\ ~Dead(Used(e))

Drawn ==
  /\ Slot(native, Repeated) = Slot(holds, Repeated)
  /\ native \subseteq Slot(native, Repeated) \cup Shows
  /\ TileMapsHeld /\ ImagesLive

Listing ==
  /\ added \subseteq Sprites \cap open /\ listed = added
  /\ installed \subseteq Sprites \X Kinds /\ IsFiniteSet(installed)
  /\ \A c \in installed : c[1] \in open
  /\ callbacks = Cardinality(installed) /\ callbacks <= Limit

IInv == Typed /\ Lives /\ Held /\ Drawn /\ Listing

-----------------------------------------------------------------------------
(* Edges. *)

LEMMA FieldIs ==
  ASSUME NEW e \in Fields
  PROVE  /\ e = <<e[1], e[2], e[3]>>
         /\ \/ e[1] \in OwnedBitmaps /\ e[2] = "mask" /\ e[3] \in OwnedBitmaps
            \/ e[1] \in Views /\ e[2] = "parent" /\ e[3] \in OwnedBitmaps
            \/ e[1] \in Videos /\ e[2] = "context" /\ e[3] \in OwnedBitmaps
            \/ e[1] \in TileMaps /\ e[2] = "table" /\ e[3] \in Tables
            \/ e[1] \in Wrappers /\ e[2] = "tileMap" /\ e[3] \in TileMaps
BY DEF Fields

LEMMA ShowIs ==
  ASSUME NEW e \in Shows
  PROVE  /\ e = <<e[1], e[2], e[3]>> /\ e[1] \in Sprites
         /\ \/ e[2] = "tileMap" /\ e[3] \in TileMaps
            \/ e[2] \in ImageSlots /\ e[3] \in AnyBitmap
BY DEF Shows

(* How often an object is used is a number, and what is added to and taken *)
(* from the fields changes it by as much.                                  *)
LEMMA CountIs ==
  ASSUME NEW E, IsFiniteSet(E), NEW k
  PROVE  /\ Counting(E, k) \in Nat
         /\ Counting(E, k) = 0 <=> \A e \in E : <<e[2], Used(e)>> # k
<1> DEFINE S == {e \in E : <<e[2], Used(e)>> = k}
<1>1. IsFiniteSet(S)
  BY FS_Subset
<1>2. S = {} <=> \A e \in E : <<e[2], Used(e)>> # k
  OBVIOUS
<1>3. Cardinality(S) \in Nat /\ (Cardinality(S) = 0 <=> S = {})
  BY <1>1, FS_CardinalityType, FS_EmptySet
<1> QED
  BY <1>2, <1>3 DEF Counting

LEMMA CountChanges ==
  ASSUME NEW E, IsFiniteSet(E), NEW R, R \subseteq E, NEW A, IsFiniteSet(A),
         A \cap (E \ R) = {}, NEW k
  PROVE  Counting((E \ R) \cup A, k) = Counting(E, k) - Counting(R, k) + Counting(A, k)
<1> DEFINE S(F) == {e \in F : <<e[2], Used(e)>> = k}
<1>1. IsFiniteSet(S(E)) /\ IsFiniteSet(S(R)) /\ IsFiniteSet(S(A)) /\ IsFiniteSet(S(E) \ S(R))
  BY FS_Subset
<1>2. S((E \ R) \cup A) = (S(E) \ S(R)) \cup S(A)
  OBVIOUS
<1>3. (S(E) \ S(R)) \cap S(A) = {} /\ S(E) \cap S(R) = S(R)
  OBVIOUS
<1>4. Cardinality((S(E) \ S(R)) \cup S(A)) = Cardinality(S(E) \ S(R)) + Cardinality(S(A))
  <2>1. Cardinality((S(E) \ S(R)) \cup S(A))
          = Cardinality(S(E) \ S(R)) + Cardinality(S(A)) - Cardinality((S(E) \ S(R)) \cap S(A))
    BY <1>1, FS_Union
  <2>2. Cardinality((S(E) \ S(R)) \cap S(A)) = 0
    BY <1>3, FS_EmptySet
  <2>3. Cardinality(S(E) \ S(R)) \in Nat /\ Cardinality(S(A)) \in Nat
    BY <1>1, FS_CardinalityType
  <2> HIDE DEF S
  <2> QED
    BY <2>1, <2>2, <2>3
<1>5. Cardinality(S(E) \ S(R)) = Cardinality(S(E)) - Cardinality(S(R))
  <2>1. Cardinality(S(E) \ S(R)) = Cardinality(S(E)) - Cardinality(S(E) \cap S(R))
    BY <1>1, FS_Difference
  <2> QED
    BY <1>3, <2>1
<1> HIDE DEF S
<1>6. Cardinality(S((E \ R) \cup A)) = Cardinality(S(E)) - Cardinality(S(R)) + Cardinality(S(A))
  BY <1>2, <1>4, <1>5
<1> QED
  BY <1>6 DEF Counting, S

(* The counts follow the fields. *)
LEMMA HoldKeeps ==
  ASSUME Held, Typed, NEW R, R \subseteq holds, NEW A, IsFiniteSet(A), A \subseteq Fields,
         A \cap (holds \ R) = {}, Hold(R, A)
  PROVE  /\ holds' \subseteq Fields /\ IsFiniteSet(holds')
         /\ users' = [k \in Counted |-> Counting(holds', k)]
<1>1. holds' = (holds \ R) \cup A
  BY DEF Hold
<1>2. IsFiniteSet((holds \ R) \cup A)
  <2>1. IsFiniteSet(holds \ R)
    BY FS_Subset DEF Typed
  <2> QED
    BY <2>1, FS_Union
<1>3. \A k \in Counted : users[k] - Counting(R, k) + Counting(A, k) = Counting((holds \ R) \cup A, k)
  BY CountChanges DEF Held, Typed
<1>4. users' = [k \in Counted |-> users[k] - Counting(R, k) + Counting(A, k)]
  BY DEF Hold
<1> QED
  BY <1>1, <1>2, <1>3, <1>4 DEF Typed

(* What nobody counts as a user of, no field holds. *)
LEMMA Unused ==
  ASSUME Held, Typed, NEW k \in Counted, users[k] <= 0
  PROVE  \A e \in holds : <<e[2], Used(e)>> # k
<1>1. users[k] = Counting(holds, k) /\ Counting(holds, k) \in Nat
  BY CountIs DEF Held, Typed
<1> QED
  BY <1>1, CountIs DEF Typed

-----------------------------------------------------------------------------
(* What pixels belong to. *)

Once(x) == {x} \cup Parents({x})

LEMMA StorageIs ==
  ASSUME NEW x
  PROVE  Storage(x) = {Lender(y) : y \in Once(x) \cup Parents(Once(x))}
BY DEF Storage, Once

LEMMA ParentsAre ==
  ASSUME Typed, NEW S
  PROVE  /\ Parents(S) = {Used(e) : e \in {h \in holds : h[2] = "parent" /\ User(h) \in S}}
         /\ Parents(S) \subseteq OwnedBitmaps
         /\ S \cap Views = {} => Parents(S) = {}
         /\ Held => Parents(S) \subseteq open
<1>1. \A h \in holds : h[2] = "parent" => User(h) \in Views /\ Used(h) \in OwnedBitmaps
  BY FieldIs DEF Typed, User, Used
<1>2. Parents(S) = {Used(e) : e \in {h \in holds : h[2] = "parent" /\ User(h) \in S}}
  BY DEF Parents
<1>3. Held => \A h \in holds : h[2] = "parent" => Used(h) \in open
  BY DEF Held
<1> QED
  BY <1>1, <1>2, <1>3

LEMMA LenderIs ==
  ASSUME DisplayAssumption
  PROVE  /\ \A x \in Objects \ Lent : Lender(x) = x
         /\ \A t \in Tables : Lender(Frame(t)) = t
         /\ \A f \in Fonts : Lender(Glyph(f)) = f
         /\ \A x \in OwnedBitmaps : x \notin Lent
BY DEF DisplayAssumption, Lender, Lent, Frame, Glyph

(* An open object that is not lent is stored in open ones. *)
LEMMA OpenIsLive ==
  ASSUME DisplayAssumption, Typed, Lives, Held, NEW x \in open, x \notin Lent
  PROVE  Storage(x) \subseteq open /\ ~Dead(x)
<1>1. Once(x) \subseteq open /\ Parents(Once(x)) \subseteq open \cap OwnedBitmaps
  BY ParentsAre DEF Once
<1>2. \A y \in Once(x) \cup Parents(Once(x)) : y \in Objects \ Lent
  BY <1>1, LenderIs, ParentsAre DEF Once, Typed
<1>3. Storage(x) \subseteq open
  BY <1>1, <1>2, LenderIs, StorageIs
<1> QED
  BY <1>3 DEF Dead, Lives

(* What passes the check of every call is alive. *)
LEMMA LiveIsAlive ==
  ASSUME DisplayAssumption, Typed, Lives, Held, NEW b \in AnyBitmap, Live(b)
  PROVE  Storage(b) \subseteq open /\ ~Dead(b) /\ b \in open
<1>1. CASE b \notin Lent
  BY <1>1, OpenIsLive DEF Live
<1>2. CASE b \in Lent
  <2>1. Once(b) = {b} /\ Parents(Once(b)) = {}
    BY <1>2, ParentsAre DEF Once, DisplayAssumption, OwnedBitmaps
  <2>2. Storage(b) = {Lender(b)}
    BY <2>1, StorageIs
  <2>3. Lender(b) \in open
    BY <1>2, LenderIs DEF Lent, Live
  <2> QED
    BY <2>2, <2>3 DEF Dead, Lives, Live
<1> QED
  BY <1>1, <1>2

LEMMA StoredIn ==
  ASSUME DisplayAssumption, Typed, NEW b \in AnyBitmap
  PROVE  Storage(b) \subseteq OwnedBitmaps \cup Tables \cup Fonts
<1>1. \A y \in Once(b) \cup Parents(Once(b)) : y \in AnyBitmap
  BY ParentsAre DEF Once, AnyBitmap
<1>2. \A y \in AnyBitmap : Lender(y) \in OwnedBitmaps \cup Tables \cup Fonts
  <2> SUFFICES ASSUME NEW y \in AnyBitmap PROVE Lender(y) \in OwnedBitmaps \cup Tables \cup Fonts
    OBVIOUS
  <2>1. CASE y \in Lent
    BY <2>1, LenderIs DEF Lent
  <2>2. CASE y \in OwnedBitmaps
    BY <2>2, LenderIs DEF Objects, Owned
  <2> QED
    BY <2>1, <2>2 DEF AnyBitmap
<1> QED
  BY <1>1, <1>2, StorageIs

(* Storage changes only with the parents on the way to it. *)
LEMMA StorageStays ==
  ASSUME Typed, Typed', NEW x,
         \A e \in holds \cup holds' : e[2] = "parent" /\ User(e) \in Once(x) => e \in holds \cap holds'
  PROVE  Storage(x)' = Storage(x)
<1>1. Parents({x})' = Parents({x})
  BY DEF Parents, Once
<1>2. Once(x)' = Once(x)
  BY <1>1 DEF Once
<1>3. Parents(Once(x))' = Parents(Once(x))
  BY <1>2 DEF Parents
<1> QED
  BY <1>2, <1>3, StorageIs DEF Storage, Once

-----------------------------------------------------------------------------
(* What a step leaves as it is. *)

LEMMA ListingStays ==
  ASSUME Listing, UNCHANGED list, open \cap Sprites \subseteq open'
  PROVE  Listing'
BY DEF Listing, list

(* An image stays alive if its storage is neither moved nor freed. *)
LEMMA ImagesStay ==
  ASSUME Drawn, planned' \subseteq planned,
         \A e \in Slot(native', ImageSlots) :
           e \in native /\ Storage(Used(e))' = Storage(Used(e)) /\ Storage(Used(e)) \cap freed' \subseteq freed
  PROVE  ImagesLive'
<1> SUFFICES ASSUME NEW e \in Slot(native', ImageSlots) PROVE Used(e) \notin planned' /\ ~Dead(Used(e))'
  BY DEF ImagesLive, Slot
<1>1. e \in Slot(native, ImageSlots)
  BY DEF Slot
<1>2. Used(e) \notin planned /\ Storage(Used(e)) \cap freed = {}
  BY <1>1 DEF Drawn, ImagesLive, Dead
<1>3. Storage(Used(e))' \cap freed' = {}
  BY <1>2
<1> QED
  BY <1>2, <1>3 DEF Dead

LEMMA SameFieldsSameStorage ==
  ASSUME holds' = holds
  PROVE  \A x : Storage(x)' = Storage(x)
BY DEF Storage, Parents

LEMMA DrawnSame ==
  ASSUME Drawn, UNCHANGED <<holds, native, freed>>, planned' \subseteq planned
  PROVE  Drawn'
<1>1. ImagesLive'
  BY ImagesStay, SameFieldsSameStorage DEF Slot
<1>2. TileMapsHeld'
  BY DEF Drawn, TileMapsHeld, Slot
<1> QED
  BY <1>1, <1>2 DEF Drawn, Slot

LEMMA HeldSame ==
  ASSUME Held, UNCHANGED <<holds, users>>, open \subseteq open'
  PROVE  Held'
BY DEF Held, Counting

LEMMA Created ==
  ASSUME Typed, Lives, NEW x, Create(x), UNCHANGED freed, x \in Guests => Of[x] \in open
  PROVE  /\ Lives' /\ open \subseteq open' /\ planned' \subseteq planned
         /\ open' \subseteq Objects /\ x \in open' /\ x \notin open /\ x \in planned
BY DEF Typed, Lives, Create

-----------------------------------------------------------------------------
(* Frames, glyphs and queried sprites. *)

LEMMA CreateKeeps ==
  ASSUME IInv, NEW x, Create(x), UNCHANGED <<freed, holds, users, native, list>>,
         x \in Guests => Of[x] \in open
  PROVE  IInv'
<1>1. /\ Lives' /\ open \subseteq open' /\ planned' \subseteq planned /\ open' \subseteq Objects
  BY Created DEF IInv
<1>2. Typed'
  BY <1>1 DEF IInv, Typed
<1> QED
  BY <1>1, <1>2, HeldSame, DrawnSame, ListingStays DEF IInv

LEMMA LendingKeeps ==
  ASSUME DisplayAssumption, IInv,
         \/ \E t \in Tables : CreateFrame(t)
         \/ \E f \in Fonts : CreateGlyph(f)
         \/ \E g \in Guests : Query(g)
  PROVE  IInv'
<1>1. ASSUME NEW t \in Tables, CreateFrame(t) PROVE IInv'
  <2>1. Frame(t) \notin Guests
    BY DEF DisplayAssumption, Lent, Wrappers
  <2> QED
    BY <1>1, <2>1, CreateKeeps DEF CreateFrame
<1>2. ASSUME NEW f \in Fonts, CreateGlyph(f) PROVE IInv'
  <2>1. Glyph(f) \notin Guests
    BY DEF DisplayAssumption, Lent, Wrappers
  <2> QED
    BY <1>2, <2>1, CreateKeeps DEF CreateGlyph
<1>3. ASSUME NEW g \in Guests, Query(g) PROVE IInv'
  <2>1. Of[g] \in open
    BY <1>3 DEF Query, IInv, Listing
  <2> QED
    BY <1>3, <2>1, CreateKeeps DEF Query
<1> QED
  BY <1>1, <1>2, <1>3

-----------------------------------------------------------------------------
(* Fields that the native side repeats: masks, contexts and tables. *)

LEMMA RepeatedKeeps ==
  ASSUME DisplayAssumption, IInv, Lives', open \subseteq open', open' \subseteq Objects,
         planned' \subseteq planned, UNCHANGED <<freed, list>>,
         NEW u \in open', NEW k \in Repeated, NEW A, IsFiniteSet(A), A \subseteq Fields,
         \A e \in A : e[1] = u /\ e[2] = k /\ Used(e) \in open',
         holds' = (holds \ InSlot(holds, <<u, k>>)) \cup A,
         native' = (native \ InSlot(native, <<u, k>>)) \cup A,
         users' = [c \in Counted |-> Counting(holds', c)]
  PROVE  IInv'
<1>1. Typed'
  <2>1. holds' \subseteq Fields
    BY DEF IInv, Typed
  <2>2. IsFiniteSet(holds \ InSlot(holds, <<u, k>>))
    BY FS_Subset DEF IInv, Typed
  <2>3. IsFiniteSet(holds')
    BY <2>2, FS_Union
  <2> QED
    BY <2>1, <2>3 DEF IInv, Typed
<1>2. Held'
  <2>1. \A e \in holds' : e \in holds \/ e \in A
    OBVIOUS
  <2>2. \A e \in holds' : User(e) \in open' \cup Guests
    BY <2>1 DEF IInv, Held, User
  <2>3. \A e \in holds' : e[2] # "context" => Used(e) \in open'
    BY <2>1 DEF IInv, Held
  <2> QED
    BY <2>2, <2>3 DEF Held
<1>3. \A e \in holds \cup holds' : e[2] \notin Repeated => e \in holds \cap holds'
  BY DEF InSlot, SlotOf
<1>4. \A e \in native \cup native' : e[2] \notin Repeated => e \in native \cap native'
  BY DEF InSlot, SlotOf
<1>5. ImagesLive'
  <2>1. \A x : Storage(x)' = Storage(x)
    BY <1>1, <1>3, StorageStays DEF IInv, Repeated
  <2>2. \A e \in Slot(native', ImageSlots) : e \in native
    BY <1>4 DEF Slot, ImageSlots, Repeated
  <2> QED
    BY <2>1, <2>2, ImagesStay DEF IInv
<1>6. TileMapsHeld'
  <2> SUFFICES ASSUME NEW e \in Slot(native', {"tileMap"})
               PROVE  \E w \in Wrappers : Sprite(w) = User(e) /\ <<w, "tileMap", Used(e)>> \in holds'
    BY DEF TileMapsHeld, Slot
  <2>1. e \in Slot(native, {"tileMap"})
    BY <1>4 DEF Slot, Repeated
  <2>2. PICK w \in Wrappers : Sprite(w) = User(e) /\ <<w, "tileMap", Used(e)>> \in holds
    BY <2>1 DEF IInv, Drawn, TileMapsHeld
  <2>3. <<w, "tileMap", Used(e)>> \in holds'
    BY <2>2, <1>3 DEF Repeated
  <2> QED
    BY <2>2, <2>3
<1>7. Slot(native', Repeated) = Slot(holds', Repeated)
  BY DEF IInv, Drawn, Slot, InSlot
<1>8. native' \subseteq Slot(native', Repeated) \cup Shows
  BY DEF IInv, Drawn, Slot
<1>9. Drawn'
  BY <1>5, <1>6, <1>7, <1>8 DEF Drawn, Slot
<1>10. Listing'
  BY ListingStays DEF IInv
<1> QED
  BY <1>1, <1>2, <1>9, <1>10 DEF IInv

(* What is put natively into a slot. *)
LEMMA NativelyIs ==
  ASSUME NEW u, NEW k, NEW x
  PROVE  Natively(<<u, k>>, x) =
           (native \ InSlot(native, <<u, k>>)) \cup (IF x = None THEN {} ELSE {<<u, k, x>>})
BY DEF Natively

LEMMA MasksKeep ==
  ASSUME DisplayAssumption, BorrowedMasks = FALSE, IInv, NEW b \in OwnedBitmaps,
         ClearBitmapMask(b) \/ \E m \in AnyBitmap : SetBitmapMask(b, m)
  PROVE  IInv'
<1> DEFINE slot == <<b, "mask">>
<1>1. b \in open
  BY DEF ClearBitmapMask, SetBitmapMask, Live
<1>2. CASE ClearBitmapMask(b)
  <2>1. /\ Hold(InSlot(holds, slot), {}) /\ native' = (native \ InSlot(native, slot)) \cup {}
        /\ UNCHANGED <<planned, open, freed, list>>
    BY <1>2, NativelyIs DEF ClearBitmapMask
  <2>2. /\ holds' = (holds \ InSlot(holds, slot)) \cup {}
        /\ users' = [c \in Counted |-> Counting(holds', c)]
    BY <2>1, HoldKeeps, FS_EmptySet DEF Hold, IInv, InSlot
  <2> QED
    BY <1>1, <2>1, <2>2, RepeatedKeeps, FS_EmptySet DEF IInv, Typed, Lives, Repeated
<1>3. ASSUME NEW m \in AnyBitmap, SetBitmapMask(b, m) PROVE IInv'
  <2> DEFINE A == {<<b, "mask", m>>}
  <2>1. m \in OwnedBitmaps \cap open /\ m # None
    BY <1>3 DEF SetBitmapMask, MayMask, Live, DisplayAssumption, Objects, Owned
  <2>2. /\ Hold(InSlot(holds, slot), A) /\ native' = (native \ InSlot(native, slot)) \cup A
        /\ UNCHANGED <<planned, open, freed, list>>
    BY <1>3, <2>1, NativelyIs DEF SetBitmapMask
  <2>3. A \subseteq Fields /\ IsFiniteSet(A) /\ A \cap (holds \ InSlot(holds, slot)) = {}
    <3>1. A \subseteq Fields
      BY <2>1 DEF Fields
    <3>2. A \cap (holds \ InSlot(holds, slot)) = {}
      BY DEF InSlot, SlotOf
    <3> QED
      BY <3>1, <3>2, FS_Singleton
  <2>4. /\ holds' = (holds \ InSlot(holds, slot)) \cup A
        /\ users' = [c \in Counted |-> Counting(holds', c)]
    BY <2>2, <2>3, HoldKeeps DEF Hold, IInv, InSlot
  <2>5. \A e \in A : e[1] = b /\ e[2] = "mask" /\ Used(e) \in open
    BY <2>1 DEF Used
  <2> HIDE DEF A
  <2> QED
    BY <1>1, <2>2, <2>3, <2>4, <2>5, RepeatedKeeps DEF IInv, Typed, Lives, Repeated
<1> QED
  BY <1>2, <1>3

(* Contexts have no counts. *)
LEMMA Uncounted ==
  ASSUME NEW E, NEW F, Slot(E, {"mask", "parent", "tileMap", "table"}) = Slot(F, {"mask", "parent", "tileMap", "table"}),
         NEW k \in Counted
  PROVE  Counting(E, k) = Counting(F, k)
<1>1. k[1] \in {"mask", "parent", "tileMap", "table"}
  BY DEF Counted
<1>2. {e \in E : <<e[2], Used(e)>> = k} = {e \in F : <<e[2], Used(e)>> = k}
  BY <1>1 DEF Slot
<1> QED
  BY <1>2 DEF Counting

LEMMA ContextsKeep ==
  ASSUME DisplayAssumption, IInv, NEW p \in Videos,
         UseScreenContext(p) \/ \E b \in OwnedBitmaps : SetContext(p, b)
  PROVE  IInv'
<1> DEFINE slot == <<p, "context">>
<1>1. p \in open /\ UNCHANGED <<planned, open, freed, users, list>>
  BY DEF UseScreenContext, SetContext
<1>2. PICK A : /\ A \subseteq Fields /\ IsFiniteSet(A)
               /\ \A e \in A : e[1] = p /\ e[2] = "context" /\ Used(e) \in open
               /\ holds' = (holds \ InSlot(holds, slot)) \cup A
               /\ native' = (native \ InSlot(native, slot)) \cup A
  <2>1. CASE UseScreenContext(p)
    <3>1. /\ holds' = (holds \ InSlot(holds, slot)) \cup {}
          /\ native' = (native \ InSlot(native, slot)) \cup {}
      BY <2>1, NativelyIs DEF UseScreenContext
    <3> QED
      BY <3>1, FS_EmptySet
  <2>2. ASSUME NEW b \in OwnedBitmaps, SetContext(p, b)
        PROVE  \E A : /\ A \subseteq Fields /\ IsFiniteSet(A)
                      /\ \A e \in A : e[1] = p /\ e[2] = "context" /\ Used(e) \in open
                      /\ holds' = (holds \ InSlot(holds, slot)) \cup A
                      /\ native' = (native \ InSlot(native, slot)) \cup A
    <3>1. b \in open /\ b # None
      BY <2>2 DEF SetContext, Live, DisplayAssumption, Objects, Owned
    <3>2. /\ holds' = (holds \ InSlot(holds, slot)) \cup {<<p, "context", b>>}
          /\ native' = (native \ InSlot(native, slot)) \cup {<<p, "context", b>>}
      BY <2>2, <3>1, NativelyIs DEF SetContext
    <3>3. {<<p, "context", b>>} \subseteq Fields
      BY DEF Fields
    <3>4. \A e \in {<<p, "context", b>>} : e[1] = p /\ e[2] = "context" /\ Used(e) \in open
      BY <3>1 DEF Used
    <3> QED
      BY <3>2, <3>3, <3>4, FS_Singleton
  <2> QED
    BY <2>1, <2>2
<1>3. Slot(holds', {"mask", "parent", "tileMap", "table"}) = Slot(holds, {"mask", "parent", "tileMap", "table"})
  BY <1>2 DEF Slot, InSlot, SlotOf
<1>4. users' = [c \in Counted |-> Counting(holds', c)]
  BY <1>1, <1>3, Uncounted DEF IInv, Held
<1> QED
  <2>1. /\ Lives' /\ open \subseteq open' /\ open' \subseteq Objects /\ planned' \subseteq planned
        /\ p \in open' /\ "context" \in Repeated
    BY <1>1 DEF IInv, Typed, Lives, Repeated
  <2>2. \A e \in A : e[1] = p /\ e[2] = "context" /\ Used(e) \in open'
    BY <1>1, <1>2
  <2> QED
    BY <1>1, <1>2, <1>4, <2>1, <2>2, RepeatedKeeps

LEMMA NewTileMapKeeps ==
  ASSUME DisplayAssumption, IInv, NEW m \in TileMaps, NEW t \in Tables, NewTileMap(m, t)
  PROVE  IInv'
<1> DEFINE slot == <<m, "table">>
           A == {<<m, "table", t>>}
<1>1. /\ t \in open /\ Create(m) /\ Hold({}, A) /\ UNCHANGED <<freed, list>>
      /\ t # None /\ native' = (native \ InSlot(native, slot)) \cup A
  BY NativelyIs DEF NewTileMap, DisplayAssumption, Objects, Owned
<1>2. m \notin Guests
  BY DEF DisplayAssumption, Wrappers
<1>3. /\ Lives' /\ open \subseteq open' /\ planned' \subseteq planned
      /\ open' \subseteq Objects /\ m \in open' /\ m \notin open
  BY <1>1, <1>2, Created DEF IInv
<1>4. InSlot(holds, slot) = {}
  BY <1>2, <1>3 DEF IInv, Held, InSlot, SlotOf, User
<1>5. A \subseteq Fields /\ IsFiniteSet(A) /\ A \cap (holds \ {}) = {}
  <2>1. A \subseteq Fields
    BY DEF Fields
  <2>2. A \cap holds = {}
    BY <1>4 DEF InSlot, SlotOf
  <2> QED
    BY <2>1, <2>2, FS_Singleton
<1>6. /\ holds' = (holds \ InSlot(holds, slot)) \cup A
      /\ users' = [c \in Counted |-> Counting(holds', c)]
  BY <1>1, <1>4, <1>5, HoldKeeps DEF Hold, IInv
<1>7. \A e \in A : e[1] = m /\ e[2] = "table" /\ Used(e) \in open'
  BY <1>1, <1>3 DEF Used
<1> HIDE DEF A
<1> QED
  BY <1>1, <1>3, <1>5, <1>6, <1>7, RepeatedKeeps DEF Repeated

-----------------------------------------------------------------------------
(* Mask views. *)

LEMMA BitmapMaskKeeps ==
  ASSUME DisplayAssumption, BorrowedMasks = FALSE, IInv,
         NEW b \in AnyBitmap, NEW v \in Views, BitmapMask(b, v)
  PROVE  IInv'
<1> DEFINE A == {<<v, "parent", b>>}
<1>1. /\ b \in OwnedBitmaps \cap open /\ Create(v) /\ Hold({}, A) /\ UNCHANGED <<freed, native, list>>
  BY DEF BitmapMask, MayMask, Live
<1>2. v \notin Guests
  BY DEF DisplayAssumption, OwnedBitmaps, Wrappers
<1>3. /\ Lives' /\ open \subseteq open' /\ planned' \subseteq planned
      /\ open' \subseteq Objects /\ v \notin open /\ v \in planned
  BY <1>1, <1>2, Created DEF IInv
<1>4. v \in open'
  BY <1>1 DEF Create
<1>5. A \subseteq Fields /\ IsFiniteSet(A) /\ A \cap (holds \ {}) = {}
  <2>1. A \subseteq Fields
    BY <1>1 DEF Fields
  <2>2. A \cap holds = {}
    BY <1>2, <1>3 DEF IInv, Held, User
  <2> QED
    BY <2>1, <2>2, FS_Singleton
<1>6. /\ holds' = holds \cup A /\ holds' \subseteq Fields /\ IsFiniteSet(holds')
      /\ users' = [c \in Counted |-> Counting(holds', c)]
  BY <1>1, <1>5, HoldKeeps DEF Hold, IInv
<1>7. Typed'
  BY <1>1, <1>3, <1>6 DEF IInv, Typed
<1>8. Held'
  BY <1>1, <1>3, <1>4, <1>6 DEF IInv, Held, User, Used
<1>9. ImagesLive'
  <2>1. ASSUME NEW x, x # v PROVE Storage(x)' = Storage(x)
    <3>1. v \notin Once(x)
      BY <1>3, <2>1, ParentsAre DEF IInv, Once
    <3>2. \A e \in holds \cup holds' : e[2] = "parent" /\ User(e) \in Once(x) => e \in holds \cap holds'
      BY <1>6, <3>1 DEF User
    <3> QED
      BY <1>7, <3>2, StorageStays DEF IInv
  <2>2. \A e \in Slot(native', ImageSlots) : e \in native /\ Used(e) # v
    BY <1>1, <1>3 DEF IInv, Drawn, ImagesLive, Slot
  <2> QED
    BY <1>1, <1>3, <2>1, <2>2, ImagesStay DEF IInv
<1>10. Slot(holds', Repeated) = Slot(holds, Repeated)
  BY <1>6 DEF Slot, Repeated
<1>11. TileMapsHeld'
  BY <1>1, <1>6 DEF IInv, Drawn, TileMapsHeld, Slot
<1>12. Drawn'
  BY <1>1, <1>9, <1>10, <1>11 DEF IInv, Drawn, Slot
<1> QED
  BY <1>1, <1>3, <1>7, <1>8, <1>12, ListingStays DEF IInv

-----------------------------------------------------------------------------
(* Tile maps of sprites. *)

LEMMA SpriteIs ==
  ASSUME DisplayAssumption, NEW w \in Wrappers
  PROVE  /\ Sprite(w) \in Sprites
         /\ w \in Sprites => Sprite(w) = w
         /\ w \in Guests => Sprite(w) = Of[w]
BY DEF DisplayAssumption, Sprite, Wrappers

LEMMA TileMapSlotKeeps ==
  ASSUME DisplayAssumption, IInv, NEW w \in Wrappers \cap open, NEW M, M \subseteq TileMaps \cap open,
         UNCHANGED <<planned, open, freed, list>>,
         holds' = (holds \ InSlot(holds, <<w, "tileMap">>)) \cup {<<w, "tileMap", m>> : m \in M},
         native' = (native \ InSlot(native, <<Sprite(w), "tileMap">>))
                     \cup {<<Sprite(w), "tileMap", m>> : m \in M},
         IsFiniteSet(holds'), users' = [c \in Counted |-> Counting(holds', c)]
  PROVE  IInv'
<1> DEFINE A == {<<w, "tileMap", m>> : m \in M}
           B == {<<Sprite(w), "tileMap", m>> : m \in M}
<1>1. \A e \in A : e[1] = w /\ e[2] = "tileMap" /\ e[3] \in M
  OBVIOUS
<1>2. \A e \in B : e[1] = Sprite(w) /\ e[2] = "tileMap" /\ e[3] \in M
  OBVIOUS
<1>3. A \subseteq Fields /\ B \subseteq Shows
  BY SpriteIs DEF Fields, Shows
<1>4. Typed'
  BY <1>3 DEF IInv, Typed
<1>5. Lives' /\ Listing'
  BY ListingStays DEF IInv, Lives
<1>6. Held'
  <2>1. \A e \in holds' : e \in holds \/ e \in A
    OBVIOUS
  <2> HIDE DEF A
  <2>2. \A e \in holds' : User(e) \in open' \cup Guests
    BY <1>1, <2>1 DEF IInv, Held, User
  <2>3. \A e \in holds' : e[2] # "context" => Used(e) \in open'
    BY <1>1, <2>1 DEF IInv, Held, Used
  <2> QED
    BY <2>2, <2>3 DEF Held
<1>7. \A e \in holds \cup holds' : e[2] # "tileMap" => e \in holds \cap holds'
  BY <1>1 DEF InSlot, SlotOf
<1>8. \A e \in native \cup native' : e[2] # "tileMap" => e \in native \cap native'
  BY <1>2 DEF InSlot, SlotOf
<1>9. ImagesLive'
  <2>1. \A x : Storage(x)' = Storage(x)
    BY <1>4, <1>7, StorageStays DEF IInv
  <2>2. \A e \in Slot(native', ImageSlots) : e \in native
    BY <1>8 DEF Slot, ImageSlots
  <2> QED
    BY <2>1, <2>2, ImagesStay DEF IInv
<1>10. TileMapsHeld'
  <2> SUFFICES ASSUME NEW e \in Slot(native', {"tileMap"})
               PROVE  \E x \in Wrappers : Sprite(x) = User(e) /\ <<x, "tileMap", Used(e)>> \in holds'
    BY DEF TileMapsHeld, Slot
  <2>1. CASE e \in B
    <3>1. <<w, "tileMap", e[3]>> \in A
      BY <1>2, <2>1
    <3> QED
      BY <1>2, <2>1, <3>1 DEF User, Used
  <2>2. CASE e \notin B
    <3>1. e \in Slot(native, {"tileMap"}) /\ User(e) # Sprite(w)
      BY <2>2 DEF Slot, InSlot, SlotOf, User
    <3>2. PICK x \in Wrappers : Sprite(x) = User(e) /\ <<x, "tileMap", Used(e)>> \in holds
      BY <3>1 DEF IInv, Drawn, TileMapsHeld
    <3>3. x # w
      BY <3>1, <3>2
    <3>4. <<x, "tileMap", Used(e)>> \notin InSlot(holds, <<w, "tileMap">>)
      BY <3>3 DEF InSlot, SlotOf
    <3> QED
      BY <3>2, <3>4
  <2> QED
    BY <2>1, <2>2
<1>11. Slot(native', Repeated) = Slot(holds', Repeated)
  BY <1>7, <1>8 DEF IInv, Drawn, Slot, Repeated
<1>12. native' \subseteq Slot(native', Repeated) \cup Shows
  BY <1>3 DEF IInv, Drawn, Slot
<1>13. Drawn'
  BY <1>9, <1>10, <1>11, <1>12 DEF Drawn, Slot
<1> QED
  BY <1>4, <1>5, <1>6, <1>13 DEF IInv

LEMMA TileMapsKeep ==
  ASSUME DisplayAssumption, IInv, NEW w \in Wrappers,
         ClearTileMap(w) \/ \E m \in TileMaps : SetTileMap(w, m)
  PROVE  IInv'
<1> DEFINE slot == <<w, "tileMap">>
<1>1. CASE ClearTileMap(w)
  <2>1. /\ w \in open /\ UNCHANGED <<planned, open, freed, list>> /\ Hold(InSlot(holds, slot), {})
        /\ native' = (native \ InSlot(native, <<Sprite(w), "tileMap">>)) \cup {}
    BY <1>1, NativelyIs DEF ClearTileMap
  <2>2. /\ holds' = (holds \ InSlot(holds, slot)) \cup {} /\ IsFiniteSet(holds')
        /\ users' = [c \in Counted |-> Counting(holds', c)]
    BY <2>1, HoldKeeps, FS_EmptySet DEF Hold, IInv, InSlot
  <2>3. \A x : {<<x, "tileMap", m>> : m \in {}} = {}
    OBVIOUS
  <2> QED
    BY <2>1, <2>2, <2>3, TileMapSlotKeeps
<1>2. ASSUME NEW m \in TileMaps, SetTileMap(w, m) PROVE IInv'
  <2> DEFINE A == {<<w, "tileMap", m>>}
  <2>1. /\ w \in open /\ m \in open /\ m # None /\ <<w, "tileMap", m>> \notin holds
        /\ UNCHANGED <<planned, open, freed, list>> /\ Hold(InSlot(holds, slot), A)
    BY <1>2 DEF SetTileMap, DisplayAssumption, Objects, Owned
  <2>2. native' = (native \ InSlot(native, <<Sprite(w), "tileMap">>)) \cup {<<Sprite(w), "tileMap", m>>}
    BY <1>2, <2>1, NativelyIs DEF SetTileMap
  <2>3. A \subseteq Fields /\ A \cap (holds \ InSlot(holds, slot)) = {}
    BY <2>1 DEF Fields
  <2>4. /\ holds' = (holds \ InSlot(holds, slot)) \cup A /\ IsFiniteSet(holds')
        /\ users' = [c \in Counted |-> Counting(holds', c)]
    <3>1. IsFiniteSet(A) /\ InSlot(holds, slot) \subseteq holds
      BY FS_Singleton DEF InSlot
    <3> HIDE DEF A
    <3> QED
      BY <2>1, <2>3, <3>1, HoldKeeps DEF Hold, IInv
  <2> DEFINE M == {m}
  <2>5. /\ M \subseteq TileMaps \cap open
        /\ A = {<<w, "tileMap", n>> : n \in M}
        /\ {<<Sprite(w), "tileMap", m>>} = {<<Sprite(w), "tileMap", n>> : n \in M}
    BY <2>1
  <2> HIDE DEF A, M
  <2>6. native' = (native \ InSlot(native, <<Sprite(w), "tileMap">>))
                    \cup {<<Sprite(w), "tileMap", n>> : n \in M}
    BY <2>2, <2>5
  <2>7. holds' = (holds \ InSlot(holds, slot)) \cup {<<w, "tileMap", n>> : n \in M}
    BY <2>4, <2>5
  <2> QED
    BY <2>1, <2>4, <2>5, <2>6, <2>7, TileMapSlotKeeps
<1> QED
  BY <1>1, <1>2

-----------------------------------------------------------------------------
(* Images and stencils, which no field holds. *)

LEMMA ImageSlotKeeps ==
  ASSUME DisplayAssumption, IInv, NEW s \in Sprites, NEW k \in ImageSlots, NEW B,
         \A e \in B : e[1] = s /\ e[2] = k /\ Used(e) \in open /\ ~Dead(Used(e)),
         B \subseteq Shows,
         native' = (native \ InSlot(native, <<s, k>>)) \cup B,
         UNCHANGED <<planned, open, freed, holds, users, list>>
  PROVE  IInv'
<1>1. Typed' /\ Lives' /\ Held' /\ Listing'
  BY HeldSame, ListingStays DEF IInv, Typed, Lives
<1>2. \A e \in native \cup native' : e[2] \notin ImageSlots => e \in native \cap native'
  BY DEF InSlot, SlotOf
<1>3. ImagesLive'
  <2> SUFFICES ASSUME NEW e \in Slot(native', ImageSlots) PROVE Used(e) \notin planned' /\ ~Dead(Used(e))'
    BY DEF ImagesLive, Slot
  <2>1. Used(e) \notin planned /\ ~Dead(Used(e))
    BY DEF IInv, Drawn, ImagesLive, Slot, Lives
  <2> QED
    BY <2>1, SameFieldsSameStorage DEF Dead
<1>4. TileMapsHeld'
  BY <1>2 DEF IInv, Drawn, TileMapsHeld, Slot, ImageSlots
<1>5. Slot(native', Repeated) = Slot(native, Repeated)
  BY <1>2 DEF Slot, Repeated, ImageSlots
<1>6. native' \subseteq Slot(native', Repeated) \cup Shows
  BY <1>5 DEF IInv, Drawn
<1>7. Drawn'
  BY <1>3, <1>4, <1>5, <1>6 DEF IInv, Drawn, Slot
<1> QED
  BY <1>1, <1>7 DEF IInv

LEMMA ImagesKeep ==
  ASSUME DisplayAssumption, IInv, NEW w \in Wrappers,
         ClearStencil(w) \/ \E k \in {"image", "stencil"}, b \in AnyBitmap : SetImage(w, k, b)
  PROVE  IInv'
<1>1. CASE ClearStencil(w)
  <2> DEFINE B == {}
  <2>1. /\ native' = (native \ InSlot(native, <<Sprite(w), "stencil">>)) \cup B
        /\ UNCHANGED <<planned, open, freed, holds, users, list>>
    BY <1>1, NativelyIs DEF ClearStencil
  <2>2. /\ Sprite(w) \in Sprites /\ "stencil" \in ImageSlots /\ B \subseteq Shows
        /\ \A e \in B : e[1] = Sprite(w) /\ e[2] = "stencil" /\ Used(e) \in open /\ ~Dead(Used(e))
    BY SpriteIs DEF ImageSlots
  <2> HIDE DEF B
  <2> QED
    BY <2>1, <2>2, ImageSlotKeeps
<1>2. ASSUME NEW k \in ImageSlots, NEW b \in AnyBitmap, SetImage(w, k, b) PROVE IInv'
  <2> DEFINE B == {<<Sprite(w), k, b>>}
  <2>1. b \in open /\ ~Dead(b) /\ b # None
    BY <1>2, LiveIsAlive DEF SetImage, IInv, DisplayAssumption, Typed
  <2>2. /\ native' = (native \ InSlot(native, <<Sprite(w), k>>)) \cup B
        /\ UNCHANGED <<planned, open, freed, holds, users, list>>
    BY <1>2, <2>1, NativelyIs DEF SetImage
  <2>3. B \subseteq Shows
    BY SpriteIs DEF Shows
  <2>4. \A e \in B : e[1] = Sprite(w) /\ e[2] = k /\ Used(e) \in open /\ ~Dead(Used(e))
    BY <2>1 DEF Used
  <2> HIDE DEF B
  <2> QED
    BY <2>2, <2>3, <2>4, SpriteIs, ImageSlotKeeps
<1> QED
  BY <1>1, <1>2 DEF ImageSlots

-----------------------------------------------------------------------------
(* What a game closes: it is no sprite, no field that counts holds it, and *)
(* no sprite shows what it stores.                                         *)

LEMMA ClosingKeeps ==
  ASSUME DisplayAssumption, IInv, NEW X, X \cap Objects \subseteq Wrappers \cup Owned,
         NEW x \in Owned \cap open, x \in X, X \subseteq {x} \cup Guests,
         \A g \in Guests \cap open : Of[g] = x => g \in X,
         \A e \in holds : e[2] # "context" => Used(e) # x,
         \A e \in Slot(native, ImageSlots) \ UsedBy(native, x) : x \notin Storage(Used(e)),
         Hold(UsedBy(holds, x), {}),
         native' = native \ UsedBy(native, x),
         open' = open \ X, freed' = freed \cup {x}, planned' \subseteq planned
  PROVE  Typed' /\ Lives' /\ Held' /\ Drawn'
<1>1. UsedBy(holds, x) \subseteq holds
  BY DEF UsedBy
<1>2. /\ holds' = holds \ UsedBy(holds, x) /\ IsFiniteSet(holds') /\ holds' \subseteq Fields
      /\ users' = [c \in Counted |-> Counting(holds', c)]
  BY <1>1, HoldKeeps, FS_EmptySet DEF Hold, IInv
<1>3. Typed'
  BY <1>2 DEF IInv, Typed
<1>4. Lives'
  <2>1. ASSUME NEW g \in Guests \cap open' PROVE Of[g] \in open'
    <3>1. Of[g] \in open /\ Of[g] # x /\ Of[g] \in Sprites
      BY DEF IInv, Lives, DisplayAssumption
    <3>2. Of[g] \notin X
      BY <3>1 DEF DisplayAssumption
    <3> QED
      BY <3>1, <3>2
  <2>2. open' \cap freed' = {} /\ planned' \cap (open' \cup freed') = {}
    BY DEF IInv, Lives
  <2> QED
    BY <2>1, <2>2 DEF Lives
<1>5. \A e \in holds : e[2] # "context" => Used(e) \notin Guests
  BY FieldIs DEF IInv, Typed, Used, DisplayAssumption, OwnedBitmaps, Wrappers
<1>6. Held'
  <2>1. \A e \in holds' : e \in holds /\ User(e) # x
    BY <1>2 DEF UsedBy
  <2>2. \A e \in holds' : User(e) \in open' \cup Guests
    BY <2>1 DEF IInv, Held
  <2>3. \A e \in holds' : e[2] # "context" => Used(e) \in open'
    BY <2>1, <1>5 DEF IInv, Held
  <2> QED
    BY <1>2, <2>2, <2>3 DEF Held
<1>7. ImagesLive'
  <2> SUFFICES ASSUME NEW e \in Slot(native', ImageSlots)
               PROVE  /\ e \in native /\ Storage(Used(e))' = Storage(Used(e))
                      /\ Storage(Used(e)) \cap freed' \subseteq freed
    BY ImagesStay DEF IInv
  <2>1. e \in Slot(native, ImageSlots) /\ e \notin UsedBy(native, x)
    BY DEF Slot
  <2>2. x \notin Storage(Used(e))
    BY <2>1
  <2>3. x \in Lent \/ Lender(x) = x
    BY DEF Lender
  <2>4. x \notin Lent
    BY DEF DisplayAssumption, Owned, Objects, Lent, Wrappers
  <2>5. x \notin Once(Used(e))
    BY <2>2, <2>3, <2>4, StorageIs
  <2>6. \A h \in holds \cup holds' : h[2] = "parent" /\ User(h) \in Once(Used(e)) => h \in holds \cap holds'
    BY <1>2, <2>5 DEF UsedBy
  <2>7. Storage(Used(e))' = Storage(Used(e))
    BY <1>3, <2>6, StorageStays DEF IInv
  <2> QED
    BY <2>1, <2>2, <2>7 DEF Slot
<1>8. TileMapsHeld'
  <2> SUFFICES ASSUME NEW e \in Slot(native', {"tileMap"})
               PROVE  \E w \in Wrappers : Sprite(w) = User(e) /\ <<w, "tileMap", Used(e)>> \in holds'
    BY DEF TileMapsHeld, Slot
  <2>1. e \in Slot(native, {"tileMap"}) /\ User(e) # x
    BY DEF Slot, UsedBy
  <2>2. PICK w \in Wrappers : Sprite(w) = User(e) /\ <<w, "tileMap", Used(e)>> \in holds
    BY <2>1 DEF IInv, Drawn, TileMapsHeld
  <2>3. w # x
    BY <2>1, <2>2, SpriteIs DEF Owned, DisplayAssumption, OwnedBitmaps, Wrappers
  <2> QED
    BY <1>2, <2>2, <2>3 DEF UsedBy, User
<1>9. Slot(native', Repeated) = Slot(holds', Repeated)
  BY <1>2 DEF IInv, Drawn, Slot, UsedBy
<1>10. native' \subseteq Slot(native', Repeated) \cup Shows
  BY DEF IInv, Drawn, Slot
<1> QED
  BY <1>3, <1>4, <1>6, <1>7, <1>8, <1>9, <1>10 DEF Drawn, Slot

(* A closed object that is no sprite. *)
LEMMA CloseKeeps ==
  ASSUME DisplayAssumption, IInv, NEW x \in (Owned \ Sprites) \cap open, Close(x), UNCHANGED list,
         \A e \in holds : e[2] # "context" => Used(e) # x, ~Shown(x)
  PROVE  IInv'
<1>1. /\ Hold(UsedBy(holds, x), {}) /\ native' = native \ UsedBy(native, x)
      /\ open' = open \ {x} /\ freed' = freed \cup {x} /\ planned' \subseteq planned
  BY DEF Close
<1>2. \A g \in Guests : Of[g] # x
  BY DEF DisplayAssumption
<1>3. \A e \in Slot(native, ImageSlots) : x \notin Storage(Used(e))
  BY DEF Shown, Slot, ImageSlots
<1> DEFINE X == {x}
<1>4. /\ X \cap Objects \subseteq Wrappers \cup Owned /\ x \in X /\ X \subseteq {x} \cup Guests
      /\ open' = open \ X
  BY <1>1
<1> HIDE DEF X
<1>5. Typed' /\ Lives' /\ Held' /\ Drawn'
  BY <1>1, <1>2, <1>3, <1>4, ClosingKeeps
<1>6. Listing'
  BY <1>1, ListingStays DEF IInv
<1> QED
  BY <1>5, <1>6 DEF IInv

(* Pixels belong to bitmaps, tables and fonts. *)
LEMMA NotShown ==
  ASSUME DisplayAssumption, IInv, NEW x, x \notin OwnedBitmaps \cup Tables \cup Fonts
  PROVE  ~Shown(x)
<1> SUFFICES ASSUME NEW e \in native, e[2] \in ImageSlots PROVE x \notin Storage(Used(e))
  BY DEF Shown, ImageSlots
<1>1. e \in Shows
  BY DEF IInv, Drawn, Slot, Repeated, ImageSlots
<1>2. Used(e) \in AnyBitmap
  BY <1>1, ShowIs DEF ImageSlots, Used
<1> QED
  BY <1>2, StoredIn DEF IInv

LEMMA ClosesKeep ==
  ASSUME DisplayAssumption, IInv,
         \/ \E b \in OwnedBitmaps : CloseBitmap(b)
         \/ \E t \in Tables : CloseTable(t)
         \/ \E f \in Fonts : CloseFont(f)
         \/ \E p \in Videos : CloseVideo(p)
         \/ \E m \in TileMaps : CloseTileMap(m)
  PROVE  IInv'
<1> USE DEF IInv
<1>1. ASSUME NEW b \in OwnedBitmaps, CloseBitmap(b) PROVE IInv'
  <2>1. b \in (Owned \ Sprites) \cap open /\ Close(b) /\ UNCHANGED list /\ ~Shown(b)
    BY <1>1 DEF CloseBitmap, Owned, DisplayAssumption, Wrappers
  <2>2. <<"mask", b>> \in Counted /\ <<"parent", b>> \in Counted
    BY DEF Counted, AnyBitmap
  <2>3. \A e \in holds : <<e[2], Used(e)>> \notin {<<"mask", b>>, <<"parent", b>>}
    BY <1>1, <2>2, Unused DEF CloseBitmap
  <2>4. \A e \in holds : e[2] \in {"table", "tileMap"} => Used(e) # b
    BY FieldIs DEF Typed, Used, DisplayAssumption
  <2>5. \A e \in holds : e[2] # "context" => Used(e) # b
    BY <2>3, <2>4, FieldIs DEF Typed
  <2> QED
    BY <2>1, <2>5, CloseKeeps
<1>2. ASSUME NEW t \in Tables, CloseTable(t) PROVE IInv'
  <2>1. t \in (Owned \ Sprites) \cap open /\ Close(t) /\ UNCHANGED list /\ ~Shown(t)
    BY <1>2 DEF CloseTable, Owned, DisplayAssumption, Wrappers
  <2>2. <<"table", t>> \in Counted /\ users[<<"table", t>>] <= 0
    BY <1>2 DEF Counted, CloseTable
  <2>3. \A e \in holds : <<e[2], Used(e)>> # <<"table", t>>
    BY <2>2, Unused
  <2>4. \A e \in holds : e[2] \in {"mask", "parent", "tileMap"} => Used(e) # t
    BY FieldIs DEF Typed, Used, DisplayAssumption
  <2>5. \A e \in holds : e[2] # "context" => Used(e) # t
    BY <2>3, <2>4, FieldIs DEF Typed
  <2> QED
    BY <2>1, <2>5, CloseKeeps
<1>3. ASSUME NEW f \in Fonts, CloseFont(f) PROVE IInv'
  <2>1. f \in (Owned \ Sprites) \cap open /\ Close(f) /\ UNCHANGED list /\ ~Shown(f)
    BY <1>3 DEF CloseFont, Owned, DisplayAssumption, Wrappers
  <2>2. \A e \in holds : e[2] \in {"mask", "parent", "tileMap"} => Used(e) # f
    BY FieldIs DEF Typed, Used, DisplayAssumption
  <2>3. \A e \in holds : e[2] = "table" => Used(e) # f
    BY FieldIs DEF Typed, Used, DisplayAssumption
  <2>5. \A e \in holds : e[2] # "context" => Used(e) # f
    BY <2>2, <2>3, FieldIs DEF Typed
  <2> QED
    BY <2>1, <2>5, CloseKeeps
<1>4. ASSUME NEW p \in Videos, CloseVideo(p) PROVE IInv'
  <2>1. p \in (Owned \ Sprites) \cap open /\ Close(p) /\ UNCHANGED list
    BY <1>4 DEF CloseVideo, Owned, DisplayAssumption, Wrappers
  <2>2. ~Shown(p)
    BY NotShown DEF DisplayAssumption
  <2>3. \A e \in holds : Used(e) # p
    BY FieldIs DEF Typed, Used, DisplayAssumption
  <2> QED
    BY <2>1, <2>2, <2>3, CloseKeeps
<1>5. ASSUME NEW m \in TileMaps, CloseTileMap(m) PROVE IInv'
  <2>1. m \in (Owned \ Sprites) \cap open /\ Close(m) /\ UNCHANGED list
    BY <1>5 DEF CloseTileMap, Owned, DisplayAssumption, Wrappers
  <2>2. ~Shown(m)
    BY NotShown DEF DisplayAssumption
  <2>3. <<"tileMap", m>> \in Counted /\ users[<<"tileMap", m>>] <= 0
    BY <1>5 DEF Counted, CloseTileMap
  <2>4. \A e \in holds : <<e[2], Used(e)>> # <<"tileMap", m>>
    BY <2>3, Unused
  <2>5. \A e \in holds : e[2] # "tileMap" => Used(e) # m
    BY FieldIs DEF Typed, Used, DisplayAssumption
  <2>6. \A e \in holds : e[2] # "context" => Used(e) # m
    BY <2>4, <2>5
  <2> QED
    BY <2>1, <2>2, <2>6, CloseKeeps
<1> QED
  BY <1>1, <1>2, <1>3, <1>4, <1>5

-----------------------------------------------------------------------------
(* The display list and the callbacks. *)

(* Only the list and the callbacks change. *)
LEMMA ListKeeps ==
  ASSUME IInv, UNCHANGED images, Listing'
  PROVE  IInv'
<1>1. Typed' /\ Lives' /\ Held'
  BY HeldSame DEF images, IInv, Typed, Lives
<1>2. Drawn'
  BY DrawnSame DEF images, IInv
<1> QED
  BY <1>1, <1>2 DEF IInv

LEMMA ListsKeep ==
  ASSUME DisplayAssumption, GuestsListed = FALSE, IInv,
         \/ RemoveAll
         \/ \E S \in SUBSET (Wrappers \cap open) : SetSpritesAdded(S, TRUE) \/ SetSpritesAdded(S, FALSE)
  PROVE  IInv'
<1>1. CASE RemoveAll
  <2>1. Listing'
    BY <1>1 DEF RemoveAll, IInv, Listing, images
  <2> QED
    BY <1>1, <2>1, ListKeeps DEF RemoveAll
<1>2. ASSUME NEW S \in SUBSET (Wrappers \cap open), NEW add \in BOOLEAN, SetSpritesAdded(S, add)
      PROVE  IInv'
  <2> DEFINE effective == {Sprite(w) : w \in {x \in S : (x \in added) # add}}
  <2>1. /\ S \subseteq Sprites \cap open /\ UNCHANGED <<images, installed, callbacks>>
        /\ listed' = (IF add THEN listed \cup effective ELSE listed \ effective)
        /\ added' = (IF add THEN added \cup S ELSE added \ S)
    BY <1>2 DEF SetSpritesAdded
  <2>2. \A w \in S : Sprite(w) = w
    BY <2>1, SpriteIs DEF Wrappers
  <2>3. effective = {w \in S : (w \in added) # add}
    BY <2>2
  <2> HIDE DEF effective
  <2>4. listed' = added' /\ added' \subseteq Sprites \cap open
    <3>1. CASE add
      <4>1. effective = S \ added
        BY <2>3, <3>1
      <4> QED
        BY <2>1, <3>1, <4>1 DEF IInv, Listing
    <3>2. CASE ~add
      <4>1. effective = S \cap added
        BY <2>3, <3>2
      <4> QED
        BY <2>1, <3>2, <4>1 DEF IInv, Listing
    <3> QED
      BY <3>1, <3>2
  <2>5. Listing'
    BY <2>1, <2>4 DEF IInv, Listing, images
  <2> QED
    BY <2>1, <2>5, ListKeeps
<1> QED
  BY <1>1, <1>2

LEMMA CallbacksKeep ==
  ASSUME DisplayAssumption, IInv, NEW s \in Callers, NEW kind \in Kinds, NEW set \in BOOLEAN,
         SetCallback(s, kind, set)
  PROVE  IInv'
<1> DEFINE c == <<s, kind>>
<1>1. s \in Sprites \cap open /\ UNCHANGED <<images, added, listed>>
  BY DEF SetCallback, DisplayAssumption
<1>2. c \in Sprites \X Kinds /\ c[1] \in open
  BY <1>1
<1>3. Cardinality(installed) \in Nat /\ Limit \in Nat
  BY FS_CardinalityType DEF IInv, Listing, DisplayAssumption
<1>4. CASE set
  <2>1. /\ c \notin installed /\ callbacks < Limit
        /\ callbacks' = callbacks + 1 /\ installed' = installed \cup {c}
    BY <1>4 DEF SetCallback
  <2>2. IsFiniteSet(installed \cup {c}) /\ Cardinality(installed \cup {c}) = Cardinality(installed) + 1
    BY <2>1, FS_AddElement DEF IInv, Listing
  <2>3. callbacks' = Cardinality(installed') /\ callbacks' <= Limit /\ IsFiniteSet(installed')
    BY <1>3, <2>1, <2>2 DEF IInv, Listing
  <2> HIDE DEF c
  <2>4. Listing'
    BY <1>1, <1>2, <2>1, <2>3 DEF IInv, Listing, images
  <2> QED
    BY <1>1, <2>4, ListKeeps
<1>5. CASE ~set
  <2>1. c \in installed /\ callbacks' = callbacks - 1 /\ installed' = installed \ {c}
    BY <1>5 DEF SetCallback
  <2>2. IsFiniteSet(installed \ {c}) /\ Cardinality(installed \ {c}) = Cardinality(installed) - 1
    BY <2>1, FS_RemoveElement DEF IInv, Listing
  <2>3. callbacks' = Cardinality(installed') /\ callbacks' <= Limit /\ IsFiniteSet(installed')
    BY <1>3, <2>1, <2>2 DEF IInv, Listing
  <2> HIDE DEF c
  <2>4. Listing'
    BY <1>1, <2>1, <2>3 DEF IInv, Listing, images
  <2> QED
    BY <1>1, <2>4, ListKeeps
<1> QED
  BY <1>4, <1>5

(* A closed sprite goes from the list with its callbacks, and the game     *)
(* forgets what it was told of it.                                         *)
LEMMA CloseSpriteKeeps ==
  ASSUME DisplayAssumption, IInv, NEW s \in Sprites, CloseSprite(s)
  PROVE  IInv'
<1> DEFINE X == {s} \cup Forgotten(s)
<1>1. /\ Hold(UsedBy(holds, s), {}) /\ native' = native \ UsedBy(native, s)
      /\ open' = open \ X /\ freed' = freed \cup {s} /\ planned' \subseteq planned
      /\ s \in Owned \cap open
  BY DEF CloseSprite, ReleaseSprite, Owned
<1>2. /\ X \cap Objects \subseteq Wrappers \cup Owned /\ s \in X /\ X \subseteq {s} \cup Guests
      /\ \A g \in Guests \cap open : Of[g] = s => g \in X
  BY DEF Forgotten, Wrappers
<1>3. \A e \in holds : Used(e) # s
  BY FieldIs DEF IInv, Typed, Used, DisplayAssumption, Wrappers
<1>4. \A e \in Slot(native, ImageSlots) : s \notin Storage(Used(e))
  <2>1. ~Shown(s)
    BY NotShown DEF DisplayAssumption, Wrappers
  <2> QED
    BY <2>1 DEF Shown, Slot, ImageSlots
<1>5. X \cap Sprites = {s}
  BY DEF DisplayAssumption, Forgotten
<1> HIDE DEF X
<1>6. Typed' /\ Lives' /\ Held' /\ Drawn'
  BY <1>1, <1>2, <1>3, <1>4, ClosingKeeps
<1>7. Listing'
  <2>1. /\ listed' = (IF s \in added THEN listed \ {s} ELSE listed) /\ added' = added \ {s}
        /\ installed' = installed \ CallbacksOf(s)
        /\ callbacks' = callbacks - Cardinality(CallbacksOf(s))
    BY DEF CloseSprite, ReleaseSprite
  <2>2. added' \subseteq Sprites \cap open' /\ listed' = added'
    BY <1>1, <1>5, <2>1 DEF IInv, Listing
  <2>3. /\ installed' \subseteq Sprites \X Kinds
        /\ \A c \in installed' : c[1] \in Sprites /\ c[1] # s /\ c[1] \in open
    BY <2>1 DEF IInv, Listing, CallbacksOf
  <2>4. \A c \in installed' : c[1] \in open'
    BY <1>1, <1>5, <2>3
  <2>5. /\ IsFiniteSet(installed')
        /\ Cardinality(installed') = Cardinality(installed) - Cardinality(CallbacksOf(s))
    <3> DEFINE C == CallbacksOf(s)
    <3>1. installed \cap C = C
      BY DEF CallbacksOf
    <3>2. IsFiniteSet(installed) /\ installed' = installed \ C
      BY <2>1 DEF IInv, Listing
    <3> HIDE DEF C
    <3>3. /\ IsFiniteSet(installed \ C)
          /\ Cardinality(installed \ C) = Cardinality(installed) - Cardinality(installed \cap C)
      BY <3>2, FS_Difference
    <3>4. /\ IsFiniteSet(installed')
          /\ Cardinality(installed') = Cardinality(installed) - Cardinality(C)
      BY <3>1, <3>2, <3>3
    <3> QED
      BY <3>4 DEF C
  <2>6. Cardinality(installed) \in Nat /\ Cardinality(CallbacksOf(s)) \in Nat
    BY FS_Subset, FS_CardinalityType DEF IInv, Listing, CallbacksOf
  <2>7. callbacks' = Cardinality(installed') /\ callbacks' <= Limit
    BY <2>1, <2>5, <2>6 DEF IInv, Listing, DisplayAssumption
  <2> QED
    BY <2>2, <2>3, <2>4, <2>5, <2>7 DEF Listing
<1> QED
  BY <1>6, <1>7 DEF IInv

-----------------------------------------------------------------------------
LEMMA StartHolds ==
  ASSUME DisplayAssumption, NEW scene \in SUBSET Objects,
         planned = scene \cap (Lent \cup Views \cup TileMaps \cup Guests),
         open = scene \ planned,
         freed = {}, holds = {}, native = {},
         users = [k \in Counted |-> 0],
         added = {}, listed = {}, installed = {}, callbacks = 0
  PROVE  IInv
<1>1. \A x \in planned \cup open : x \in Objects
  OBVIOUS
<1>2. Typed
  BY <1>1, FS_EmptySet DEF Typed
<1>3. Lives
  BY DEF Lives
<1>4. Held
  BY CountIs, FS_EmptySet DEF Held
<1>5. Drawn
  BY DEF Drawn, Slot, TileMapsHeld, ImagesLive
<1>6. Listing
  BY FS_EmptySet DEF Listing, DisplayAssumption
<1> QED
  BY <1>2, <1>3, <1>4, <1>5, <1>6 DEF IInv

LEMMA InitHolds ==
  ASSUME DisplayAssumption, Init
  PROVE  IInv
BY StartHolds DEF Init, DisplayAssumption

LEMMA StepKeeps ==
  ASSUME DisplayAssumption, BorrowedMasks = FALSE, GuestsListed = FALSE, IInv, [Next]_vars
  PROVE  IInv'
<1>1. CASE Draw
  BY <1>1, LendingKeeps, ClosesKeep, BitmapMaskKeeps, MasksKeep, ContextsKeep DEF Draw
<1>2. CASE Arrange
  <2>1. ASSUME NEW s \in Callers, NEW kind \in Kinds,
               SetCallback(s, kind, TRUE) \/ SetCallback(s, kind, FALSE)
        PROVE  IInv'
    BY <2>1, CallbacksKeep
  <2> QED
    BY <1>2, <2>1, LendingKeeps, ClosesKeep, NewTileMapKeeps, TileMapsKeep, ImagesKeep, ListsKeep,
       CloseSpriteKeeps DEF Arrange
<1>3. CASE UNCHANGED vars
  <2>1. UNCHANGED images /\ UNCHANGED list
    BY <1>3 DEF vars
  <2>2. open' = open
    BY <2>1 DEF images
  <2>3. Listing'
    BY <2>1, <2>2, ListingStays DEF IInv
  <2> QED
    BY <2>1, <2>3, ListKeeps
<1> QED
  BY <1>1, <1>2, <1>3 DEF Next

LEMMA InvariantHolds ==
  ASSUME DisplayAssumption, BorrowedMasks = FALSE, GuestsListed = FALSE
  PROVE  Spec => []IInv
<1>1. Init => IInv
  BY InitHolds
<1>2. IInv /\ [Next]_vars => IInv'
  BY StepKeeps
<1> QED
  BY <1>1, <1>2, PTL DEF Spec

(* The invariant says what the properties do. *)
LEMMA Means ==
  ASSUME DisplayAssumption, IInv
  PROVE  /\ TypeOK /\ UsersCounted /\ SlotsCounted /\ ListAgrees
         /\ NothingDangling /\ CallsReachLiveObjects
<1> USE DEF IInv
<1>1. \A e \in holds : User(e) \in Objects /\ Used(e) \in Objects
  BY FieldIs DEF Typed, User, Used, Objects, Owned, OwnedBitmaps, Wrappers
<1>2. \A e \in native : User(e) \in Objects /\ Used(e) \in Objects
  <2>1. \A e \in Shows : User(e) \in Objects /\ Used(e) \in Objects
    BY ShowIs DEF User, Used, Objects, Owned, AnyBitmap
  <2> QED
    BY <1>1, <2>1 DEF Drawn, Slot
<1>3. users \in [Counted -> Nat]
  BY CountIs DEF Held, Typed
<1>4. TypeOK
  BY <1>1, <1>2, <1>3 DEF TypeOK, Typed, Lives, Listing, Wrappers
<1>5. UsersCounted
  <2>1. {e \in holds : User(e) \in open \/ User(e) \in Guests} = holds
    BY DEF Held
  <2> QED
    BY <2>1 DEF UsersCounted, Held
<1>6. SlotsCounted
  <2>1. {c \in Sprites \X Kinds : c \in installed /\ c[1] \in open} = installed
    BY DEF Listing
  <2> QED
    BY <2>1 DEF SlotsCounted, Listing
<1>7. ListAgrees
  BY DEF ListAgrees, Listing
<1>8. \A x \in open : x \notin Lent => ~Dead(x)
  BY OpenIsLive
<1>9. NothingDangling
  <2> SUFFICES ASSUME NEW e \in native, e[2] # "context" PROVE ~Dead(Used(e))
    BY DEF NothingDangling
  <2>1. CASE e[2] \in ImageSlots
    BY <2>1 DEF Drawn, ImagesLive, Slot
  <2>2. CASE e \in Slot(native, Repeated)
    <3>1. e \in holds /\ Used(e) \in open
      BY <2>2 DEF Drawn, Slot, Held
    <3>2. Used(e) \notin Lent
      BY <3>1, FieldIs DEF Typed, Used, DisplayAssumption, OwnedBitmaps
    <3> QED
      BY <1>8, <3>1, <3>2
  <2>3. CASE e[2] = "tileMap"
    <3>1. PICK w \in Wrappers : <<w, "tileMap", Used(e)>> \in holds
      BY <2>3 DEF Drawn, TileMapsHeld, Slot
    <3>2. Used(e) \in open /\ Used(e) \in TileMaps
      <4> DEFINE f == <<w, "tileMap", Used(e)>>
      <4>1. f \in holds /\ f[2] = "tileMap" /\ f[3] = Used(e)
        BY <3>1
      <4> QED
        BY <4>1, FieldIs DEF Held, Typed, Used
    <3> QED
      BY <1>8, <3>2 DEF DisplayAssumption
  <2> QED
    BY <2>1, <2>2, <2>3, ShowIs DEF Drawn
<1>10. CallsReachLiveObjects
  <2>1. \A x \in BitmapCalls : ~Dead(x)
    BY <1>8, LiveIsAlive DEF BitmapCalls, DisplayAssumption
  <2>2. \A x \in TableCalls \cup FontCalls \cup TileMapCalls : ~Dead(x)
    BY <1>8 DEF TableCalls, FontCalls, TileMapCalls, DisplayAssumption
  <2>3. ASSUME NEW w \in Wrappers \cap open PROVE ~Dead(Sprite(w))
    <3>1. Sprite(w) \in open
      BY SpriteIs DEF Lives, Wrappers
    <3>2. Sprite(w) \notin Lent
      BY SpriteIs DEF DisplayAssumption, Wrappers
    <3> QED
      BY <1>8, <3>1, <3>2
  <2>4. ASSUME NEW x \in RenderFrame PROVE ~Dead(x)
    <3>1. PICK n \in native : /\ x = Used(n) /\ n[2] = "context"
                              /\ \A h \in InSlot(holds, SlotOf(n)) : Live(Used(h))
      BY DEF RenderFrame
    <3>2. n \in holds
      BY <3>1, ShowIs DEF Drawn, Slot, ImageSlots
    <3>3. Live(x) /\ x \in AnyBitmap
      BY <3>1, <3>2, FieldIs DEF InSlot, Typed, Used, AnyBitmap
    <3> QED
      BY <3>3, LiveIsAlive
  <2> QED
    BY <2>1, <2>2, <2>3, <2>4 DEF CallsReachLiveObjects, SpriteCalls
<1> QED
  BY <1>4, <1>5, <1>6, <1>7, <1>9, <1>10

(* Users of masks, views, tables and tile maps and callbacks of sprites    *)
(* are counted exactly, so that Close refuses what is used and nothing     *)
(* else (runtime.go:1544, API.md:718), and the display list is what the    *)
(* wrappers say (sprite.go:3), in any order of calls.                      *)
THEOREM UsesAreCounted ==
  ASSUME DisplayAssumption, BorrowedMasks = FALSE, GuestsListed = FALSE
  PROVE  Spec => [](TypeOK /\ UsersCounted /\ SlotsCounted /\ ListAgrees)
<1>1. IInv => TypeOK /\ UsersCounted /\ SlotsCounted /\ ListAgrees
  BY Means
<1> QED
  BY <1>1, InvariantHolds, PTL

(* Nothing is freed while the native side draws with it, and no call past  *)
(* the checks of its wrapper reaches freed memory, in whatever order the   *)
(* game closes what it owns (runtime.go:1508, runtime.go:1537).            *)
THEOREM DrawnIsLive ==
  ASSUME DisplayAssumption, BorrowedMasks = FALSE, GuestsListed = FALSE
  PROVE  Spec => [](NothingDangling /\ CallsReachLiveObjects)
<1>1. IInv => NothingDangling /\ CallsReachLiveObjects
  BY Means
<1> QED
  BY <1>1, InvariantHolds, PTL
=============================================================================
