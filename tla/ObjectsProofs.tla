---------------------------- MODULE ObjectsProofs ----------------------------
(***************************************************************************)
(* Proofs about games and the native objects they own: first about the     *)
(* completions of the native audio alone and about the audio graph alone,  *)
(* then about whole games, where the invariants of the parts are put       *)
(* together.                                                               *)
(***************************************************************************)
EXTENDS Objects, FiniteSetTheorems, WellFoundedInduction, TLAPS

-----------------------------------------------------------------------------
(***************************************************************************)
(* Proofs about the completions of the native audio, for every set of      *)
(* players, any length of the queues and a counter of any width.           *)
(*                                                                         *)
(* A completion names its callback only by a number, so what matters is    *)
(* that no number changes hands while anything still refers to it.  The    *)
(* invariant says who refers to a number that is in the table: exactly one *)
(* slot of an open player; a native player that will still report does so  *)
(* under the number its own slot holds.                                    *)
(***************************************************************************)

Open(q) == q[1] \notin shut

RegistrationsCounted ==
  /\ count \in 0 .. Registrations
  /\ \A i \in Ids : items[i] <= count
  /\ forgotten \subseteq 1 .. count

(* No registration is in the table twice. *)
TableInjective == \A i, j \in Ids : items[i] # Unset /\ items[i] = items[j] => i = j

HeldOnce ==
  /\ items[Unset] = Unset
  /\ \A i \in Ids : items[i] # Unset =>
       \E q \in Own : /\ Open(q) /\ held[q] = i
                      /\ \A r \in Own : Open(r) /\ held[r] = i => r = q

ArmedIsHeld ==
  \A q \in Own : armed[q] # Nothing => Open(q) /\ held[q] # Unset /\ armed[q].id = held[q]

CompletionInv ==
  /\ CompletionTypeOK
  /\ RegistrationsCounted
  /\ TableInjective
  /\ HeldOnce
  /\ ArmedIsHeld
  /\ CompletionsFindTheirOwner

-----------------------------------------------------------------------------
(* The counter finds a number. *)

LEMMA Least ==
  ASSUME NEW S, S # {}, NEW rank \in [S -> Nat]
  PROVE  \E i \in S : \A j \in S : rank[i] <= rank[j]
<1> DEFINE ranks == {rank[i] : i \in S}
<1>1. ranks \subseteq Nat /\ ranks # {}
  OBVIOUS
<1>2. PICK n \in ranks : \A m \in ranks : ~(<<m, n>> \in OpToRel(<, Nat))
  BY <1>1, NatLessThanWellFounded, WFMin
<1>3. \A m \in ranks : ~(m < n)
  BY <1>1, <1>2 DEF OpToRel
<1> QED
  BY <1>1, <1>3

(* A table that leaves a number unused has a fresh one. *)
LEMMA FreshIsUnused ==
  ASSUME NumbersSuffice, CompletionTypeOK, NEW table, \E i \in Ids \ {0} : table[i] = Unset
  PROVE  FreshId(table) \in Ids \ {0} /\ table[FreshId(table)] = Unset
<1> DEFINE usable == {i \in Ids \ {0} : table[i] = Unset}
           rank == [i \in usable |-> Steps(i)]
<1>1. usable # {}
  OBVIOUS
<1>2. rank \in [usable -> Nat]
  BY SMTT(40) DEF NumbersSuffice, CompletionTypeOK, Steps, Ids
<1>3. \E i \in usable : \A j \in usable : Steps(i) <= Steps(j)
  <2> HIDE DEF usable
  <2>1. PICK i \in usable : \A j \in usable : rank[i] <= rank[j]
    BY <1>1, <1>2, Least
  <2> QED
    BY <2>1
<1>4. FreshId(table) \in usable
  <2>1. FreshId(table) = CHOOSE i \in usable : \A j \in usable : Steps(i) <= Steps(j)
    BY DEF FreshId
  <2> HIDE DEF usable
  <2> QED
    BY <1>3, <2>1
<1> QED
  BY <1>4

(* The slots of the players cannot take all numbers up. *)
LEMMA SomeNumberIsFree ==
  ASSUME NumbersSuffice, CompletionInv
  PROVE  \E i \in Ids \ {0} : items[i] = Unset
<1> SUFFICES ASSUME \A i \in Ids \ {0} : items[i] # Unset PROVE FALSE
  OBVIOUS
<1> DEFINE numbers == 1 .. MaxId
           holders == {q \in Own : held[q] \in numbers}
           numberOf == [q \in holders |-> held[q]]
<1>1. MaxId \in Nat /\ numbers = Ids \ {0} /\ IsFiniteSet(Own) /\ Cardinality(Own) < MaxId
  BY DEF NumbersSuffice, Ids
<1>2. IsFiniteSet(holders) /\ Cardinality(holders) <= Cardinality(Own)
  BY <1>1, FS_Subset
<1>3. numberOf \in Surjection(holders, numbers)
  <2>1. \A i \in numbers : \E q \in holders : numberOf[q] = i
    BY <1>1 DEF CompletionInv, HeldOnce
  <2>2. numberOf \in [holders -> numbers]
    OBVIOUS
  <2> HIDE DEF numberOf, holders, numbers
  <2> QED
    BY <2>1, <2>2 DEF Surjection
<1>4. Cardinality(numbers) <= Cardinality(holders)
  <2> HIDE DEF numberOf, holders, numbers
  <2> QED
    BY <1>2, <1>3, FS_Surjection
<1>5. Cardinality(numbers) = MaxId
  BY <1>1, FS_Interval
<1>6. Cardinality(holders) \in Nat /\ Cardinality(Own) \in Nat
  BY <1>1, <1>2, FS_CardinalityType
<1> QED
  BY <1>1, <1>2, <1>4, <1>5, <1>6

-----------------------------------------------------------------------------
(* Completions on their way, and what is taken out of the table. *)

On(s) == {s[i] : i \in DOMAIN s}

LEMMA Queued ==
  ASSUME NEW s \in Seq(Entries), NEW e \in Entries
  PROVE  /\ Append(s, e) \in Seq(Entries) /\ Len(Append(s, e)) = Len(s) + 1
         /\ On(Append(s, e)) = On(s) \cup {e}
<1> DEFINE t == Append(s, e)
<1>1. /\ t \in Seq(Entries) /\ Len(t) = Len(s) + 1 /\ Len(s) \in Nat
      /\ DOMAIN s = 1 .. Len(s) /\ DOMAIN t = 1 .. Len(t)
  OBVIOUS
<1>2. \A i \in DOMAIN t : t[i] = IF i \in DOMAIN s THEN s[i] ELSE e
  OBVIOUS
<1> HIDE DEF t
<1>3. Len(t) \in DOMAIN t \ DOMAIN s /\ DOMAIN s \subseteq DOMAIN t
  BY <1>1
<1>4. On(t) = On(s) \cup {e}
  BY <1>2, <1>3 DEF On
<1> QED
  BY <1>1, <1>4 DEF t

LEMMA Dequeued ==
  ASSUME NEW s \in Seq(Entries), s # <<>>
  PROVE  /\ Head(s) \in Entries /\ Head(s) \in On(s)
         /\ Tail(s) \in Seq(Entries) /\ Len(Tail(s)) = Len(s) - 1 /\ On(Tail(s)) \subseteq On(s)
BY DEF On

LEMMA OnTheWay == UnderWay = On(waiting) \cup On(inFlight)
BY DEF UnderWay, On

(* What remains of the table has its owner still. *)
LEMMA Shrunk ==
  ASSUME NumbersSuffice, CompletionInv, NEW ids \in SUBSET Ids, items' = Without(ids)
  PROVE  /\ items' \in [Ids -> 0 .. Registrations]
         /\ items'[Unset] = Unset
         /\ \A i \in Ids : items'[i] \in {Unset, items[i]}
         /\ \A i \in Ids : items'[i] # Unset => i \notin ids /\ items'[i] = items[i]
         /\ \A i \in Ids : items'[i] \notin forgotten \cup Retracted(ids)
         /\ Retracted(ids) \subseteq 1 .. count
         /\ TableInjective'
<1>1. /\ items \in [Ids -> 0 .. Registrations] /\ Unset \in Ids /\ items[Unset] = Unset
      /\ \A i \in Ids : items[i] <= count
  BY DEF NumbersSuffice, CompletionInv, CompletionTypeOK, HeldOnce, RegistrationsCounted, Ids, Unset
<1>2. /\ items' \in [Ids -> 0 .. Registrations]
      /\ \A i \in Ids : items'[i] = IF i \in ids THEN Unset ELSE items[i]
  BY <1>1 DEF Without, Unset
<1>3. TableInjective'
  BY <1>2 DEF CompletionInv, TableInjective
<1>4. \A i \in Ids : items'[i] \notin forgotten \cup Retracted(ids)
  <2> SUFFICES ASSUME NEW i \in Ids, items'[i] \in forgotten \cup Retracted(ids) PROVE FALSE
    OBVIOUS
  <2>1. items'[i] # Unset
    BY DEF Retracted, CompletionInv, RegistrationsCounted, Unset
  <2>2. i \notin ids /\ items'[i] = items[i] /\ items[i] \notin forgotten
    BY <1>2, <2>1 DEF CompletionInv, CompletionsFindTheirOwner
  <2>3. PICK j \in ids : items[i] = items[j]
    BY <2>2 DEF Retracted
  <2> QED
    BY <2>1, <2>2, <2>3 DEF CompletionInv, TableInjective
<1>5. Retracted(ids) \subseteq 1 .. count
  <2> SUFFICES ASSUME NEW i \in ids, items[i] # Unset PROVE items[i] \in 1 .. count
    BY DEF Retracted
  <2> QED
    BY <1>1 DEF CompletionInv, RegistrationsCounted, Unset
<1>6. \A i \in Ids : items'[i] # Unset => i \notin ids /\ items'[i] = items[i]
  BY <1>2
<1> QED
  BY <1>1, <1>2, <1>3, <1>4, <1>5, <1>6

(* A table from which nothing or something was taken is a table still. *)
LEMMA TableKept ==
  ASSUME NumbersSuffice, CompletionInv, NEW ids \in SUBSET Ids, items' = Without(ids),
         forgotten' \subseteq forgotten \cup Retracted(ids), count' = count
  PROVE  /\ items' \in [Ids -> 0 .. Registrations] /\ forgotten' \subseteq 1 .. Registrations
         /\ RegistrationsCounted' /\ TableInjective'
         /\ \A i \in Ids : items'[i] \notin forgotten'
<1>1. /\ forgotten' \subseteq 1 .. count /\ count \in 0 .. Registrations /\ Registrations \in Nat
      /\ \A i \in Ids : items[i] \in 0 .. Registrations /\ items[i] <= count
  BY Shrunk DEF NumbersSuffice, CompletionInv, CompletionTypeOK, RegistrationsCounted
<1>2. \A i \in Ids : items'[i] <= count'
  BY <1>1, Shrunk DEF Unset
<1> QED
  BY <1>1, <1>2, Shrunk DEF RegistrationsCounted

(* What a slot is given, or what takes it away. *)
LEMMA Unarmed ==
  ASSUME NumbersSuffice
  PROVE  /\ Unset \in Ids /\ Nothing \in [id : Ids, item : 0 .. Registrations]
         /\ count \in 0 .. Registrations => count \in Nat
BY DEF NumbersSuffice, Nothing, Unset, Ids

(* Nothing taken out. *)
LEMMA Untouched ==
  ASSUME CompletionInv
  PROVE  items = Without({}) /\ Retracted({}) = {}
BY DEF CompletionInv, CompletionTypeOK, Without, Retracted

(* As long as the slots hold what they held, or let go of what was taken   *)
(* out, the rest has one owner each.                                       *)
LEMMA OwnersKept ==
  ASSUME NumbersSuffice, CompletionInv, NEW ids \in SUBSET Ids, items' = Without(ids),
         shut \subseteq shut',
         \A q \in Own : Open(q) /\ ~Open(q)' => held[q] \in ids,
         \A q \in Own : held'[q] = held[q] \/ (held[q] \in ids /\ held'[q] = Unset)
  PROVE  HeldOnce'
<1>1. items'[Unset] = Unset
  BY Shrunk
<1>2. ASSUME NEW i \in Ids, items'[i] # Unset
      PROVE  \E q \in Own : /\ Open(q)' /\ held'[q] = i
                            /\ \A r \in Own : Open(r)' /\ held'[r] = i => r = q
  <2>1. i \notin ids /\ items[i] # Unset /\ i # Unset
    BY <1>1, <1>2, Shrunk
  <2>2. PICK q \in Own : /\ Open(q) /\ held[q] = i
                         /\ \A r \in Own : Open(r) /\ held[r] = i => r = q
    BY <2>1 DEF CompletionInv, HeldOnce
  <2>3. Open(q)' /\ held'[q] = i
    BY <2>1, <2>2
  <2>4. \A r \in Own : Open(r)' /\ held'[r] = i => Open(r) /\ held[r] = i
    BY <2>1 DEF Open
  <2> QED
    BY <2>2, <2>3, <2>4
<1> QED
  BY <1>1, <1>2 DEF HeldOnce

(* What a shrunk table does not have cannot be another's. *)
LEMMA StillFound ==
  ASSUME NumbersSuffice, CompletionInv, NEW ids \in SUBSET Ids, items' = Without(ids),
         UnderWay' \subseteq UnderWay,
         \A q \in Own : armed'[q] \in {armed[q], Nothing},
         \A i \in Ids : items'[i] \notin forgotten'
  PROVE  CompletionsFindTheirOwner'
<1>1. \A e \in UnderWay : e.id \in Ids
  <2>1. On(waiting) \subseteq Entries /\ On(inFlight) \subseteq Entries
    BY DEF CompletionInv, CompletionTypeOK, On
  <2> QED
    BY <2>1, OnTheWay DEF Entries
<1>2. \A q \in Own : armed[q].id \in Ids
  BY DEF CompletionInv, CompletionTypeOK
<1>3. \A e \in UnderWay' : e.id # Unset /\ items'[e.id] \in {Unset, e.item}
  BY <1>1, Shrunk DEF CompletionInv, CompletionsFindTheirOwner
<1>4. \A q \in Own : armed'[q] # Nothing =>
        armed'[q].id # Unset /\ items'[armed'[q].id] \in {Unset, armed'[q].item}
  BY <1>2, Shrunk DEF CompletionInv, CompletionsFindTheirOwner
<1> QED
  BY <1>3, <1>4 DEF CompletionsFindTheirOwner

-----------------------------------------------------------------------------
(* One lemma for every action. *)

LEMMA ClearCallbackKept ==
  ASSUME NumbersSuffice, CompletionInv, NEW q \in Own, ClearCallback(q)
  PROVE  CompletionInv'
<1>1. /\ Open(q) /\ held[q] # Unset
      /\ items' = Without({held[q]})
      /\ held' = [held EXCEPT ![q] = Unset]
      /\ armed' = [armed EXCEPT ![q] = Nothing]
      /\ forgotten' = forgotten \cup Retracted({held[q]})
      /\ UNCHANGED <<next, waiting, inFlight, shut, inDrain, active, count>>
  BY DEF ClearCallback, Open
<1>2. {held[q]} \in SUBSET Ids
  BY DEF CompletionInv, CompletionTypeOK
<1>3. /\ items' \in [Ids -> 0 .. Registrations] /\ forgotten' \subseteq 1 .. Registrations
      /\ RegistrationsCounted' /\ TableInjective' /\ \A i \in Ids : items'[i] \notin forgotten'
  BY <1>1, <1>2, TableKept
<1>4. HeldOnce'
  BY <1>1, <1>2, OwnersKept DEF CompletionInv, CompletionTypeOK, Open
<1>5. CompletionsFindTheirOwner'
  BY <1>1, <1>2, <1>3, StillFound DEF CompletionInv, CompletionTypeOK, UnderWay
<1>6. ArmedIsHeld'
  BY <1>1 DEF CompletionInv, CompletionTypeOK, ArmedIsHeld, Open
<1>7. CompletionTypeOK'
  BY <1>1, <1>3, Unarmed DEF CompletionInv, CompletionTypeOK
<1> QED
  BY <1>3, <1>4, <1>5, <1>6, <1>7 DEF CompletionInv

LEMMA CloseKept ==
  ASSUME NumbersSuffice, CompletionInv, NEW p \in CallbackPlayers, ClosePlayback(p)
  PROVE  CompletionInv'
<1> DEFINE ids == {held[q] : q \in OwnOf(p)}
<1>1. /\ shut' = shut \cup {p}
      /\ items' = Without(ids)
      /\ armed' = [q \in Own |-> IF q \in OwnOf(p) THEN Nothing ELSE armed[q]]
      /\ forgotten' = forgotten \cup Retracted(ids)
      /\ UNCHANGED <<next, waiting, held, inFlight, inDrain, active, count>>
  BY DEF ClosePlayback
<1>2. ids \in SUBSET Ids
  BY DEF CompletionInv, CompletionTypeOK, OwnOf
<1>3. /\ items' \in [Ids -> 0 .. Registrations] /\ forgotten' \subseteq 1 .. Registrations
      /\ RegistrationsCounted' /\ TableInjective' /\ \A i \in Ids : items'[i] \notin forgotten'
  BY <1>1, <1>2, TableKept
<1>4. HeldOnce'
  <2>1. \A q \in Own : Open(q) /\ ~Open(q)' => held[q] \in ids
    BY <1>1 DEF Open, OwnOf
  <2> QED
    BY <1>1, <1>2, <2>1, OwnersKept
<1>5. CompletionsFindTheirOwner'
  BY <1>1, <1>2, <1>3, StillFound DEF UnderWay
<1>6. ArmedIsHeld'
  BY <1>1 DEF CompletionInv, CompletionTypeOK, ArmedIsHeld, Open, OwnOf
<1>7. CompletionTypeOK'
  BY <1>1, <1>3, Unarmed DEF CompletionInv, CompletionTypeOK
<1> QED
  BY <1>3, <1>4, <1>5, <1>6, <1>7 DEF CompletionInv

LEMMA CloseFailsKept ==
  ASSUME NumbersSuffice, CompletionInv, NEW p \in CallbackPlayers, CloseFails(p)
  PROVE  CompletionInv'
<1> DEFINE ids == {held[<<p, Loop>>]}
<1>1. /\ <<p, Loop>> \in Own
      /\ items' = Without(ids)
      /\ forgotten' = forgotten \cup Retracted(ids)
      /\ UNCHANGED <<next, waiting, held, armed, inFlight, shut, inDrain, active, count>>
  BY DEF CloseFails
<1>2. ids \in SUBSET Ids
  BY <1>1 DEF CompletionInv, CompletionTypeOK
<1>3. /\ items' \in [Ids -> 0 .. Registrations] /\ forgotten' \subseteq 1 .. Registrations
      /\ RegistrationsCounted' /\ TableInjective' /\ \A i \in Ids : items'[i] \notin forgotten'
  BY <1>1, <1>2, TableKept
<1>4. HeldOnce'
  BY <1>1, <1>2, OwnersKept DEF Open
<1>5. CompletionsFindTheirOwner'
  BY <1>1, <1>2, <1>3, StillFound DEF UnderWay
<1>6. ArmedIsHeld'
  BY <1>1 DEF CompletionInv, ArmedIsHeld, Open
<1>7. CompletionTypeOK'
  BY <1>1, <1>3, Unarmed DEF CompletionInv, CompletionTypeOK
<1> QED
  BY <1>3, <1>4, <1>5, <1>6, <1>7 DEF CompletionInv

(* A native player reports under the number that its own slot holds. *)
LEMMA CompleteKept ==
  ASSUME NumbersSuffice, CompletionInv, NEW q \in Own, Complete(q)
  PROVE  CompletionInv'
<1> DEFINE e == [id |-> armed[q].id, item |-> armed[q].item, oneShot |-> q[2] \in OneShots]
<1>1. /\ armed[q] # Nothing /\ Len(inFlight) < Backlog
      /\ inFlight' = Append(inFlight, e)
      /\ armed' \in {armed, [armed EXCEPT ![q] = Nothing]}
      /\ UNCHANGED <<items, next, waiting, held, shut, inDrain, active, count, forgotten>>
  BY DEF Complete
<1>2. armed[q] \in [id : Ids, item : 0 .. Registrations]
  BY DEF CompletionInv, CompletionTypeOK
<1>3. e \in Entries
  BY <1>2 DEF Entries
<1>4. UnderWay' = UnderWay \cup {e} /\ inFlight' \in Seq(Entries) /\ Len(inFlight') <= Backlog
  <2>1. inFlight \in Seq(Entries) /\ Backlog \in Nat /\ Len(inFlight) \in Nat
    BY DEF CompletionInv, CompletionTypeOK, NumbersSuffice
  <2>2. /\ inFlight' \in Seq(Entries) /\ Len(inFlight') = Len(inFlight) + 1
        /\ On(inFlight') = On(inFlight) \cup {e}
    BY <1>1, <1>3, <2>1, Queued
  <2>3. UnderWay' = On(inFlight') \cup On(waiting)
    BY <1>1 DEF UnderWay, On
  <2> QED
    BY <1>1, <2>1, <2>2, <2>3, OnTheWay
<1>5. CompletionsFindTheirOwner'
  <2>1. e.id = armed[q].id /\ e.item = armed[q].item
    OBVIOUS
  <2> HIDE DEF e
  <2> QED
    BY <1>1, <1>4, <2>1 DEF CompletionInv, CompletionTypeOK, CompletionsFindTheirOwner
<1>6. ArmedIsHeld'
  BY <1>1 DEF CompletionInv, CompletionTypeOK, ArmedIsHeld, Open
<1>7. RegistrationsCounted' /\ TableInjective' /\ HeldOnce'
  BY <1>1 DEF CompletionInv, RegistrationsCounted, TableInjective, HeldOnce, Open
<1>8. CompletionTypeOK'
  BY <1>1, <1>4, Unarmed DEF CompletionInv, CompletionTypeOK
<1> QED
  BY <1>5, <1>6, <1>7, <1>8 DEF CompletionInv

LEMMA InvokeKept ==
  ASSUME NumbersSuffice, CompletionInv, Invoke
  PROVE  CompletionInv'
<1> DEFINE e == Head(inFlight)
<1>1. /\ inFlight # <<>> /\ waiting' = Entered(e) /\ items' = Dropped(e)
      /\ inFlight' = Tail(inFlight)
      /\ UNCHANGED <<next, held, armed, shut, inDrain, active, count, forgotten>>
  BY DEF Invoke
<1>2. /\ inFlight \in Seq(Entries) /\ waiting \in Seq(Entries)
      /\ Len(waiting) <= Capacity /\ Len(inFlight) <= Backlog
      /\ Capacity \in Nat /\ Backlog \in Nat
  BY DEF CompletionInv, CompletionTypeOK, NumbersSuffice
<1>3. /\ e \in Entries /\ e \in On(inFlight) /\ inFlight' \in Seq(Entries)
      /\ Len(inFlight') <= Backlog /\ On(inFlight') \subseteq On(inFlight)
  BY <1>1, <1>2, Dequeued
<1>4. /\ waiting' \in Seq(Entries) /\ Len(waiting') <= Capacity
      /\ On(waiting') \subseteq On(waiting) \cup {e}
  BY <1>1, <1>2, <1>3, Queued DEF Entered
<1>5. UnderWay' \subseteq UnderWay
  <2>1. UnderWay' = On(waiting') \cup On(inFlight')
    BY DEF UnderWay, On
  <2> QED
    BY <1>3, <1>4, <2>1, OnTheWay
<1>6. PICK ids \in SUBSET Ids : items' = Without(ids)
  BY <1>1, <1>3, Untouched DEF Dropped, Entries
<1>7. /\ items' \in [Ids -> 0 .. Registrations] /\ forgotten' \subseteq 1 .. Registrations
      /\ RegistrationsCounted' /\ TableInjective' /\ \A i \in Ids : items'[i] \notin forgotten'
  BY <1>1, <1>6, TableKept
<1>8. HeldOnce' /\ CompletionsFindTheirOwner'
  BY <1>1, <1>5, <1>6, <1>7, OwnersKept, StillFound DEF Open
<1>9. ArmedIsHeld' /\ CompletionTypeOK'
  BY <1>1, <1>3, <1>4, <1>7 DEF CompletionInv, CompletionTypeOK, ArmedIsHeld, Open
<1> QED
  BY <1>7, <1>8, <1>9 DEF CompletionInv

(* The callback that runs is the one the completion was meant for. *)
LEMMA DeliverFinds ==
  ASSUME NumbersSuffice, CompletionInv, Deliver
  PROVE  /\ Head(waiting) \in UnderWay /\ Head(waiting) \in Entries
         /\ waiting' \in Seq(Entries) /\ Len(waiting') <= Capacity /\ UnderWay' \subseteq UnderWay
         /\ active' \in {Unset, Head(waiting).item}
         /\ items' = IF Head(waiting).oneShot THEN Without({Head(waiting).id}) ELSE items
         /\ active' = items[Head(waiting).id]
         /\ UNCHANGED <<next, held, armed, inFlight, shut, inDrain, count, forgotten>>
<1>1. /\ waiting # <<>> /\ active' = items[Head(waiting).id] /\ items' = Spent(Head(waiting))
      /\ waiting' = Tail(waiting)
      /\ UNCHANGED <<next, held, armed, inFlight, shut, inDrain, count, forgotten>>
  BY DEF Deliver
<1>2. waiting \in Seq(Entries) /\ Len(waiting) <= Capacity /\ Capacity \in Nat
  BY DEF CompletionInv, CompletionTypeOK, NumbersSuffice
<1>3. /\ Head(waiting) \in Entries /\ Head(waiting) \in On(waiting) /\ waiting' \in Seq(Entries)
      /\ Len(waiting') <= Capacity /\ On(waiting') \subseteq On(waiting)
  BY <1>1, <1>2, Dequeued
<1>4. UnderWay' = On(waiting') \cup On(inFlight)
  BY <1>1 DEF UnderWay, On
<1>5. Head(waiting) \in UnderWay /\ UnderWay' \subseteq UnderWay
  BY <1>3, <1>4, OnTheWay
<1>6. items[Head(waiting).id] \in {Unset, Head(waiting).item}
  BY <1>5 DEF CompletionInv, CompletionsFindTheirOwner
<1> QED
  BY <1>1, <1>3, <1>5, <1>6 DEF Spent

LEMMA DeliverKept ==
  ASSUME NumbersSuffice, CompletionInv, Deliver
  PROVE  CompletionInv'
<1> DEFINE e == Head(waiting)
<1>1. /\ e \in Entries /\ waiting' \in Seq(Entries) /\ Len(waiting') <= Capacity
      /\ UnderWay' \subseteq UnderWay /\ active' \in {Unset, e.item}
      /\ items' = IF e.oneShot THEN Without({e.id}) ELSE items
      /\ UNCHANGED <<next, held, armed, inFlight, shut, inDrain, count, forgotten>>
  BY DeliverFinds
<1> HIDE DEF e
<1>2. PICK ids \in SUBSET Ids : items' = Without(ids)
  BY <1>1, Untouched DEF Entries
<1>3. /\ items' \in [Ids -> 0 .. Registrations] /\ forgotten' \subseteq 1 .. Registrations
      /\ RegistrationsCounted' /\ TableInjective' /\ \A i \in Ids : items'[i] \notin forgotten'
  BY <1>1, <1>2, TableKept
<1>4. HeldOnce' /\ CompletionsFindTheirOwner'
  BY <1>1, <1>2, <1>3, OwnersKept, StillFound DEF Open
<1>5. active' \in 0 .. Registrations
  BY <1>1 DEF Entries, Unset, NumbersSuffice
<1>6. ArmedIsHeld' /\ CompletionTypeOK'
  BY <1>1, <1>3, <1>5 DEF CompletionInv, CompletionTypeOK, ArmedIsHeld, Open
<1> QED
  BY <1>3, <1>4, <1>6 DEF CompletionInv

(* A fresh number is nobody's: not a completion's, not another slot's. *)
LEMMA SetCallbackKept ==
  ASSUME NumbersSuffice, CompletionInv, NEW q \in Own, SetCallback(q)
  PROVE  CompletionInv'
<1> DEFINE rest == Without({held[q]})
           i == FreshId(rest)
<1>1. /\ LongGone(i) /\ Open(q) /\ count < Registrations /\ count' = count + 1
      /\ items' = [rest EXCEPT ![i] = count']
      /\ next' = i
      /\ held' = [held EXCEPT ![q] = i]
      /\ armed' = [armed EXCEPT ![q] = [id |-> i, item |-> count']]
      /\ forgotten' = forgotten \cup Retracted({held[q]})
      /\ UNCHANGED <<waiting, inFlight, shut, inDrain, active>>
  BY DEF SetCallback, Open
<1>2. /\ rest \in [Ids -> 0 .. Registrations] /\ held[q] \in Ids
      /\ \A j \in Ids : rest[j] = IF j = held[q] THEN Unset ELSE items[j]
      /\ items[Unset] = Unset /\ items \in [Ids -> 0 .. Registrations]
  BY Unarmed DEF CompletionInv, CompletionTypeOK, HeldOnce, Without, Unset, NumbersSuffice
<1>3. i \in Ids \ {Unset} /\ rest[i] = Unset
  <2>1. \E j \in Ids \ {0} : rest[j] = Unset
    BY <1>2, SomeNumberIsFree
  <2> HIDE DEF rest
  <2> QED
    BY <2>1, FreshIsUnused DEF CompletionInv, Unset
<1>4. i = held[q] \/ items[i] = Unset
  BY <1>2, <1>3
<1>5. \A r \in Own : Open(r) /\ held[r] = i => r = q
  <2> SUFFICES ASSUME NEW r \in Own, Open(r), held[r] = i PROVE r = q
    OBVIOUS
  <2>1. items[i] # Unset
    BY <1>1, <1>3 DEF LongGone
  <2>2. held[q] = i
    BY <1>4, <2>1
  <2> QED
    BY <1>1, <1>3, <2>1, <2>2 DEF CompletionInv, HeldOnce
<1> HIDE DEF rest, i
<1>6. /\ items' \in [Ids -> 0 .. Registrations]
      /\ \A j \in Ids : items'[j] = IF j = i THEN count + 1
                                    ELSE IF j = held[q] THEN Unset ELSE items[j]
  BY <1>1, <1>2, <1>3 DEF CompletionInv, RegistrationsCounted, NumbersSuffice
<1>7. /\ count \in Nat /\ count + 1 \in 1 .. Registrations
      /\ \A j \in Ids : items[j] \in 0 .. count
      /\ forgotten \subseteq 1 .. count
  BY <1>1, <1>2 DEF CompletionInv, RegistrationsCounted, NumbersSuffice
<1>8. Retracted({held[q]}) \subseteq 1 .. count
  BY <1>2, <1>7 DEF Retracted, Unset
<1>9. forgotten' \subseteq 1 .. count
  BY <1>1, <1>7, <1>8
<1>10. RegistrationsCounted'
  <2>1. count' = count + 1
    BY <1>1
  <2>2. count' \in 0 .. Registrations
    BY <1>7, <2>1
  <2>3. forgotten' \subseteq 1 .. count'
    BY <1>7, <1>9, <2>1
  <2>4. ASSUME NEW j \in Ids PROVE items'[j] <= count'
    BY <1>6, <1>7, <2>1 DEF Unset
  <2> QED
    BY <2>2, <2>3, <2>4 DEF RegistrationsCounted
<1>11. TableInjective'
  BY <1>6, <1>7 DEF CompletionInv, TableInjective
<1>12. \A j \in Ids : items'[j] \notin forgotten'
  <2> SUFFICES ASSUME NEW j \in Ids, items'[j] \in forgotten' PROVE FALSE
    OBVIOUS
  <2>1. j # i /\ j # held[q] /\ items'[j] = items[j] /\ items[j] # Unset
    BY <1>6, <1>7, <1>9 DEF Unset
  <2>2. items[j] \in Retracted({held[q]})
    BY <1>1, <2>1 DEF CompletionInv, CompletionsFindTheirOwner
  <2> QED
    BY <1>2, <2>1, <2>2 DEF Retracted, CompletionInv, TableInjective
<1>13. held' \in [Own -> Ids] /\ \A r \in Own : held'[r] = IF r = q THEN i ELSE held[r]
  BY <1>1, <1>3 DEF CompletionInv, CompletionTypeOK
<1>14. HeldOnce'
  <2>1. items'[Unset] = Unset
    BY <1>2, <1>3, <1>6, Unarmed
  <2>2. ASSUME NEW j \in Ids, items'[j] # Unset
        PROVE  \E r \in Own : /\ Open(r)' /\ held'[r] = j
                              /\ \A s \in Own : Open(s)' /\ held'[s] = j => s = r
    <3>1. CASE j = i
      BY <1>1, <1>5, <1>13, <3>1 DEF Open
    <3>2. CASE j # i
      <4>1. items[j] # Unset /\ j # held[q]
        BY <1>6, <2>2, <3>2
      <4>2. PICK r \in Own : /\ Open(r) /\ held[r] = j
                             /\ \A s \in Own : Open(s) /\ held[s] = j => s = r
        BY <4>1 DEF CompletionInv, HeldOnce
      <4> QED
        BY <1>1, <1>13, <3>2, <4>1, <4>2 DEF Open
    <3> QED
      BY <3>1, <3>2
  <2> QED
    BY <2>1, <2>2 DEF HeldOnce
<1>15. /\ armed' \in [Own -> [id : Ids, item : 0 .. Registrations]]
       /\ \A r \in Own : armed'[r] = IF r = q THEN [id |-> i, item |-> count + 1] ELSE armed[r]
  BY <1>1, <1>3, <1>7 DEF CompletionInv, CompletionTypeOK
<1>16. ArmedIsHeld'
  BY <1>1, <1>3, <1>13, <1>15 DEF CompletionInv, ArmedIsHeld, Open
<1>17. CompletionsFindTheirOwner'
  <2>1. \A e \in UnderWay' : e.id # Unset /\ items'[e.id] \in {Unset, e.item}
    <3> SUFFICES ASSUME NEW e \in UnderWay
                 PROVE  e.id # Unset /\ items'[e.id] \in {Unset, e.item}
      BY <1>1 DEF UnderWay
    <3>1. e.id \in Ids
      <4>1. On(waiting) \subseteq Entries /\ On(inFlight) \subseteq Entries
        BY DEF CompletionInv, CompletionTypeOK, On
      <4> QED
        BY <4>1, OnTheWay DEF Entries
    <3>2. e.id # i
      BY <1>1 DEF LongGone
    <3> QED
      BY <1>6, <3>1, <3>2 DEF CompletionInv, CompletionsFindTheirOwner
  <2>2. ASSUME NEW r \in Own, armed'[r] # Nothing
        PROVE  armed'[r].id # Unset /\ items'[armed'[r].id] \in {Unset, armed'[r].item}
    <3>1. CASE r = q
      BY <1>3, <1>6, <1>15, <3>1
    <3>2. CASE r # q
      <4>1. Open(r) /\ armed[r] # Nothing /\ armed[r].id = held[r] /\ held[r] \in Ids
        BY <1>15, <2>2, <3>2 DEF CompletionInv, CompletionTypeOK, ArmedIsHeld
      <4>2. armed[r].id # i
        BY <1>5, <3>2, <4>1
      <4> QED
        BY <1>6, <1>15, <3>2, <4>1, <4>2 DEF CompletionInv, CompletionsFindTheirOwner
    <3> QED
      BY <3>1, <3>2
  <2> QED
    BY <1>12, <2>1, <2>2 DEF CompletionsFindTheirOwner
<1>18. CompletionTypeOK'
  <2>1. next' \in Ids /\ forgotten' \subseteq 1 .. Registrations
    <3>1. count \in Nat /\ Registrations \in Nat /\ count + 1 <= Registrations
      BY <1>7 DEF NumbersSuffice
    <3>2. 1 .. count \subseteq 1 .. Registrations
      BY <3>1
    <3> QED
      BY <1>1, <1>3, <1>9, <3>2
  <2> QED
    BY <1>1, <1>6, <1>13, <1>15, <2>1 DEF CompletionInv, CompletionTypeOK
<1> QED
  BY <1>10, <1>11, <1>14, <1>16, <1>17, <1>18 DEF CompletionInv

-----------------------------------------------------------------------------
LEMMA Starts == NumbersSuffice /\ CompletionInit => CompletionInv
<1> SUFFICES ASSUME NumbersSuffice, CompletionInit PROVE CompletionInv
  OBVIOUS
<1>1. UnderWay = {} /\ waiting \in Seq(Entries) /\ inFlight \in Seq(Entries)
      /\ Len(waiting) = 0 /\ Len(inFlight) = 0
  BY DEF CompletionInit, UnderWay
<1>2. CASE /\ next = 0
           /\ items = [i \in Ids |-> Unset]
           /\ held = [q \in Own |-> Unset]
           /\ armed = [q \in Own |-> Nothing]
           /\ count = 0
  <2>1. CompletionTypeOK
    <3>1. 0 \in 0 .. Registrations /\ Capacity >= 0 /\ Backlog >= 0 /\ Unset = 0
      BY DEF NumbersSuffice, Unset
    <3> QED
      BY <1>1, <1>2, <3>1, Unarmed DEF CompletionInit, CompletionTypeOK
  <2> QED
    BY <1>1, <1>2, <2>1, Unarmed
       DEF CompletionInit, CompletionInv, RegistrationsCounted, TableInjective, HeldOnce, ArmedIsHeld,
           CompletionsFindTheirOwner, NumbersSuffice, Unset
<1>3. ASSUME NEW q \in Own,
             next = MaxId - 1,
             items = [i \in Ids |-> IF i = 1 THEN 1 ELSE Unset],
             held = [r \in Own |-> IF r = q THEN 1 ELSE Unset],
             armed = [r \in Own |-> IF r = q THEN [id |-> 1, item |-> 1] ELSE Nothing],
             count = 1
      PROVE  CompletionInv
  <2>1. 1 \in Ids /\ MaxId - 1 \in Ids /\ 1 \in 0 .. Registrations /\ 1 # Unset
    <3>1. Cardinality(Own) \in Nat
      BY FS_CardinalityType DEF NumbersSuffice
    <3> QED
      BY <3>1 DEF NumbersSuffice, Ids, Unset
  <2>2. CompletionTypeOK
    <3>1. 0 \in 0 .. Registrations /\ Capacity >= 0 /\ Backlog >= 0 /\ Unset = 0
      BY DEF NumbersSuffice, Unset
    <3>2. /\ [id |-> 1, item |-> 1] \in [id : Ids, item : 0 .. Registrations]
          /\ items \in [Ids -> 0 .. Registrations] /\ held \in [Own -> Ids]
      <4>1. Unset \in Ids /\ Unset \in 0 .. Registrations
        BY <3>1, Unarmed
      <4> QED
        BY <1>3, <2>1, <4>1
    <3>3. armed \in [Own -> [id : Ids, item : 0 .. Registrations]]
      BY <1>3, <3>2, Unarmed
    <3> QED
      BY <1>1, <1>3, <2>1, <3>1, <3>2, <3>3 DEF CompletionInit, CompletionTypeOK
  <2>3. TableInjective /\ HeldOnce
    BY <1>3, <2>1, Unarmed DEF CompletionInit, TableInjective, HeldOnce, Open
  <2>4. ArmedIsHeld /\ CompletionsFindTheirOwner
    BY <1>1, <1>3, <2>1 DEF CompletionInit, ArmedIsHeld, CompletionsFindTheirOwner, Open
  <2>5. RegistrationsCounted
    BY <1>3, <2>1 DEF CompletionInit, RegistrationsCounted, Unset
  <2> QED
    BY <2>2, <2>3, <2>4, <2>5 DEF CompletionInv
<1> QED
  BY <1>2, <1>3 DEF CompletionInit

LEMMA StepKept == NumbersSuffice /\ CompletionInv /\ [CompletionNext]_completions => CompletionInv'
<1> SUFFICES ASSUME NumbersSuffice, CompletionInv, [CompletionNext]_completions PROVE CompletionInv'
  OBVIOUS
<1>1. ASSUME /\ UNCHANGED <<items, next, waiting, held, armed, inFlight, shut, count, forgotten>>
             /\ inDrain' \in BOOLEAN /\ active' \in {Unset, active}
      PROVE  CompletionInv'
  BY <1>1
     DEF CompletionInv, CompletionTypeOK, RegistrationsCounted, TableInjective, HeldOnce, ArmedIsHeld,
         CompletionsFindTheirOwner, Open, UnderWay, NumbersSuffice, Unset
<1>2. CASE BeginDrain \/ CallbackReturns \/ EndDrain \/ UNCHANGED completions
  BY <1>1, <1>2 DEF BeginDrain, CallbackReturns, EndDrain, completions, CompletionInv, CompletionTypeOK
<1> QED
  BY <1>2, SetCallbackKept, ClearCallbackKept, CompleteKept, CloseKept, CloseFailsKept,
     InvokeKept, DeliverKept DEF CompletionNext

(* Every reachable state is well typed; in particular neither queue is     *)
(* longer than its array.                                                  *)
THEOREM TypeCorrect == ASSUME NumbersSuffice PROVE CompletionSpec => []CompletionTypeOK
<1>1. CompletionInit => CompletionInv
  BY Starts
<1>2. CompletionInv /\ [CompletionNext]_completions => CompletionInv'
  BY StepKept
<1>3. CompletionInv => CompletionTypeOK
  BY DEF CompletionInv
<1> QED
  BY <1>1, <1>2, <1>3, PTL DEF CompletionSpec

(* A completion that is under way, or still to come, finds the callback    *)
(* that was registered for it or none, wherever the counter stands, and    *)
(* what is retained has one open player that can forget it: API.md's       *)
(* "Audio completion callbacks are retained by ID".                        *)
THEOREM CompletionsAreKept == ASSUME NumbersSuffice PROVE CompletionSpec => []CompletionsKept
<1>1. CompletionInit => CompletionInv
  BY Starts
<1>2. CompletionInv /\ [CompletionNext]_completions => CompletionInv'
  BY StepKept
<1>3. ASSUME CompletionInv PROVE CompletionsKept
  <2>1. ASSUME NEW i \in Ids, items[i] # Unset
        PROVE  Cardinality({q \in Own : held[q] = i /\ q[1] \notin shut}) = 1
    <3>1. PICK q \in Own : /\ Open(q) /\ held[q] = i
                           /\ \A r \in Own : Open(r) /\ held[r] = i => r = q
      BY <1>3, <2>1 DEF CompletionInv, HeldOnce
    <3>2. {r \in Own : held[r] = i /\ r[1] \notin shut} = {q}
      BY <3>1 DEF Open
    <3> QED
      BY <3>2, FS_Singleton
  <2> QED
    BY <1>3, <2>1 DEF CompletionInv, HeldOnce, CompletionsKept, RetainedByPlayers
<1> QED
  BY <1>1, <1>2, <1>3, PTL DEF CompletionSpec

(* A callback that runs is that of the oldest completion and was not taken *)
(* back, and one that may run once is gone when it does: audio.go:60.      *)
THEOREM OneShotsAreOnce == ASSUME NumbersSuffice PROVE CompletionSpec => OneShotsRunOnce
<1>1. CompletionInit => CompletionInv
  BY Starts
<1>2. CompletionInv /\ [CompletionNext]_completions => CompletionInv'
  BY StepKept
<1>3. ASSUME CompletionInv, [CompletionNext]_completions, active = Unset, active' # Unset
      PROVE  /\ active' = Head(waiting).item
             /\ active' \notin forgotten
             /\ Head(waiting).oneShot => \A i \in Ids : items'[i] # active'
  <2>1. Deliver
    BY <1>3
       DEF CompletionNext, SetCallback, ClearCallback, Complete, ClosePlayback, CloseFails, Invoke, BeginDrain,
           CallbackReturns, EndDrain, completions
  <2> DEFINE e == Head(waiting)
  <2>2. /\ e \in Entries /\ active' \in {Unset, e.item} /\ active' = items[e.id]
        /\ items' = IF e.oneShot THEN Without({e.id}) ELSE items
    BY <1>3, <2>1, DeliverFinds
  <2> HIDE DEF e
  <2>3. e.id \in Ids /\ active' \notin forgotten
    BY <1>3, <2>2 DEF Entries, CompletionInv, CompletionsFindTheirOwner
  <2>4. ASSUME e.oneShot, NEW i \in Ids PROVE items'[i] # active'
    BY <1>3, <2>2, <2>3, <2>4 DEF CompletionInv, TableInjective, Without
  <2> QED
    BY <1>3, <2>2, <2>3, <2>4 DEF e
<1> QED
  BY <1>1, <1>2, <1>3, PTL DEF CompletionSpec, OneShotsRunOnce

-----------------------------------------------------------------------------
(***************************************************************************)
(* Proofs about the audio graph, for any objects, parameters and scenes:   *)
(* its three records agree, nothing is freed while something alive points  *)
(* to it, each source is heard at one place and channels form no cycle.    *)
(*                                                                         *)
(* The games are those with at most one wrapper of the default channel:    *)
(* with two, the records of the wrappers describe one native channel, and  *)
(* neither of them is told what the other does.                            *)
(***************************************************************************)


(* The edges that there can be. *)
Wires ==
  UNION {Channels \X {"source"} \X Sources, Channels \X {"effect"} \X Effects,
         Instruments \X {"voice"} \X Synths, Players \X {"sample"} \X Samples,
         Tracks \X {"instrument"} \X Instruments, Sequences \X Indexes \X Tracks,
         {<<p[1], p[2], s>> : p \in Parameters, s \in AnySignal}}

Heard == {"source", "voice"}
Natives(E) == {NativeEdge(e) : e \in E}

Typed ==
  /\ open \subseteq Objects /\ freed \subseteq Owned
  /\ planned \subseteq Objects \cap (Taps \cup PcmSources \cup Outputs \cup Levels)
  /\ holds \subseteq Wires /\ heldBy \subseteq Wires
  /\ panicked \in BOOLEAN

(* Which objects there are: what is lent goes with its lender. *)
Lives ==
  /\ open \cap freed = {}
  /\ planned \cap (Taps \cup PcmSources) \cap (open \cup freed) = {}
  /\ \A c \in Channels : {Output(c), Level(c, "dry"), Level(c, "wet")} \cap open # {} => c \in open
  /\ \A t \in Taps \cap open : Line[t] \in open

(* The three records. *)
Sides == holds = heldBy /\ Tracked(native) = Natives(holds)

(* A closing order of the channels: one that is heard by none of the rest. *)
Acyclic ==
  \A S \in SUBSET Channels :
    S # {} => \E c \in S : \A m \in S : <<m, "source", Output(c)>> \notin holds

Held ==
  /\ \A e \in holds : User(e) \in open /\ Used(e) \in open
  /\ \A e, f \in holds : SlotOf(e) = SlotOf(f) /\ e[2] \notin Many => e = f
  /\ \A e, f \in holds : {e[2], f[2]} \subseteq Heard /\ Used(e) = Used(f) => e = f
  /\ \A e, f \in holds : e[2] \in Indexes /\ User(e) = User(f) /\ Used(e) = Used(f) => e = f
  /\ Acyclic

NativeKept == NothingDangling /\ HeardOnce /\ NoCycle

IInv == Typed /\ Lives /\ IF panicked THEN NativeKept ELSE Sides /\ Held

OneWrapper == \A b1, b2 \in Borrowed : b1 = b2

-----------------------------------------------------------------------------
(* Edges and their native counterparts. *)

LEMMA WireIs ==
  ASSUME NEW e \in Wires
  PROVE  /\ e = <<e[1], e[2], e[3]>>
         /\ \/ e[1] \in Channels /\ e[2] = "source" /\ e[3] \in Sources
            \/ e[1] \in Channels /\ e[2] = "effect" /\ e[3] \in Effects
            \/ e[1] \in Instruments /\ e[2] = "voice" /\ e[3] \in Synths
            \/ e[1] \in Players /\ e[2] = "sample" /\ e[3] \in Samples
            \/ e[1] \in Tracks /\ e[2] = "instrument" /\ e[3] \in Instruments
            \/ e[1] \in Sequences /\ e[2] \in Indexes /\ e[3] \in Tracks
            \/ <<e[1], e[2]>> \in Parameters /\ e[3] \in AnySignal
<1>1. CASE \E p \in Parameters, s \in AnySignal : e = <<p[1], p[2], s>>
  BY <1>1, GraphShape
<1> QED
  BY <1>1 DEF Wires

Lendable == Outputs \cup Levels
UsedObjects == (Objects \ Channels)

LEMMA NativeIs ==
  /\ \A c \in Channels : /\ Native(c) = Channel(c)
                         /\ Native(Output(c)) = <<"output", Channel(c)>>
                         /\ Native(Level(c, "dry")) = <<"dry", Channel(c)>>
                         /\ Native(Level(c, "wet")) = <<"wet", Channel(c)>>
  /\ \A x \in Owned \ Channels : Native(x) = x
<1>1. \A c \in Channels, k \in {"output", "dry", "wet"} :
        <<k, c>> \in Lendable /\ <<k, c>> \notin Channels /\ <<k, c>>[1] = k /\ <<k, c>>[2] = c
  BY GraphShape DEF Lendable, Outputs, Levels, Output, Level
<1>2. \A x \in Owned : x \notin Lendable
  BY GraphShape DEF Lendable
<1>3. ASSUME NEW c \in Channels PROVE Native(c) = Channel(c)
  <2>1. c \notin Outputs \cup Levels
    BY GraphShape
  <2> QED
    BY <2>1 DEF Native
<1>4. ASSUME NEW c \in Channels, NEW k \in {"output", "dry", "wet"} PROVE Native(<<k, c>>) = <<k, Channel(c)>>
  BY <1>1 DEF Native, Lendable
<1>5. ASSUME NEW x \in Owned \ Channels PROVE Native(x) = x
  BY <1>2 DEF Native, Lendable
<1> QED
  BY <1>3, <1>4, <1>5 DEF Output, Level

LEMMA WireEnds ==
  ASSUME NEW e \in Wires
  PROVE  /\ e[1] \in Channels \cup Owned /\ e[3] \in UsedObjects /\ e[3] \in (Owned \ Channels) \cup Lendable
         /\ e[1] \in Objects
<1>1. /\ Sounding \cup Signals \cup Effects \cup Samples \cup Tracks \cup Sequences \subseteq Owned \ Channels
      /\ Lendable \cap Channels = {}
  BY GraphShape DEF Owned, AnySignal, Lendable
<1>2. Channels \cup Owned \subseteq Objects /\ Lendable \subseteq Objects
  BY GraphAssumption DEF Objects, Owned, Lendable
<1>3. e[1] \in Channels \cup Owned
  <2>1. <<e[1], e[2]>> \in Parameters => e[1] \in Channels \cup Owned
    BY GraphShape
  <2> QED
    BY <1>1, <2>1, WireIs DEF Sounding
<1>4. e[3] \in (Owned \ Channels) \cup Lendable
  BY <1>1, WireIs DEF Sounding, Sources, AnySignal, Lendable
<1> QED
  BY <1>1, <1>2, <1>3, <1>4 DEF UsedObjects

LEMMA ChannelInjective ==
  ASSUME OneWrapper, NEW c \in Channels, NEW d \in Channels, Channel(c) = Channel(d)
  PROVE  c = d
BY GraphShape DEF Channel, OneWrapper

LEMMA UserInjective ==
  ASSUME OneWrapper, NEW u \in Channels \cup Owned, NEW v \in Channels \cup Owned, Native(u) = Native(v)
  PROVE  u = v
<1>1. \A x \in Channels \cup Owned : Native(x) = IF x \in Borrowed THEN Default ELSE x
  BY NativeIs, GraphAssumption DEF Channel
<1> QED
  BY <1>1, GraphShape, GraphAssumption DEF OneWrapper

LEMMA LendableIs ==
  ASSUME NEW x \in Lendable
  PROVE  \E k \in {"output", "dry", "wet"}, c \in Channels :
           x = <<k, c>> /\ Native(x) = <<k, Channel(c)>>
<1>1. PICK c \in Channels : x \in {Output(c), Level(c, "dry"), Level(c, "wet")}
  BY DEF Lendable, Outputs, Levels
<1> QED
  BY <1>1, NativeIs DEF Output, Level

LEMMA UsedInjective ==
  ASSUME OneWrapper, NEW x \in (Owned \ Channels) \cup Lendable, NEW y \in (Owned \ Channels) \cup Lendable,
         Native(x) = Native(y)
  PROVE  x = y
<1>1. ASSUME NEW z \in Lendable PROVE Native(z) \notin Owned
  <2>1. PICK k \in {"output", "dry", "wet"}, c \in Channels : z = <<k, c>> /\ Native(z) = <<k, Channel(c)>>
    BY LendableIs
  <2> QED
    BY <2>1, GraphShape DEF Channel, Lendable
<1>2. CASE x \in Lendable /\ y \in Lendable
  <2>1. PICK k \in {"output", "dry", "wet"}, c \in Channels : x = <<k, c>> /\ Native(x) = <<k, Channel(c)>>
    BY <1>2, LendableIs
  <2>2. PICK l \in {"output", "dry", "wet"}, d \in Channels : y = <<l, d>> /\ Native(y) = <<l, Channel(d)>>
    BY <1>2, LendableIs
  <2>3. k = l /\ Channel(c) = Channel(d)
    BY <2>1, <2>2
  <2> QED
    BY <2>1, <2>2, <2>3, ChannelInjective
<1> QED
  BY <1>1, <1>2, NativeIs

LEMMA EdgeInjective ==
  ASSUME OneWrapper, NEW e \in Wires, NEW f \in Wires
  PROVE  /\ NativeEdge(e) = NativeEdge(f) => e = f
         /\ SlotOf(NativeEdge(e)) = SlotOf(NativeEdge(f)) <=> SlotOf(e) = SlotOf(f)
         /\ NativeEdge(e)[2] = e[2] /\ NativeEdge(e)[1] = Native(e[1]) /\ NativeEdge(e)[3] = Native(e[3])
<1>1. NativeEdge(e)[2] = e[2] /\ NativeEdge(e)[1] = Native(e[1]) /\ NativeEdge(e)[3] = Native(e[3])
  BY DEF NativeEdge
<1>2. NativeEdge(f)[2] = f[2] /\ NativeEdge(f)[1] = Native(f[1]) /\ NativeEdge(f)[3] = Native(f[3])
  BY DEF NativeEdge
<1>3. Native(e[1]) = Native(f[1]) <=> e[1] = f[1]
  BY WireEnds, UserInjective
<1>4. Native(e[3]) = Native(f[3]) <=> e[3] = f[3]
  BY WireEnds, UsedInjective
<1>5. e = <<e[1], e[2], e[3]>> /\ f = <<f[1], f[2], f[3]>>
  BY WireIs
<1>6. NativeEdge(e) = NativeEdge(f) => e = f
  BY <1>1, <1>2, <1>3, <1>4, <1>5
<1> QED
  BY <1>1, <1>2, <1>3, <1>6 DEF SlotOf

(* Only synths have parameters whose signals are not recorded. *)
LEMMA TrackedIs ==
  ASSUME OneWrapper, NEW e \in Wires
  PROVE  SlotOf(NativeEdge(e)) \in Untracked <=> SlotOf(e) \in Untracked
<1>1. e[1] \in Channels \cup Owned
  BY WireEnds
<1>2. Synths \subseteq Owned \ Channels
  BY GraphShape DEF Owned, Sounding
<1>3. ASSUME NEW s \in Synths PROVE Native(e[1]) = s <=> e[1] = s
  BY <1>1, <1>2, <1>3, NativeIs, UserInjective
<1>4. SlotOf(NativeEdge(e)) = <<Native(e[1]), e[2]>> /\ SlotOf(e) = <<e[1], e[2]>>
  BY DEF NativeEdge, SlotOf
<1>5. ASSUME <<Native(e[1]), e[2]>> \in Untracked PROVE Native(e[1]) \in Synths
  BY <1>5, GraphShape
<1>6. ASSUME <<e[1], e[2]>> \in Untracked PROVE e[1] \in Synths
  BY <1>6, GraphShape
<1> QED
  BY <1>3, <1>4, <1>5, <1>6

(* Tracks are held under indexes, and nothing else is. *)
LEMMA IndexedIs ==
  ASSUME NEW e \in Wires
  PROVE  e[2] \in Indexes <=> e[3] \in Tracks
<1>1. e[2] \in Indexes => e[2] \notin SlotNames /\ <<e[1], e[2]>> \notin Parameters
  BY GraphShape
<1>2. Tracks \cap (Sources \cup AnySignal \cup Effects \cup Samples) = {}
  BY GraphShape DEF Sources, Owned
<1> QED
  BY <1>1, <1>2, WireIs DEF SlotNames, Many, Sources, Sounding

(***************************************************************************)
(* A step takes the edges R apart and adds at most one, a.                 *)
(***************************************************************************)

(* The three records go on to agree. *)
LEMMA SidesChange ==
  ASSUME OneWrapper, Typed, Sides, NEW R, NEW A \in SUBSET Wires, NEW G,
         \A a \in A : SlotOf(a) \notin Untracked,
         \A e \in holds : NativeEdge(e) \in G <=> e \in R,
         holds' = (holds \ R) \cup A, heldBy' = (heldBy \ R) \cup A,
         native' = (native \ G) \cup Natives(A)
  PROVE  Sides'
<1>1. \A n \in Natives(A) : SlotOf(n) \notin Untracked
  BY TrackedIs DEF Natives
<1>2. Tracked(native') = (Tracked(native) \ G) \cup Natives(A)
  BY <1>1 DEF Tracked
<1>3. Natives(holds) \ G = Natives(holds \ R)
  BY DEF Natives
<1>4. Natives(holds') = Natives(holds \ R) \cup Natives(A)
  BY DEF Natives
<1>5. Tracked(native') = Natives(holds')
  BY <1>2, <1>3, <1>4 DEF Sides
<1> QED
  BY <1>5 DEF Sides, Tracked, Natives

(* What goes with edges that are taken apart one by one. *)
LEMMA UndoneIs ==
  ASSUME OneWrapper, Typed, Sides, Held, NEW R \in SUBSET holds
  PROVE  \A e \in holds : NativeEdge(e) \in Undone(R) <=> e \in R
<1> SUFFICES ASSUME NEW e \in holds PROVE NativeEdge(e) \in Undone(R) <=> e \in R
  OBVIOUS
<1>1. e \in Wires /\ \A r \in R : r \in Wires /\ r \in holds
  BY DEF Typed
<1>2. NativeEdge(e) \in native
  BY DEF Sides, Natives, Tracked
<1>3. ASSUME e \in R PROVE NativeEdge(e) \in Undone(R)
  BY <1>2, <1>3 DEF Undone
<1>4. ASSUME NativeEdge(e) \in Undone(R) PROVE e \in R
  <2>1. PICK r \in R : /\ SlotOf(NativeEdge(e)) = SlotOf(NativeEdge(r))
                       /\ r[2] \in Many => NativeEdge(e) = NativeEdge(r)
    BY <1>4 DEF Undone
  <2>2. CASE r[2] \in Many
    BY <1>1, <2>1, <2>2, EdgeInjective
  <2>3. CASE r[2] \notin Many
    <3>1. SlotOf(e) = SlotOf(r)
      BY <1>1, <2>1, EdgeInjective
    <3>2. e[2] = r[2]
      BY <3>1 DEF SlotOf
    <3> QED
      BY <1>1, <2>3, <3>1, <3>2 DEF Held
  <2> QED
    BY <2>2, <2>3
<1> QED
  BY <1>3, <1>4

(* What goes from a slot that is set. *)
LEMMA ReplacedIs ==
  ASSUME OneWrapper, Typed, NEW slot, NEW u \in Channels \cup Owned, NEW name, slot = <<u, name>>
  PROVE  \A e \in holds : NativeEdge(e) \in InSlot(native, <<Native(slot[1]), slot[2]>>) /\ NativeEdge(e) \in native
                        <=> e \in InSlot(holds, slot) /\ NativeEdge(e) \in native
<1> SUFFICES ASSUME NEW e \in holds
             PROVE  SlotOf(NativeEdge(e)) = <<Native(u), name>> <=> SlotOf(e) = <<u, name>>
  BY DEF InSlot
<1>1. e \in Wires /\ e[1] \in Channels \cup Owned
  BY WireEnds DEF Typed
<1>2. SlotOf(NativeEdge(e)) = <<Native(e[1]), e[2]>> /\ SlotOf(e) = <<e[1], e[2]>>
  BY DEF NativeEdge, SlotOf
<1>3. Native(e[1]) = Native(u) <=> e[1] = u
  BY <1>1, UserInjective
<1> QED
  BY <1>2, <1>3

-----------------------------------------------------------------------------
(* Channels. *)

Routes(c, d) == <<d, "source", Output(c)>>

(* A channel is routed only to one that its output does not reach. *)
LEMMA RoutedIsAcyclic ==
  ASSUME Acyclic, heldBy = holds, NEW R, NEW A,
         holds' = (holds \ R) \cup A,
         \A a, b \in A : a = b,
         \A a \in A, o \in Channels :
           a[2] = "source" /\ a[3] = Output(o) => a[1] \in Channels /\ ~ChannelReaches(a[1], o)
  PROVE  Acyclic'
<1> SUFFICES ASSUME NEW S \in SUBSET Channels, S # {}
             PROVE  \E c \in S : \A m \in S : <<m, "source", Output(c)>> \notin holds'
  BY DEF Acyclic
<1>1. CASE \A c, m \in S : <<m, "source", Output(c)>> \notin A
  <2>1. PICK c \in S : \A m \in S : <<m, "source", Output(c)>> \notin holds
    BY DEF Acyclic
  <2> QED
    BY <1>1, <2>1
<1>2. ASSUME NEW o \in S, NEW d \in S, <<d, "source", Output(o)>> \in A
      PROVE  \E c \in S : \A m \in S : <<m, "source", Output(c)>> \notin holds'
  <2>1. d \in Channels /\ o \in Channels /\ ~ChannelReaches(d, o)
    BY <1>2
  <2>2. PICK T \in SUBSET Channels : d \in T /\ (\A c \in T : Downstream(c) \subseteq T) /\ o \notin T
    BY <2>1 DEF ChannelReaches
  <2>3. PICK c \in S \cap T : \A m \in S \cap T : <<m, "source", Output(c)>> \notin holds
    BY <2>2 DEF Acyclic
  <2>4. \A m \in S : <<m, "source", Output(c)>> \notin holds
    <3> SUFFICES ASSUME NEW m \in S, <<m, "source", Output(c)>> \in holds PROVE FALSE
      OBVIOUS
    <3>1. m \in Downstream(c)
      BY DEF Downstream, UsersOf, User, Used
    <3> QED
      BY <2>2, <2>3, <3>1
  <2>5. \A m \in S : <<m, "source", Output(c)>> \notin A
    <3> SUFFICES ASSUME NEW m \in S, <<m, "source", Output(c)>> \in A PROVE FALSE
      OBVIOUS
    <3>1. <<m, "source", Output(c)>> = <<d, "source", Output(o)>>
      BY <1>2
    <3>2. c = o
      BY <3>1 DEF Output
    <3> QED
      BY <2>2, <3>2
  <2> QED
    BY <2>4, <2>5
<1> QED
  BY <1>1, <1>2

(***************************************************************************)
(* What the records say of the native graph.                               *)
(***************************************************************************)

LEMMA AliveIs ==
  ASSUME Typed, Lives, NEW x \in open \cap ((Owned \ Channels) \cup Lendable)
  PROVE  Native(x) \notin Dead
<1>1. CASE x \in Owned \ Channels
  BY <1>1, NativeIs, GraphShape DEF Lives, Dead
<1>2. CASE x \in Lendable
  <2>1. PICK c \in Channels : x \in {Output(c), Level(c, "dry"), Level(c, "wet")}
    BY <1>2 DEF Lendable, Outputs, Levels
  <2>2. PICK k \in {"output", "dry", "wet"} : x = <<k, c>> /\ Native(x) = <<k, Channel(c)>>
    BY <2>1, NativeIs DEF Output, Level
  <2>3. c \notin freed /\ Default \notin freed
    BY <2>1, GraphShape DEF Lives, Typed
  <2>4. Channel(c) \notin freed
    BY <2>3 DEF Channel
  <2>5. Native(x) \notin Owned
    BY <1>2, <2>2, GraphShape DEF Channel, Lendable
  <2>6. Native(x)[2] = Channel(c)
    BY <2>2
  <2> QED
    BY <2>4, <2>5, <2>6 DEF Dead, Typed
<1> QED
  BY <1>1, <1>2

(* A native edge that is tracked is one of the wrappers'. *)
LEMMA NativeIsHeld ==
  ASSUME Sides, NEW n \in native, SlotOf(n) \notin Untracked
  PROVE  \E e \in holds : n = NativeEdge(e)
BY DEF Sides, Tracked, Natives

LEMMA HeardIsTracked ==
  ASSUME NEW n, n[2] \in Heard \/ SlotOf(n) \notin Parameters
  PROVE  SlotOf(n) \notin Untracked
BY GraphShape, GraphAssumption DEF SlotOf, Heard, SlotNames, Many

LEMMA FromSides ==
  ASSUME OneWrapper, Typed, Lives, Sides, Held
  PROVE  NativeKept
<1>1. NothingDangling
  <2>1. ASSUME NEW n \in Tracked(native) PROVE Used(n) \notin Dead
    <3>1. PICK e \in holds : n = NativeEdge(e)
      BY <2>1, NativeIsHeld DEF Tracked
    <3>2. e \in Wires /\ Used(n) = Native(e[3]) /\ e[3] \in open
      BY <3>1, EdgeInjective DEF Typed, Held, Used
    <3> QED
      BY <3>2, WireEnds, AliveIs
  <2> QED
    BY <2>1 DEF NothingDangling, Dangling
<1>2. HeardOnce
  <2> SUFFICES ASSUME NEW n \in native, NEW m \in native, n[2] \in Heard, m[2] \in Heard, Used(n) = Used(m)
               PROVE  n = m
    BY DEF HeardOnce, Heard
  <2>1. PICK e \in holds : n = NativeEdge(e)
    BY HeardIsTracked, NativeIsHeld
  <2>2. PICK f \in holds : m = NativeEdge(f)
    BY HeardIsTracked, NativeIsHeld
  <2>3. e \in Wires /\ f \in Wires
    BY DEF Typed
  <2>4. e[2] \in Heard /\ f[2] \in Heard /\ Native(e[3]) = Native(f[3])
    BY <2>1, <2>2, <2>3, EdgeInjective DEF Used
  <2>5. e[3] = f[3]
    BY <2>3, <2>4, WireEnds, UsedInjective
  <2> QED
    BY <2>1, <2>2, <2>4, <2>5 DEF Held, Used
<1>3. NoCycle
  <2> SUFFICES ASSUME NEW S \in SUBSET {Channel(c) : c \in Channels}, S # {}
               PROVE  \E n \in S : \A m \in S : ~Feeds(n, m)
    BY DEF NoCycle
  <2> DEFINE T == {c \in Channels : Channel(c) \in S}
  <2>1. T \in SUBSET Channels /\ T # {}
    OBVIOUS
  <2>2. PICK c \in T : \A d \in T : <<d, "source", Output(c)>> \notin holds
    BY <2>1 DEF Held, Acyclic
  <2>3. ASSUME NEW m \in S, Feeds(Channel(c), m) PROVE FALSE
    <3>1. PICK d \in Channels : m = Channel(d)
      OBVIOUS
    <3> DEFINE n == <<Channel(d), "source", <<"output", Channel(c)>>>>
               w == <<d, "source", Output(c)>>
    <3>2. n \in native
      BY <2>3, <3>1 DEF Feeds
    <3>3. n[2] \in Heard
      BY DEF Heard
    <3>4. PICK e \in holds : n = NativeEdge(e)
      BY <3>2, <3>3, HeardIsTracked, NativeIsHeld
    <3>5. w \in Wires
      BY DEF Wires, Sources, Outputs
    <3>6. NativeEdge(w) = n
      BY NativeIs DEF NativeEdge
    <3>7. e = w
      BY <3>4, <3>5, <3>6, EdgeInjective DEF Typed
    <3> QED
      BY <2>2, <3>1, <3>4, <3>7
  <2> QED
    BY <2>2, <2>3
<1> QED
  BY <1>1, <1>2, <1>3 DEF NativeKept

(***************************************************************************)
(* Steps.                                                                  *)
(***************************************************************************)

LEMMA ChangeKeeps ==
  ASSUME OneWrapper, IInv, ~panicked, panicked' = FALSE,
         NEW R \in SUBSET holds, NEW A \in SUBSET Wires, NEW G,
         holds' = (holds \ R) \cup A, heldBy' = (heldBy \ R) \cup A,
         native' = (native \ G) \cup Natives(A),
         \A e \in holds : NativeEdge(e) \in G <=> e \in R,
         \A a, b \in A : a = b,
         \A a \in A :
           /\ SlotOf(a) \notin Untracked
           /\ a[2] \notin Many => InSlot(holds, SlotOf(a)) \subseteq R
           /\ a[2] \in Heard => \A e \in holds : e[2] \in Heard /\ Used(e) = Used(a) => e \in R
           /\ a[2] \in Indexes => \A e \in holds : User(e) = User(a) /\ Used(e) = Used(a) => e \in R
           /\ \A o \in Channels : a[2] = "source" /\ a[3] = Output(o) => ~ChannelReaches(a[1], o),
         \A e \in holds' : User(e) \in open' /\ Used(e) \in open',
         Lives',
         open' \subseteq Objects, freed' \subseteq Owned, planned' \subseteq planned
  PROVE  IInv'
<1>1. Typed'
  BY DEF IInv, Typed
<1>2. Sides'
  BY SidesChange DEF IInv
<1>3. Acyclic'
  <2>1. \A a \in A, o \in Channels :
          a[2] = "source" /\ a[3] = Output(o) => a[1] \in Channels /\ ~ChannelReaches(a[1], o)
    <3> SUFFICES ASSUME NEW a \in A, a[2] = "source" PROVE a[1] \in Channels
      OBVIOUS
    <3>1. "source" \notin Indexes
      BY GraphShape DEF SlotNames, Many
    <3>2. <<a[1], a[2]>> \notin Parameters
      BY GraphShape DEF SlotNames, Many
    <3> QED
      BY <3>1, <3>2, WireIs
  <2>2. Acyclic /\ heldBy = holds
    BY DEF IInv, Held, Sides
  <2> QED
    BY <2>1, <2>2, RoutedIsAcyclic
<1>4. \A e, f \in holds' : SlotOf(e) = SlotOf(f) /\ e[2] \notin Many => e = f
  <2> SUFFICES ASSUME NEW e \in holds', NEW f \in holds', SlotOf(e) = SlotOf(f), e[2] \notin Many
               PROVE  e = f
    OBVIOUS
  <2>1. e[2] = f[2]
    BY DEF SlotOf
  <2> QED
    BY <2>1 DEF IInv, Held, InSlot
<1>5. \A e, f \in holds' : {e[2], f[2]} \subseteq Heard /\ Used(e) = Used(f) => e = f
  BY DEF IInv, Held
<1>6. \A e, f \in holds' : e[2] \in Indexes /\ User(e) = User(f) /\ Used(e) = Used(f) => e = f
  <2> SUFFICES ASSUME NEW e \in holds', NEW f \in holds',
                      e[2] \in Indexes, User(e) = User(f), Used(e) = Used(f)
               PROVE  e = f
    OBVIOUS
  <2>1. f[2] \in Indexes
    <3>1. e \in Wires /\ f \in Wires
      BY DEF Typed, IInv
    <3> QED
      BY <3>1, IndexedIs DEF Used
  <2> QED
    BY <2>1 DEF IInv, Held
<1> QED
  BY <1>1, <1>2, <1>3, <1>4, <1>5, <1>6 DEF IInv, Held

LEMMA LivesStays ==
  ASSUME Lives, UNCHANGED <<planned, open, freed>>
  PROVE  Lives'
BY DEF Lives

(* Edges stay, and objects are created. *)
LEMMA CreateKeeps ==
  ASSUME IInv, ~panicked, UNCHANGED <<holds, heldBy, native, panicked, freed>>,
         open \subseteq open', open' \subseteq Objects, planned' \subseteq planned, Lives'
  PROVE  IInv'
<1>1. Typed'
  BY DEF IInv, Typed
<1>2. Sides' /\ Acyclic'
  BY DEF IInv, Sides, Held, Acyclic, Tracked, Natives
<1>3. Held'
  BY <1>2 DEF IInv, Held
<1> QED
  BY <1>1, <1>2, <1>3 DEF IInv

(* One edge is added in a slot of many. *)
LEMMA AttachKeeps ==
  ASSUME OneWrapper, IInv, ~panicked, NEW e \in Wires, e[2] \in Many, Attach(e), UNCHANGED <<freed, panicked>>,
         open \subseteq open', open' \subseteq Objects, planned' \subseteq planned, Lives',
         e[1] \in open', e[3] \in open',
         e[2] \in Heard => \A f \in holds : f[2] \in Heard => Used(f) # e[3],
         \A o \in Channels : e[2] = "source" /\ e[3] = Output(o) => ~ChannelReaches(e[1], o)
  PROVE  IInv'
<1> DEFINE R == {}
           G == {}
           A == {e}
<1>1. /\ holds' = (holds \ R) \cup A /\ heldBy' = (heldBy \ R) \cup A
      /\ native' = (native \ G) \cup Natives(A)
  BY DEF Attach, Natives
<1>2. SlotOf(e) \notin Untracked /\ e[2] \notin Indexes
  BY GraphShape, GraphAssumption DEF SlotOf, SlotNames, Many
<1>3. \A f \in holds' : User(f) \in open' /\ Used(f) \in open'
  BY <1>1 DEF IInv, Held, User, Used
<1>4. \A a \in A :
           /\ SlotOf(a) \notin Untracked
           /\ a[2] \notin Many => InSlot(holds, SlotOf(a)) \subseteq R
           /\ a[2] \in Heard => \A f \in holds : f[2] \in Heard /\ Used(f) = Used(a) => f \in R
           /\ a[2] \in Indexes => \A f \in holds : User(f) = User(a) /\ Used(f) = Used(a) => f \in R
           /\ \A o \in Channels : a[2] = "source" /\ a[3] = Output(o) => ~ChannelReaches(a[1], o)
  BY <1>2 DEF Used
<1>5. R \in SUBSET holds /\ A \in SUBSET Wires /\ (\A a, b \in A : a = b)
  OBVIOUS
<1>6. \A f \in holds : NativeEdge(f) \in G <=> f \in R
  OBVIOUS
<1>7. panicked' = FALSE /\ freed' \subseteq Owned
  BY DEF IInv, Typed
<1> HIDE DEF R, A, G
<1> QED
  BY <1>1, <1>3, <1>4, <1>5, <1>6, <1>7, ChangeKeeps

(* A slot that holds one object is set. *)
LEMMA PutKeeps ==
  ASSUME OneWrapper, IInv, ~panicked, NEW u \in Channels \cup Owned, NEW name, NEW slot, slot = <<u, name>>,
         name \notin Many, slot \notin Untracked,
         NEW x, u \in open,
         x # None => <<u, name, x>> \in Wires /\ x \in open,
         name \in Indexes => \A e \in holds : User(e) = u /\ Used(e) = x => e \in InSlot(holds, slot),
         holds' = (holds \ InSlot(holds, slot)) \cup Put(slot, x),
         heldBy' = (heldBy \ InSlot(holds, slot)) \cup Put(slot, x),
         native' = Replaced(slot) \cup PutNative(slot, x),
         UNCHANGED <<planned, open, freed, panicked>>
  PROVE  IInv'
<1> DEFINE R == InSlot(holds, slot)
           G == InSlot(native, <<Native(slot[1]), slot[2]>>)
           A == Put(slot, x)
<1>1. /\ holds' = (holds \ R) \cup A /\ heldBy' = (heldBy \ R) \cup A
      /\ native' = (native \ G) \cup Natives(A)
  BY DEF Replaced, PutNative, Natives
<1>2. A \in SUBSET Wires /\ (\A a \in A : a = <<u, name, x>> /\ x # None) /\ (\A a, b \in A : a = b)
  BY DEF Put
<1>3. R \in SUBSET holds
  BY DEF InSlot
<1>4. \A f \in holds : NativeEdge(f) \in G <=> f \in R
  <2>1. \A f \in holds : NativeEdge(f) \in native
    BY DEF IInv, Sides, Natives, Tracked
  <2> QED
    BY <2>1, ReplacedIs DEF IInv
<1>5. \A f \in holds' : User(f) \in open' /\ Used(f) \in open'
  BY <1>1, <1>2 DEF IInv, Held, User, Used
<1>6. ASSUME NEW a \in A
      PROVE /\ SlotOf(a) \notin Untracked
            /\ a[2] \notin Many => InSlot(holds, SlotOf(a)) \subseteq R
            /\ a[2] \in Heard => \A f \in holds : f[2] \in Heard /\ Used(f) = Used(a) => f \in R
            /\ a[2] \in Indexes => \A f \in holds : User(f) = User(a) /\ Used(f) = Used(a) => f \in R
            /\ \A o \in Channels : a[2] = "source" /\ a[3] = Output(o) => ~ChannelReaches(a[1], o)
  <2>1. a = <<u, name, x>> /\ SlotOf(a) = slot /\ a[2] = name /\ User(a) = u /\ Used(a) = x
    BY <1>2 DEF SlotOf, User, Used
  <2> QED
    BY <2>1 DEF Heard, Many
<1>7. panicked' = FALSE /\ freed' \subseteq Owned /\ open' \subseteq Objects /\ planned' \subseteq planned
  BY DEF IInv, Typed
<1>8. Lives'
  BY LivesStays DEF IInv
<1> HIDE DEF R, A, G
<1> QED
  BY <1>1, <1>2, <1>3, <1>4, <1>5, <1>6, <1>7, <1>8, ChangeKeeps

(* Edges are taken apart, and S are closed. *)
LEMMA DetachKeeps ==
  ASSUME OneWrapper, IInv, ~panicked, NEW R \in SUBSET holds,
         holds' = holds \ R, heldBy' = heldBy \ R, native' = native \ Undone(R),
         panicked' = panicked, open' \subseteq open, planned' = planned, freed' \subseteq Owned, Lives',
         \A e \in holds \ R : User(e) \in open' /\ Used(e) \in open'
  PROVE  IInv'
<1> DEFINE A == {}
           G == Undone(R)
<1>1. /\ holds' = (holds \ R) \cup A /\ heldBy' = (heldBy \ R) \cup A
      /\ native' = (native \ G) \cup Natives(A)
      /\ A \in SUBSET Wires
  BY DEF Natives
<1>2. \A f \in holds : NativeEdge(f) \in G <=> f \in R
  BY UndoneIs DEF IInv
<1>3. panicked' = FALSE /\ open' \subseteq Objects /\ planned' \subseteq planned
  BY DEF IInv, Typed
<1>4. \A a \in A : FALSE
  OBVIOUS
<1> HIDE DEF A, G
<1> QED
  BY <1>1, <1>2, <1>3, <1>4, ChangeKeeps

LEMMA CloseKeeps ==
  ASSUME OneWrapper, IInv, ~panicked, NEW S \in SUBSET open, Close(S),
         \A c \in S \cap Channels : {Output(c), Level(c, "dry"), Level(c, "wet")} \cap open \subseteq S,
         \A t \in Taps \cap open : Line[t] \in S => t \in S
  PROVE  IInv'
<1>1. /\ holds' = holds \ Edges(S) /\ heldBy' = heldBy \ Edges(S) /\ native' = native \ Undone(Edges(S))
      /\ open' = open \ S /\ freed' = freed \cup (S \cap Owned) /\ UNCHANGED <<planned, panicked>>
  BY DEF Close
<1>2. Edges(S) = {e \in holds : User(e) \in S \/ Used(e) \in S}
  BY DEF Edges, IInv, Sides
<1>3. Lives'
  <2>1. open' \cap freed' = {} /\ planned' \cap (Taps \cup PcmSources) \cap (open' \cup freed') = {}
    BY <1>1 DEF IInv, Lives
  <2>2. \A c \in Channels : {Output(c), Level(c, "dry"), Level(c, "wet")} \cap open' # {} => c \in open'
    BY <1>1 DEF IInv, Lives
  <2>3. \A t \in Taps \cap open' : Line[t] \in open'
    BY <1>1 DEF IInv, Lives
  <2> QED
    BY <2>1, <2>2, <2>3 DEF Lives
<1>4. \A e \in holds \ Edges(S) : User(e) \in open' /\ Used(e) \in open'
  BY <1>1, <1>2 DEF IInv, Held
<1>5. freed' \subseteq Owned /\ Edges(S) \in SUBSET holds /\ open' \subseteq open
  BY <1>1, <1>2 DEF IInv, Typed
<1> QED
  BY <1>1, <1>3, <1>4, <1>5, DetachKeeps

LEMMA ConnectKeeps ==
  ASSUME OneWrapper, IInv, ~panicked, Connect
  PROVE  IInv'
<1>1. ASSUME NEW x \in Lendable, NEW c \in Channels, c \in open, x \in {Output(c), Level(c, "dry"), Level(c, "wet")},
             open' = open \cup {x}, UNCHANGED <<planned, freed, holds, heldBy, native, panicked>>
      PROVE  IInv'
  <2>1. x \notin freed /\ x \notin Taps \cup PcmSources /\ x \notin Channels
    BY GraphShape DEF IInv, Typed, Lendable, Owned, Sounding
  <2>2. \A d \in Channels : {Output(d), Level(d, "dry"), Level(d, "wet")} \cap open' # {} => d \in open'
    BY <1>1 DEF IInv, Lives, Output, Level
  <2>3. \A t \in Taps \cap open' : Line[t] \in open'
    BY <1>1, <2>1 DEF IInv, Lives
  <2>4. Lives'
    BY <1>1, <2>1, <2>2, <2>3 DEF IInv, Lives
  <2>5. open' \subseteq Objects
    BY <1>1 DEF IInv, Typed, Objects, Lendable
  <2> QED
    BY <1>1, <2>4, <2>5, CreateKeeps
<1>2. ASSUME NEW c \in Channels, CreateOutput(c) PROVE IInv'
  BY <1>1, <1>2 DEF CreateOutput, Lendable, Outputs
<1>3. ASSUME NEW c \in Channels, NEW kind \in {"dry", "wet"}, CreateLevel(c, kind) PROVE IInv'
  BY <1>1, <1>3 DEF CreateLevel, Lendable, Levels
<1>4. ASSUME NEW c \in Channels, NEW s \in Sources, AddSource(c, s) PROVE IInv'
  <2> DEFINE R == RoutesOf(s)
             G == Undone(R)
             w == <<c, "source", s>>
  <2>1. PICK grows \in BOOLEAN :
          LET new == IF grows THEN {w} ELSE {}
          IN /\ holds' = (holds \ R) \cup new
             /\ heldBy' = (heldBy \ R) \cup new
             /\ native' = (native \ G) \cup {NativeEdge(e) : e \in new}
    BY <1>4 DEF AddSource
  <2> DEFINE A == IF grows THEN {w} ELSE {}
  <2>2. /\ holds' = (holds \ R) \cup A /\ heldBy' = (heldBy \ R) \cup A
        /\ native' = (native \ G) \cup Natives(A)
    BY <2>1 DEF Natives
  <2>3. Routable(c, s) /\ UNCHANGED <<planned, open, freed, panicked>>
    BY <1>4 DEF AddSource
  <2>4. R = {e \in holds : Used(e) = s /\ e[2] = "source"} /\ R \in SUBSET holds
    BY DEF RoutesOf, UsersOf, IInv, Sides
  <2>5. w \in Wires /\ A \in SUBSET Wires /\ (\A a, b \in A : a = b) /\ (\A a \in A : a = w)
    BY DEF Wires
  <2>6. \A f \in holds : NativeEdge(f) \in G <=> f \in R
    BY <2>4, UndoneIs DEF IInv
  <2>7. \A f \in holds : f[2] \in Heard /\ Used(f) = s => f \in R
    BY <2>3, <2>4 DEF Routable, VoiceOf, UsersOf, IInv, Sides, Heard
  <2>8. ASSUME NEW a \in A
        PROVE /\ SlotOf(a) \notin Untracked
              /\ a[2] \notin Many => InSlot(holds, SlotOf(a)) \subseteq R
              /\ a[2] \in Heard => \A f \in holds : f[2] \in Heard /\ Used(f) = Used(a) => f \in R
              /\ a[2] \in Indexes => \A f \in holds : User(f) = User(a) /\ Used(f) = Used(a) => f \in R
              /\ \A o \in Channels : a[2] = "source" /\ a[3] = Output(o) => ~ChannelReaches(a[1], o)
    <3>1. a = w /\ a[1] = c /\ a[2] = "source" /\ a[3] = s /\ Used(a) = s
      BY <2>5 DEF Used
    <3>2. SlotOf(a) \notin Untracked
      BY <3>1, HeardIsTracked DEF Heard
    <3>3. "source" \in Many /\ "source" \notin Indexes
      BY GraphShape DEF SlotNames, Many
    <3> QED
      BY <2>3, <2>7, <3>1, <3>2, <3>3 DEF Routable
  <2>9. \A f \in holds' : User(f) \in open' /\ Used(f) \in open'
    BY <2>2, <2>3, <2>5 DEF IInv, Held, User, Used, Routable
  <2>10. panicked' = FALSE /\ freed' \subseteq Owned /\ open' \subseteq Objects /\ planned' \subseteq planned
    BY <2>3 DEF IInv, Typed
  <2>11. Lives'
    BY <2>3, LivesStays DEF IInv
  <2> HIDE DEF R, A, G
  <2> QED
    BY <2>2, <2>4, <2>5, <2>6, <2>8, <2>9, <2>10, <2>11, ChangeKeeps
<1>5. ASSUME NEW e \in holds, holds' = holds \ {e}, heldBy' = heldBy \ {e}, native' = native \ Undone({e}),
             UNCHANGED <<planned, open, freed, panicked>>
      PROVE  IInv'
  <2>1. freed' \subseteq Owned /\ Lives'
    BY <1>5, LivesStays DEF IInv, Typed
  <2>2. \A f \in holds \ {e} : User(f) \in open' /\ Used(f) \in open'
    BY <1>5 DEF IInv, Held
  <2> QED
    BY <1>5, <2>1, <2>2, DetachKeeps
<1>6. ASSUME NEW c \in Channels, NEW s \in Sources, RemoveSource(c, s) PROVE IInv'
  BY <1>5, <1>6 DEF RemoveSource
<1>7. ASSUME NEW c \in Channels, NEW s \in PcmSources, NewPCMCallbackSource(c, s) PROVE IInv'
  <2> DEFINE w == <<c, "source", s>>
  <2>1. /\ c \in open /\ s \in planned /\ planned' = planned \ {s} /\ open' = open \cup {s}
        /\ Attach(w) /\ UNCHANGED <<freed, panicked>>
    BY <1>7 DEF NewPCMCallbackSource
  <2>2. s \in Sounding /\ s \in Objects /\ s \notin Channels /\ s \notin Lendable /\ s \notin open \cup freed
    BY <2>1, GraphShape DEF Sounding, Objects, Owned, Lendable, IInv, Lives
  <2>3. w \in Wires
    BY <2>2 DEF Wires, Sources
  <2>4. Lives'
    <3>1. \A d \in Channels : {Output(d), Level(d, "dry"), Level(d, "wet")} \subseteq Lendable
      BY DEF Lendable, Outputs, Levels
    <3>2. \A d \in Channels : {Output(d), Level(d, "dry"), Level(d, "wet")} \cap open' # {} => d \in open'
      BY <2>1, <2>2, <3>1 DEF IInv, Lives
    <3>3. \A t \in Taps \cap open' : Line[t] \in open'
      BY <2>1, GraphShape DEF IInv, Lives
    <3> QED
      BY <2>1, <2>2, <3>2, <3>3 DEF IInv, Lives
  <2>5. /\ \A f \in holds : Used(f) # s
        /\ \A o \in Channels : s # Output(o)
    BY <2>2 DEF IInv, Held, Lendable, Outputs
  <2> QED
    BY <2>1, <2>2, <2>3, <2>4, <2>5, AttachKeeps DEF Many, IInv, Typed
<1>8. ASSUME NEW c \in Channels, NEW x \in Effects, AddEffect(c, x) PROVE IInv'
  <2> DEFINE w == <<c, "effect", x>>
  <2>1. w \in Wires
    BY DEF Wires
  <2>2. c \in open /\ x \in open /\ Attach(w) /\ UNCHANGED <<planned, open, freed, panicked>>
    BY <1>8 DEF AddEffect
  <2>3. Lives'
    BY <2>2, LivesStays DEF IInv
  <2> QED
    BY <2>1, <2>2, <2>3, AttachKeeps DEF Many, Heard, IInv, Typed
<1>9. ASSUME NEW c \in Channels, NEW x \in Effects, RemoveEffect(c, x) PROVE IInv'
  BY <1>5, <1>9 DEF RemoveEffect
<1>10. ASSUME NEW t \in Taps, AddTap(t) PROVE IInv'
  <2>1. /\ t \in planned /\ Line[t] \in open /\ planned' = planned \ {t} /\ open' = open \cup {t}
        /\ UNCHANGED <<freed, holds, heldBy, native, panicked>>
    BY <1>10 DEF AddTap
  <2>2. t \in Objects /\ t \notin Lendable /\ t \notin open \cup freed
    BY <2>1, GraphShape DEF Sounding, Objects, Owned, Lendable, IInv, Lives
  <2>3. \A d \in Channels : {Output(d), Level(d, "dry"), Level(d, "wet")} \subseteq Lendable
    BY DEF Lendable, Outputs, Levels
  <2>4. Lives'
    BY <2>1, <2>2, <2>3 DEF IInv, Lives
  <2> QED
    BY <2>1, <2>2, <2>4, CreateKeeps DEF IInv, Typed
<1> QED
  BY <1>2, <1>3, <1>4, <1>6, <1>7, <1>8, <1>9, <1>10 DEF Connect

LEMMA ModulateKeeps ==
  ASSUME OneWrapper, IInv, ~panicked, Modulate
  PROVE  IInv'
<1>1. ASSUME NEW slot \in Parameters, NEW s \in AnySignal \cup {None}
      PROVE  /\ slot = <<slot[1], slot[2]>> /\ slot[1] \in Channels \cup Owned
             /\ slot[2] \notin Many \cup Indexes
             /\ s # None => <<slot[1], slot[2], s>> \in Wires /\ s \in AnySignal
  <2>1. /\ slot = <<slot[1], slot[2]>> /\ slot[1] \in Channels \cup Owned
        /\ slot[2] \notin Many \cup Indexes
    BY GraphShape DEF SlotNames
  <2>2. ASSUME s # None PROVE <<slot[1], slot[2], s>> \in Wires /\ s \in AnySignal
    BY <2>2 DEF Wires
  <2> QED
    BY <2>1, <2>2
<1>2. ASSUME NEW slot \in Parameters, NEW s \in AnySignal \cup {None}, SetModulator(slot, s) PROVE IInv'
  <2>1. /\ slot \notin Untracked /\ slot[1] \in open /\ s \in (open \cap AnySignal) \cup {None}
        /\ holds' = (holds \ InSlot(holds, slot)) \cup Put(slot, s)
        /\ heldBy' = (heldBy \ InSlot(holds, slot)) \cup Put(slot, s)
        /\ native' = Replaced(slot) \cup PutNative(slot, s)
        /\ UNCHANGED <<planned, open, freed, panicked>>
    BY <1>2 DEF SetModulator
  <2>2. /\ slot = <<slot[1], slot[2]>> /\ slot[1] \in Channels \cup Owned
        /\ slot[2] \notin Many \cup Indexes
        /\ s # None => <<slot[1], slot[2], s>> \in Wires
    BY <1>1
  <2> QED
    BY <2>1, <2>2, PutKeeps
<1>3. ASSUME NEW slot \in Parameters, NEW s \in AnySignal \cup {None}, SetClosedModulator(slot, s) PROVE IInv'
  <2>1. /\ holds' = (holds \ InSlot(holds, slot)) \cup Put(slot, s)
        /\ heldBy' \subseteq heldBy /\ native' \subseteq native /\ panicked' = TRUE
        /\ UNCHANGED <<planned, open, freed>>
    BY <1>3 DEF SetClosedModulator, Replaced
  <2>2. Typed'
    BY <1>1, <2>1 DEF IInv, Typed, Put
  <2>3. NativeKept
    BY FromSides DEF IInv
  <2>4. NothingDangling'
    BY <2>1, <2>3 DEF NativeKept, NothingDangling, Dangling, Tracked, Dead
  <2>5. HeardOnce'
    BY <2>1, <2>3 DEF NativeKept, HeardOnce
  <2>6. NoCycle'
    BY <2>1, <2>3 DEF NativeKept, NoCycle, Feeds
  <2>7. Lives'
    BY <2>1, LivesStays DEF IInv
  <2> QED
    BY <2>1, <2>2, <2>4, <2>5, <2>6, <2>7 DEF IInv, NativeKept
<1>4. ASSUME NEW slot \in Parameters, NEW s \in AnySignal \cup {None}, SetParameterModulator(slot, s) PROVE IInv'
  <2>1. /\ slot \in Untracked /\ native' = Replaced(slot) \cup PutNative(slot, s)
        /\ UNCHANGED <<planned, open, freed, holds, heldBy, panicked>>
    BY <1>4 DEF SetParameterModulator
  <2>2. slot = <<slot[1], slot[2]>> /\ Native(slot[1]) = slot[1]
    <3>1. slot[1] \in Synths
      BY <2>1, GraphShape
    <3>2. slot[1] \in Owned \ Channels
      BY <3>1, GraphShape DEF Owned, Sounding
    <3> QED
      BY <1>1, <3>2, NativeIs
  <2>3. Tracked(native') = Tracked(native)
    <3>1. \A n \in PutNative(slot, s) : SlotOf(n) \in Untracked
      BY <2>1, <2>2 DEF PutNative, Put, SlotOf, NativeEdge
    <3>2. \A n \in native : SlotOf(n) \notin Untracked => n \in Replaced(slot)
      BY <2>1, <2>2 DEF Replaced, InSlot
    <3>3. Replaced(slot) \subseteq native
      BY DEF Replaced
    <3> QED
      BY <2>1, <3>1, <3>2, <3>3 DEF Tracked
  <2>4. Sides'
    BY <2>1, <2>3 DEF IInv, Sides, Tracked, Natives
  <2>5. Typed' /\ Lives'
    BY <2>1, LivesStays DEF IInv, Typed
  <2>6. Acyclic'
    BY <2>1 DEF IInv, Held, Acyclic
  <2>7. Held'
    BY <2>1, <2>6 DEF IInv, Held
  <2> QED
    BY <2>1, <2>4, <2>5, <2>7 DEF IInv
<1>5. ASSUME NEW p \in Players, NEW a \in Samples, SetSample(p, a) PROVE IInv'
  <2> DEFINE slot == <<p, "sample">>
  <2>1. /\ p \in open /\ a \in open
        /\ holds' = (holds \ InSlot(holds, slot)) \cup Put(slot, a)
        /\ heldBy' = (heldBy \ InSlot(holds, slot)) \cup Put(slot, a)
        /\ native' = Replaced(slot) \cup PutNative(slot, a)
        /\ UNCHANGED <<planned, open, freed, panicked>>
    BY <1>5 DEF SetSample
  <2>2. /\ p \in Channels \cup Owned /\ <<p, "sample", a>> \in Wires
        /\ "sample" \notin Many /\ "sample" \notin Indexes /\ slot \notin Untracked
    BY GraphShape, GraphAssumption DEF Owned, Sounding, Wires, Many, SlotNames
  <2> HIDE DEF slot
  <2> QED
    BY <2>1, <2>2, PutKeeps DEF slot
<1> QED
  BY <1>2, <1>3, <1>4, <1>5 DEF Modulate

LEMMA ComposeKeeps ==
  ASSUME OneWrapper, SharedTracks = FALSE, IInv, ~panicked, Compose
  PROVE  IInv'
<1>1. ASSUME NEW i \in Instruments, NEW s \in Synths, AddVoice(i, s) PROVE IInv'
  <2> DEFINE w == <<i, "voice", s>>
  <2>1. /\ i \in open /\ s \in open /\ RoutesOf(s) = {} /\ VoiceOf(s) = {}
        /\ Attach(w) /\ UNCHANGED <<planned, open, freed, panicked>>
    BY <1>1 DEF AddVoice
  <2>2. w \in Wires
    BY DEF Wires
  <2>3. \A f \in holds : f[2] \in Heard => Used(f) # s
    BY <2>1 DEF RoutesOf, VoiceOf, UsersOf, IInv, Sides, Heard
  <2>4. Lives'
    BY <2>1, LivesStays DEF IInv
  <2> QED
    BY <2>1, <2>2, <2>3, <2>4, AttachKeeps DEF Many, IInv, Typed
<1>2. ASSUME NEW t \in Tracks, NEW i \in Instruments \cup {None}, SetInstrument(t, i) PROVE IInv'
  <2> DEFINE slot == <<t, "instrument">>
  <2>1. /\ t \in open /\ i \in open \cup {None}
        /\ holds' = (holds \ InSlot(holds, slot)) \cup Put(slot, i)
        /\ heldBy' = (heldBy \ InSlot(holds, slot)) \cup Put(slot, i)
        /\ native' = Replaced(slot) \cup PutNative(slot, i)
        /\ UNCHANGED <<planned, open, freed, panicked>>
    BY <1>2 DEF SetInstrument
  <2>2. /\ t \in Channels \cup Owned /\ (i # None => <<t, "instrument", i>> \in Wires)
        /\ "instrument" \notin Many /\ "instrument" \notin Indexes /\ slot \notin Untracked
    BY GraphShape, GraphAssumption DEF Owned, Wires, Many, SlotNames
  <2> HIDE DEF slot
  <2> QED
    BY <2>1, <2>2, PutKeeps DEF slot
<1>3. ASSUME NEW q \in Sequences, NEW index \in Indexes, NEW t \in Tracks \cup {None}, SetTrack(q, index, t)
      PROVE  IInv'
  <2> DEFINE slot == <<q, index>>
             old == InSlot(holds, slot)
  <2>1. /\ q \in open /\ t \in open \cup {None}
        /\ {e \in UsersOf(holds, t) : User(e) = q} \subseteq old
        /\ holds' = (holds \ old) \cup Put(slot, t)
        /\ heldBy' = (heldBy \ UNION {Forgotten(q, x) : x \in {t} \cup {Used(e) : e \in old}}) \cup Put(slot, t)
        /\ native' = Replaced(slot) \cup PutNative(slot, t)
        /\ UNCHANGED <<planned, open, freed, panicked>>
    BY <1>3 DEF SetTrack
  <2>2. heldBy = holds
    BY DEF IInv, Sides
  <2>3. \A e \in old : User(e) = q /\ e[2] = index /\ e \in holds
    BY DEF InSlot, SlotOf, User
  <2>4. UNION {Forgotten(q, x) : x \in {t} \cup {Used(e) : e \in old}} = old
    <3>1. ASSUME NEW x \in {t} \cup {Used(e) : e \in old}, NEW f \in Forgotten(q, x) PROVE f \in old
      <4>1. f \in holds /\ User(f) = q /\ Used(f) = x
        BY <2>2 DEF Forgotten
      <4>2. CASE x = t
        BY <2>1, <4>1, <4>2 DEF UsersOf
      <4>3. CASE \E e \in old : x = Used(e)
        <5>1. PICK e \in old : x = Used(e)
          BY <4>3
        <5>2. e = f
          BY <2>3, <4>1, <5>1 DEF IInv, Held
        <5> QED
          BY <5>1, <5>2
      <4> QED
        BY <4>2, <4>3
    <3>2. ASSUME NEW e \in old PROVE e \in Forgotten(q, Used(e))
      BY <2>2, <2>3 DEF Forgotten
    <3> QED
      BY <3>1, <3>2
  <2>5. heldBy' = (heldBy \ old) \cup Put(slot, t)
    BY <2>1, <2>4
  <2>6. /\ q \in Channels \cup Owned /\ (t # None => <<q, index, t>> \in Wires)
        /\ index \notin Many
    BY GraphShape DEF Owned, Wires, SlotNames
  <2>7. slot \notin Untracked
    BY GraphShape, GraphAssumption
  <2>8. \A e \in holds : User(e) = q /\ Used(e) = t => e \in InSlot(holds, slot)
    BY <2>1 DEF UsersOf
  <2> HIDE DEF slot
  <2> QED
    BY <2>1, <2>5, <2>6, <2>7, <2>8, PutKeeps DEF slot
<1> QED
  BY <1>1, <1>2, <1>3 DEF Compose

LEMMA ClosingKeeps ==
  ASSUME OneWrapper, IInv, ~panicked, Closing
  PROVE  IInv'
<1>1. ASSUME NEW x, x \in open, x \notin Channels, x \notin Effects, Close({x}) PROVE IInv'
  <2>1. \A t \in Taps : Line[t] \in Effects
    BY GraphAssumption
  <2> QED
    BY <1>1, <2>1, CloseKeeps
<1>2. ASSUME NEW s \in AnySignal, CloseSignal(s) PROVE IInv'
  BY <1>1, <1>2, GraphShape DEF CloseSignal
<1>3. ASSUME NEW c \in Channels, CloseChannel(c) PROVE IInv'
  <2> DEFINE S == {c} \cup (open \cap {Output(c), Level(c, "dry"), Level(c, "wet")})
  <2>1. c \in open /\ Close(S) /\ S \in SUBSET open
    BY <1>3 DEF CloseChannel
  <2>2. \A x \in S : x = c \/ x \in Lendable
    BY DEF Lendable, Outputs, Levels
  <2>3. S \cap Channels = {c} /\ S \cap Effects = {}
    BY <2>2, GraphShape DEF Lendable, Owned
  <2>4. \A t \in Taps : Line[t] \in Effects
    BY GraphAssumption
  <2>5. \A d \in S \cap Channels : {Output(d), Level(d, "dry"), Level(d, "wet")} \cap open \subseteq S
    BY <2>3
  <2>6. \A t \in Taps \cap open : Line[t] \in S => t \in S
    BY <2>3, <2>4
  <2> HIDE DEF S
  <2> QED
    BY <2>1, <2>5, <2>6, CloseKeeps
<1>4. ASSUME NEW p \in Sounding, ClosePlayer(p) PROVE IInv'
  BY <1>1, <1>4, GraphShape DEF ClosePlayer
<1>5. ASSUME NEW x \in Effects, CloseEffect(x) PROVE IInv'
  <2> DEFINE S == {x} \cup {t \in open \cap Taps : Line[t] = x /\ Closable(t)}
  <2>1. x \in open /\ Close(S) /\ S \in SUBSET open
    BY <1>5 DEF CloseEffect
  <2>2. \A t : Closable(t)
    BY DEF Closable, RoutesOf, UsersOf, IInv, Sides, Tracked, Natives
  <2>3. S \cap Channels = {} /\ S \cap Effects = {x}
    BY GraphShape DEF Sounding
  <2>4. \A t \in Taps \cap open : Line[t] \in S => t \in S
    BY <2>2, <2>3, GraphAssumption
  <2>5. \A d \in S \cap Channels : {Output(d), Level(d, "dry"), Level(d, "wet")} \cap open \subseteq S
    BY <2>3
  <2> HIDE DEF S
  <2> QED
    BY <2>1, <2>4, <2>5, CloseKeeps
<1>6. ASSUME NEW a \in Samples, CloseSample(a) PROVE IInv'
  BY <1>1, <1>6, GraphShape DEF CloseSample
<1>7. ASSUME NEW t \in Tracks, CloseTrack(t) PROVE IInv'
  BY <1>1, <1>7, GraphShape DEF CloseTrack
<1>8. ASSUME NEW q \in Sequences, CloseSequence(q) PROVE IInv'
  BY <1>1, <1>8, GraphShape DEF CloseSequence
<1> QED
  BY <1>2, <1>3, <1>4, <1>5, <1>6, <1>7, <1>8 DEF Closing

LEMMA StartHolds ==
  ASSUME NEW scene \in SUBSET Objects,
         planned = scene \cap (Taps \cup PcmSources \cup Outputs \cup Levels), open = scene \ planned,
         freed = {}, holds = {}, heldBy = {}, native = {}, panicked = FALSE
  PROVE  IInv
<1>1. Typed
  BY DEF Typed
<1>2. Lives
  BY DEF Lives, Outputs, Levels
<1>3. Sides
  BY DEF Sides, Tracked, Natives
<1>4. Held
  BY DEF Held, Acyclic
<1> QED
  BY <1>1, <1>2, <1>3, <1>4 DEF IInv

LEMMA InitHolds ==
  ASSUME Init
  PROVE  IInv
BY StartHolds, GraphShape DEF Init

LEMMA StepKeeps ==
  ASSUME OneWrapper, SharedTracks = FALSE, IInv, [Next]_vars
  PROVE  IInv'
<1>1. CASE Next
  BY <1>1, ConnectKeeps, ModulateKeeps, ComposeKeeps, ClosingKeeps DEF Next
<1>2. CASE UNCHANGED vars
  <2>1. UNCHANGED <<planned, open, freed, holds, heldBy, native, panicked>>
    BY <1>2 DEF vars
  <2>2. Typed' /\ Lives'
    BY <2>1, LivesStays DEF IInv, Typed
  <2>3. Sides /\ Held => Sides' /\ Held'
    BY <2>1 DEF Sides, Tracked, Natives, Held, Acyclic
  <2>4. NativeKept => NativeKept'
    BY <2>1 DEF NativeKept, NothingDangling, Dangling, Tracked, Dead, HeardOnce, NoCycle, Feeds
  <2> QED
    BY <2>1, <2>2, <2>3, <2>4 DEF IInv
<1> QED
  BY <1>1, <1>2

LEMMA InvariantHolds ==
  ASSUME OneWrapper, SharedTracks = FALSE
  PROVE  Spec => []IInv
<1>1. Init => IInv
  BY InitHolds
<1>2. IInv /\ [Next]_vars => IInv'
  BY StepKeeps
<1> QED
  BY <1>1, <1>2, PTL DEF Spec

(* The invariant says what the properties do. *)
LEMMA Means ==
  ASSUME OneWrapper, IInv
  PROVE  /\ TypeOK /\ SidesAgree /\ HeardOnce /\ NoCycle
         /\ NothingDangling /\ CallsReachLiveObjects
<1>1. TypeOK
  BY WireEnds, GraphAssumption DEF IInv, Typed, Lives, TypeOK, UsedObjects, User, Used
<1>2. SidesAgree
  BY DEF IInv, Sides, SidesAgree, Natives
<1>3. HeardOnce /\ NoCycle /\ NothingDangling
  BY FromSides DEF IInv, NativeKept
<1>4. CallsReachLiveObjects
  <2> SUFFICES ASSUME NEW x \in Callable
               PROVE  x \notin Dead /\ (x \in Taps => Line[x] \notin Dead)
    BY DEF CallsReachLiveObjects
  <2>1. x \in open
    BY DEF Callable, PlaybackCalls, StreamCalls, ChannelCalls, SampleCalls, SignalCalls, SynthCalls, EffectCalls,
           InstrumentCalls, TrackCalls, SequenceCalls
  <2>2. ASSUME NEW y \in open PROVE y \notin Dead
    <3>1. CASE y \in Lendable
      <4>1. PICK c \in Channels : y \in {Output(c), Level(c, "dry"), Level(c, "wet")}
        BY <3>1 DEF Lendable, Outputs, Levels
      <4>2. y[2] = c /\ c \notin freed
        BY <4>1 DEF Output, Level, IInv, Lives
      <4> QED
        BY <4>2 DEF Dead, IInv, Lives
    <3>2. CASE y \notin Lendable
      BY <3>2 DEF Dead, Lendable, IInv, Lives
    <3> QED
      BY <3>1, <3>2
  <2> QED
    BY <2>1, <2>2 DEF IInv, Lives
<1> QED
  BY <1>1, <1>2, <1>3, <1>4

(* The wrappers' fields, the back references and the native graph agree    *)
(* (audio_graph.go:136), whatever sounds is heard at one place and no      *)
(* channels form a cycle (API.md:799, :800), for games that make one       *)
(* wrapper of the default channel and put a track under one index.         *)
THEOREM RecordsAgree ==
  ASSUME OneWrapper, SharedTracks = FALSE
  PROVE  Spec => [](TypeOK /\ SidesAgree /\ HeardOnce /\ NoCycle)
<1>1. IInv => TypeOK /\ SidesAgree /\ HeardOnce /\ NoCycle
  BY Means
<1> QED
  BY <1>1, InvariantHolds, PTL

(* No native object is freed while one that is alive points to it, in      *)
(* whatever order a game closes what it owns (audio_graph.go:136,          *)
(* runtime.go:896), and no call past the checks of its wrapper reaches a   *)
(* freed one.                                                              *)
THEOREM FreedIsUnused ==
  ASSUME OneWrapper, SharedTracks = FALSE
  PROVE  Spec => [](NothingDangling /\ CallsReachLiveObjects)
<1>1. IInv => NothingDangling /\ CallsReachLiveObjects
  BY Means
<1> QED
  BY <1>1, InvariantHolds, PTL

-----------------------------------------------------------------------------
(***************************************************************************)
(* Whole games.  What a game does, it does with the variables of one part; *)
(* the others wait, so a behaviour of the game is one of each part that    *)
(* has its variables to itself, and what is proved of the part holds.      *)
(***************************************************************************)
SoundFacts == INSTANCE RenderedAudioProofs WITH
  Sources <- Renderers, Slots <- Rings, Frames <- Rendered, ClosesItself <- FALSE,
  cells <- frames, faulted <- crashed

LentFacts == INSTANCE ScopesProofs WITH
  Frames <- LentImages, ClosesBorrowed <- FALSE, closed <- freedBitmaps, views <- given

game == <<subject, vars, display, completions, sound, scoped>>

LEMMA CompletesAlone == ObjectsSpec => CompletionSpec
<1>1. [ObjectsNext]_game => [CompletionNext]_completions
  BY DEF ObjectsNext, game
<1> QED
  BY <1>1, PTL DEF ObjectsSpec, ObjectsInit, CompletionSpec, game

LEMMA RendersAlone == ObjectsSpec => SoundFacts!Spec
<1>1. Sound!Init => SoundFacts!Init
  BY DEF Sound!Init, Sound!Voices, Sound!NoSource, Sound!Empty, Sound!Unset, Sound!Idle,
         SoundFacts!Init, SoundFacts!Voices, SoundFacts!NoSource, SoundFacts!Empty,
         SoundFacts!Unset, SoundFacts!Idle
<1>2. UNCHANGED sound => UNCHANGED SoundFacts!vars
  BY DEF sound, SoundFacts!vars, SoundFacts!ring, SoundFacts!locals
<1>3. Sound!Next => SoundFacts!Next
  BY DEF Sound!ring, Sound!locals, Sound!vars, Sound!Voices, Sound!Unset, Sound!NoSource,
         Sound!Idle, Sound!Empty, Sound!Of, Sound!Goes, Sound!AvailableIn, Sound!AvailableToLast,
         Sound!GameRuns, Sound!Allocated, Sound!Pool, Sound!Unused, Sound!New, Sound!Copy,
         Sound!Released, Sound!Shielded, Sound!Uncopy, Sound!Close, Sound!Discard, Sound!Load,
         Sound!Advance, Sound!Note, Sound!Shared, Sound!BeginRefill, Sound!Visits,
         Sound!VisitClosed, Sound!Visit, Sound!Skip, Sound!Room, Sound!AskRoom, Sound!Total,
         Sound!Call, Sound!Smaller, Sound!CallbackReturns, Sound!Write, Sound!Written,
         Sound!Full, Sound!NextSource, Sound!EndRefill, Sound!Refill, Sound!Next,
         Sound!Cardinality, Sound!SumFunction, Sound!SumFunctionOnSet, Sound!FoldFunctionOnSet,
         Sound!MapThenFoldSet, SoundFacts!ring, SoundFacts!locals, SoundFacts!vars,
         SoundFacts!Voices, SoundFacts!Unset, SoundFacts!NoSource, SoundFacts!Idle,
         SoundFacts!Empty, SoundFacts!Of, SoundFacts!Goes, SoundFacts!AvailableIn,
         SoundFacts!AvailableToLast, SoundFacts!GameRuns, SoundFacts!Allocated, SoundFacts!Pool,
         SoundFacts!Unused, SoundFacts!New, SoundFacts!Copy, SoundFacts!Released,
         SoundFacts!Shielded, SoundFacts!Uncopy, SoundFacts!Close, SoundFacts!Discard,
         SoundFacts!Load, SoundFacts!Advance, SoundFacts!Note, SoundFacts!Shared,
         SoundFacts!BeginRefill, SoundFacts!Visits, SoundFacts!VisitClosed, SoundFacts!Visit,
         SoundFacts!Skip, SoundFacts!Room, SoundFacts!AskRoom, SoundFacts!Total, SoundFacts!Call,
         SoundFacts!Smaller, SoundFacts!CallbackReturns, SoundFacts!Write, SoundFacts!Written,
         SoundFacts!Full, SoundFacts!NextSource, SoundFacts!EndRefill, SoundFacts!Refill,
         SoundFacts!Next, SoundFacts!Cardinality, SoundFacts!SumFunction,
         SoundFacts!SumFunctionOnSet, SoundFacts!FoldFunctionOnSet, SoundFacts!MapThenFoldSet
<1>4. [ObjectsNext]_game => [SoundFacts!Next]_SoundFacts!vars
  BY <1>2, <1>3 DEF ObjectsNext, game
<1> QED
  BY <1>1, <1>4, PTL DEF ObjectsSpec, ObjectsInit, SoundFacts!Spec, game

LEMMA LendsAlone == ObjectsSpec => LentFacts!Spec
<1>1. Lent!Init => LentFacts!Init
  BY DEF Lent!Init, LentFacts!Init
<1>2. UNCHANGED scoped => UNCHANGED LentFacts!scoped
  BY DEF scoped, LentFacts!scoped
<1>3. Lent!Next => LentFacts!Next
  BY DEF Lent!Rows, Lent!Clean, Lent!Live, Lent!Enter, Lent!GivenView, Lent!WithFramebuffer,
         Lent!WithBitmapData, Lent!DrawInto, Lent!WithStencil, Lent!Expire, Lent!Restore,
         Lent!Unmask, Lent!Return, Lent!MarkDirtyRows, Lent!Usable, Lent!SetPixel, Lent!MarkRows,
         Lent!Draw, Lent!Close, Lent!Next, Lent!Front, Lent!Last, LentFacts!Rows,
         LentFacts!Clean, LentFacts!Live, LentFacts!Enter, LentFacts!GivenView,
         LentFacts!WithFramebuffer, LentFacts!WithBitmapData, LentFacts!DrawInto,
         LentFacts!WithStencil, LentFacts!Expire, LentFacts!Restore, LentFacts!Unmask,
         LentFacts!Return, LentFacts!MarkDirtyRows, LentFacts!Usable, LentFacts!SetPixel,
         LentFacts!MarkRows, LentFacts!Draw, LentFacts!Close, LentFacts!Next, LentFacts!Front,
         LentFacts!Last
<1>4. [ObjectsNext]_game => [LentFacts!Next]_LentFacts!scoped
  BY <1>2, <1>3 DEF ObjectsNext, game
<1> QED
  BY <1>1, <1>4, PTL DEF ObjectsSpec, ObjectsInit, LentFacts!Spec, game

(* In every game, no callback of a closed source is called and nothing is  *)
(* written to a voice that is no longer the source's.                      *)
THEOREM GamesCloseSilently == ObjectsSpec => []ClosedIsSilent
<1>1. SoundFacts!Spec => []SoundFacts!ClosedIsSilent
  BY SoundFacts!ClosedStaySilent, ObjectsAssumption DEF Sound!RenderAssumption, SoundFacts!RenderAssumption
<1>2. SoundFacts!ClosedIsSilent => ClosedIsSilent
  BY DEF SoundFacts!ClosedIsSilent, ClosedIsSilent, Sound!ClosedIsSilent
<1> QED
  BY <1>1, <1>2, RendersAlone, PTL

(* In every game, a callback that runs is that of the oldest completion,   *)
(* and what was rendered is heard in its order.                            *)
THEOREM GamesSoundInOrder == ObjectsSpec => SoundInOrder
<1>1. CompletionSpec => OneShotsRunOnce
  BY OneShotsAreOnce, ObjectsAssumption
<1>2. SoundFacts!Spec => SoundFacts!PlaysInOrder
  BY SoundFacts!HeardInOrder, ObjectsAssumption DEF Sound!RenderAssumption, SoundFacts!RenderAssumption
<1>3. SoundFacts!PlaysInOrder => Sound!PlaysInOrder
  BY PTL DEF SoundFacts!PlaysInOrder, Sound!PlaysInOrder, Sound!Voices, Sound!Idle, Sound!NoSource, Sound!vars, Sound!ring, Sound!locals,
         SoundFacts!Voices, SoundFacts!Idle, SoundFacts!NoSource, SoundFacts!vars,
         SoundFacts!ring, SoundFacts!locals
<1> QED
  BY <1>1, <1>2, <1>3, CompletesAlone, RendersAlone, PTL DEF SoundInOrder

-----------------------------------------------------------------------------
(* What a game does to the audio graph and to what it draws: one of them   *)
(* is empty, and nothing of it changes.                                    *)
DrawingFacts == INSTANCE DisplayProofs WITH
  Of <- GuestOf, Scenes <- Drawings, Limit <- CallbackLimit, BorrowedMasks <- FALSE, GuestsListed <- FALSE

GameInv ==
  /\ subject # "display" => IInv
  /\ subject # "audio" => DrawingFacts!IInv

LEMMA DrawingAssumption == DrawingFacts!DisplayAssumption
BY ObjectsAssumption DEF Display!Frame, Display!Glyph, Display!Lent, Display!OwnedBitmaps, Display!Wrappers,
         Display!Owned, Display!Objects, Display!DisplayAssumption, DrawingFacts!Frame,
         DrawingFacts!Glyph, DrawingFacts!Lent, DrawingFacts!OwnedBitmaps, DrawingFacts!Wrappers,
         DrawingFacts!Owned, DrawingFacts!Objects, DrawingFacts!DisplayAssumption

LEMMA GameStarts == ObjectsInit => GameInv
<1> SUFFICES ASSUME ObjectsInit PROVE GameInv
  OBVIOUS
<1>1. CASE subject = "audio"
  BY <1>1, InitHolds DEF ObjectsInit, GameInv
<1>2. CASE subject = "display"
  <2>1. Display!Init
    BY <1>2 DEF ObjectsInit
  <2>2. Display!Init => DrawingFacts!Init
    BY DEF Display!Frame, Display!Glyph, Display!Lent, Display!OwnedBitmaps, Display!AnyBitmap,
         Display!Counted, Display!Init, DrawingFacts!Frame, DrawingFacts!Glyph,
         DrawingFacts!Lent, DrawingFacts!OwnedBitmaps, DrawingFacts!AnyBitmap,
         DrawingFacts!Counted, DrawingFacts!Init
  <2> QED
    BY <1>2, <2>1, <2>2, DrawingAssumption, DrawingFacts!InitHolds DEF GameInv
<1>3. CASE subject \notin {"audio", "display"}
  <2>1. GraphAtRest /\ DisplayAtRest
    BY <1>3 DEF ObjectsInit
  <2>2. IInv
    <3>1. {} \in SUBSET Objects
      OBVIOUS
    <3> QED
      BY <2>1, <3>1, StartHolds DEF GraphAtRest
  <2>3. DrawingFacts!IInv
    <3>1. {} \in SUBSET DrawingFacts!Objects
      OBVIOUS
    <3>2. users = [k \in DrawingFacts!Counted |-> 0]
      BY <2>1 DEF DisplayAtRest, Display!Frame, Display!Glyph, Display!Lent, Display!OwnedBitmaps, Display!AnyBitmap,
         Display!Counted, DrawingFacts!Frame, DrawingFacts!Glyph, DrawingFacts!Lent,
         DrawingFacts!OwnedBitmaps, DrawingFacts!AnyBitmap, DrawingFacts!Counted
    <3> QED
      BY <2>1, <3>1, <3>2, DrawingAssumption, DrawingFacts!StartHolds DEF GraphAtRest, DisplayAtRest
  <2> QED
    BY <2>2, <2>3 DEF GameInv
<1> QED
  BY <1>1, <1>2, <1>3

LEMMA GameKeeps ==
  ASSUME OneWrapper, SharedTracks = FALSE, GameInv, [ObjectsNext]_game
  PROVE  GameInv'
<1>1. subject' = subject
  BY DEF ObjectsNext, game
<1>2. ASSUME UNCHANGED vars PROVE subject # "display" => IInv'
  BY <1>2, StepKeeps DEF GameInv
<1>3. ASSUME UNCHANGED <<vars, display>> PROVE subject # "audio" => DrawingFacts!IInv'
  <2>1. UNCHANGED DrawingFacts!vars
    BY <1>3 DEF vars, display, DrawingFacts!vars, DrawingFacts!images, DrawingFacts!list
  <2> QED
    BY <2>1, DrawingAssumption, DrawingFacts!StepKeeps DEF GameInv
<1>4. CASE subject = "audio"
  <2>1. [Next]_vars
    BY <1>4 DEF ObjectsNext, game
  <2> QED
    BY <1>1, <1>4, <2>1, StepKeeps DEF GameInv
<1>5. CASE subject = "display"
  <2>1. Display!Next => DrawingFacts!Next
    BY DEF Display!images, Display!list, Display!Frame, Display!Glyph, Display!Lent,
         Display!OwnedBitmaps, Display!AnyBitmap, Display!Wrappers, Display!Sprite,
         Display!Kinds, Display!Counted, Display!Create, Display!Counting, Display!Hold,
         Display!Natively, Display!CreateFrame, Display!CreateGlyph, Display!Parents,
         Display!Live, Display!MayMask, Display!BitmapMask, Display!SetBitmapMask,
         Display!ClearBitmapMask, Display!Lender, Display!Storage, Display!Shown, Display!Close,
         Display!CloseBitmap, Display!CloseTable, Display!CloseFont, Display!SetContext,
         Display!UseScreenContext, Display!CloseVideo, Display!NewTileMap, Display!SetTileMap,
         Display!ClearTileMap, Display!CloseTileMap, Display!SetImage, Display!ClearStencil,
         Display!Query, Display!SetSpritesAdded, Display!RemoveAll, Display!SetCallback,
         Display!CallbacksOf, Display!Forgotten, Display!ReleaseSprite, Display!CloseSprite,
         Display!Draw, Display!Arrange, Display!Next, Display!User, Display!SlotOf, Display!Used,
         Display!UsedBy, Display!InSlot, Display!Cardinality, DrawingFacts!images,
         DrawingFacts!list, DrawingFacts!Frame, DrawingFacts!Glyph, DrawingFacts!Lent,
         DrawingFacts!OwnedBitmaps, DrawingFacts!AnyBitmap, DrawingFacts!Wrappers,
         DrawingFacts!Sprite, DrawingFacts!Kinds, DrawingFacts!Counted, DrawingFacts!Create,
         DrawingFacts!Counting, DrawingFacts!Hold, DrawingFacts!Natively,
         DrawingFacts!CreateFrame, DrawingFacts!CreateGlyph, DrawingFacts!Parents,
         DrawingFacts!Live, DrawingFacts!MayMask, DrawingFacts!BitmapMask,
         DrawingFacts!SetBitmapMask, DrawingFacts!ClearBitmapMask, DrawingFacts!Lender,
         DrawingFacts!Storage, DrawingFacts!Shown, DrawingFacts!Close, DrawingFacts!CloseBitmap,
         DrawingFacts!CloseTable, DrawingFacts!CloseFont, DrawingFacts!SetContext,
         DrawingFacts!UseScreenContext, DrawingFacts!CloseVideo, DrawingFacts!NewTileMap,
         DrawingFacts!SetTileMap, DrawingFacts!ClearTileMap, DrawingFacts!CloseTileMap,
         DrawingFacts!SetImage, DrawingFacts!ClearStencil, DrawingFacts!Query,
         DrawingFacts!SetSpritesAdded, DrawingFacts!RemoveAll, DrawingFacts!SetCallback,
         DrawingFacts!CallbacksOf, DrawingFacts!Forgotten, DrawingFacts!ReleaseSprite,
         DrawingFacts!CloseSprite, DrawingFacts!Draw, DrawingFacts!Arrange, DrawingFacts!Next,
         DrawingFacts!User, DrawingFacts!SlotOf, DrawingFacts!Used, DrawingFacts!UsedBy,
         DrawingFacts!InSlot, DrawingFacts!Cardinality
  <2>2. Display!Next \/ UNCHANGED <<vars, display>>
    BY <1>5 DEF ObjectsNext, game
  <2>3. ASSUME Display!Next PROVE DrawingFacts!IInv'
    BY <1>5, <2>1, <2>3, DrawingAssumption, DrawingFacts!StepKeeps DEF GameInv
  <2> QED
    BY <1>1, <1>3, <1>5, <2>2, <2>3 DEF GameInv
<1>6. CASE subject \notin {"audio", "display"}
  <2>1. UNCHANGED <<vars, display>>
    BY <1>6 DEF ObjectsNext, game
  <2> QED
    BY <1>1, <1>2, <1>3, <2>1 DEF GameInv
<1> QED
  BY <1>4, <1>5, <1>6

LEMMA GameInvHolds ==
  ASSUME OneWrapper, SharedTracks = FALSE
  PROVE  ObjectsSpec => []GameInv
<1>1. ObjectsInit => GameInv
  BY GameStarts
<1>2. GameInv /\ [ObjectsNext]_game => GameInv'
  BY GameKeeps
<1> QED
  BY <1>1, <1>2, PTL DEF ObjectsSpec, game

LEMMA DrawingMeans ==
  ASSUME GameInv, subject # "audio"
  PROVE  /\ Display!TypeOK /\ Display!UsersCounted /\ Display!SlotsCounted /\ Display!ListAgrees
         /\ Display!NothingDangling /\ Display!CallsReachLiveObjects
<1>1. /\ DrawingFacts!TypeOK /\ DrawingFacts!UsersCounted /\ DrawingFacts!SlotsCounted
      /\ DrawingFacts!ListAgrees /\ DrawingFacts!NothingDangling /\ DrawingFacts!CallsReachLiveObjects
  BY DrawingAssumption, DrawingFacts!Means DEF GameInv
<1>2. DrawingFacts!TypeOK => Display!TypeOK
  BY DEF Display!Frame, Display!Glyph, Display!Lent, Display!OwnedBitmaps, Display!AnyBitmap,
         Display!Wrappers, Display!Owned, Display!Objects, Display!Kinds, Display!Counted,
         Display!TypeOK, Display!User, Display!Used, DrawingFacts!Frame, DrawingFacts!Glyph,
         DrawingFacts!Lent, DrawingFacts!OwnedBitmaps, DrawingFacts!AnyBitmap,
         DrawingFacts!Wrappers, DrawingFacts!Owned, DrawingFacts!Objects, DrawingFacts!Kinds,
         DrawingFacts!Counted, DrawingFacts!TypeOK, DrawingFacts!User, DrawingFacts!Used
<1>3. DrawingFacts!UsersCounted => Display!UsersCounted
  BY DEF Display!Frame, Display!Glyph, Display!Lent, Display!OwnedBitmaps, Display!AnyBitmap,
         Display!Counted, Display!Counting, Display!UsersCounted, Display!User, Display!Used,
         Display!Cardinality, DrawingFacts!Frame, DrawingFacts!Glyph, DrawingFacts!Lent,
         DrawingFacts!OwnedBitmaps, DrawingFacts!AnyBitmap, DrawingFacts!Counted,
         DrawingFacts!Counting, DrawingFacts!UsersCounted, DrawingFacts!User, DrawingFacts!Used,
         DrawingFacts!Cardinality
<1>4. DrawingFacts!SlotsCounted => Display!SlotsCounted
  BY DEF Display!Kinds, Display!SlotsCounted, Display!Cardinality, DrawingFacts!Kinds,
         DrawingFacts!SlotsCounted, DrawingFacts!Cardinality
<1>5. DrawingFacts!ListAgrees => Display!ListAgrees
  BY DEF Display!ListAgrees, DrawingFacts!ListAgrees
<1>6. DrawingFacts!NothingDangling => Display!NothingDangling
  BY DEF Display!Frame, Display!Glyph, Display!Lent, Display!Parents, Display!Lender,
         Display!Storage, Display!Dead, Display!NothingDangling, Display!User, Display!Used,
         DrawingFacts!Frame, DrawingFacts!Glyph, DrawingFacts!Lent, DrawingFacts!Parents,
         DrawingFacts!Lender, DrawingFacts!Storage, DrawingFacts!Dead,
         DrawingFacts!NothingDangling, DrawingFacts!User, DrawingFacts!Used
<1>7. DrawingFacts!CallsReachLiveObjects => Display!CallsReachLiveObjects
  BY DEF Display!Frame, Display!Glyph, Display!Lent, Display!OwnedBitmaps, Display!AnyBitmap,
         Display!Wrappers, Display!Sprite, Display!Parents, Display!Live, Display!Lender,
         Display!Storage, Display!Dead, Display!BitmapCalls, Display!TableCalls,
         Display!FontCalls, Display!SpriteCalls, Display!TileMapCalls, Display!RenderFrame,
         Display!CallsReachLiveObjects, Display!User, Display!SlotOf, Display!Used,
         Display!InSlot, DrawingFacts!Frame, DrawingFacts!Glyph, DrawingFacts!Lent,
         DrawingFacts!OwnedBitmaps, DrawingFacts!AnyBitmap, DrawingFacts!Wrappers,
         DrawingFacts!Sprite, DrawingFacts!Parents, DrawingFacts!Live, DrawingFacts!Lender,
         DrawingFacts!Storage, DrawingFacts!Dead, DrawingFacts!BitmapCalls,
         DrawingFacts!TableCalls, DrawingFacts!FontCalls, DrawingFacts!SpriteCalls,
         DrawingFacts!TileMapCalls, DrawingFacts!RenderFrame, DrawingFacts!CallsReachLiveObjects,
         DrawingFacts!User, DrawingFacts!SlotOf, DrawingFacts!Used, DrawingFacts!InSlot
<1> QED
  BY <1>1, <1>2, <1>3, <1>4, <1>5, <1>6, <1>7

(* In every game that makes one wrapper of the default channel and puts a  *)
(* track under one index, records and the native side agree, users and     *)
(* callbacks are counted exactly, and what a callback lends ends with it   *)
(* (audio_graph.go:136, runtime.go:1544, sprite.go:3, API.md:576).         *)
THEOREM GamesAgree ==
  ASSUME OneWrapper, SharedTracks = FALSE
  PROVE  ObjectsSpec => []ObjectsAgree
<1>1. LentFacts!Spec => [](LentFacts!TypeOK /\ LentFacts!NativeFollowsScopes /\ LentFacts!ViewsEnd)
  BY LentFacts!CallbacksBound, ObjectsAssumption DEF Lent!ScopesAssumption, LentFacts!ScopesAssumption
<1>2. LentFacts!NativeFollowsScopes /\ LentFacts!ViewsEnd => Lent!NativeFollowsScopes /\ Lent!ViewsEnd
  BY DEF Lent!NativeFollowsScopes, Lent!ViewsEnd, Lent!Running, Lent!Depth,
         LentFacts!NativeFollowsScopes, LentFacts!ViewsEnd, LentFacts!Running, LentFacts!Depth, Lent!Cardinality, LentFacts!Cardinality
<1>3. ASSUME GameInv, Lent!NativeFollowsScopes, Lent!ViewsEnd PROVE ObjectsAgree
  <2>1. subject = "audio" => SidesAgree /\ HeardOnce /\ NoCycle
    BY <1>3, Means DEF GameInv
  <2>2. subject = "display" => Display!UsersCounted /\ Display!SlotsCounted /\ Display!ListAgrees
    BY <1>3, DrawingMeans
  <2> QED
    BY <1>3, <2>1, <2>2 DEF ObjectsAgree
<1> QED
  BY <1>1, <1>2, <1>3, LendsAlone, GameInvHolds, PTL

(* In every such game, nothing is freed while something alive uses it, and *)
(* calls, callbacks and draws reach live objects only (audio_graph.go:136, *)
(* runtime.go:896, runtime.go:1544, runtime.go:3775).                      *)
THEOREM GamesUseWhatLives ==
  ASSUME OneWrapper, SharedTracks = FALSE
  PROVE  ObjectsSpec => []NothingFreedInUse
<1>1. LentFacts!Spec => []LentFacts!NothingStrays
  BY LentFacts!DrawsIntoLiveBitmaps, ObjectsAssumption DEF Lent!ScopesAssumption, LentFacts!ScopesAssumption
<1>2. LentFacts!NothingStrays => Lent!NothingStrays
  BY DEF LentFacts!NothingStrays, Lent!NothingStrays
<1>3. ASSUME GameInv, Lent!NothingStrays PROVE NothingFreedInUse
  <2>1. subject = "audio" => NothingDangling /\ CallsReachLiveObjects
    BY <1>3, Means DEF GameInv
  <2>2. subject # "audio" => Display!NothingDangling /\ Display!CallsReachLiveObjects
    BY <1>3, DrawingMeans
  <2> QED
    BY <1>3, <2>1, <2>2 DEF NothingFreedInUse
<1> QED
  BY <1>1, <1>2, <1>3, LendsAlone, GameInvHolds, PTL

(* Types, of every part of every such game: references run between objects *)
(* of the game, nothing freed is open, and no ring is left by its indices. *)
THEOREM GamesTypeCorrect ==
  ASSUME OneWrapper, SharedTracks = FALSE
  PROVE  ObjectsSpec => []ObjectsTypeOK
<1>1. LentFacts!Spec => [](LentFacts!TypeOK /\ LentFacts!NativeFollowsScopes /\ LentFacts!ViewsEnd)
  BY LentFacts!CallbacksBound, ObjectsAssumption DEF Lent!ScopesAssumption, LentFacts!ScopesAssumption
<1>2. LentFacts!TypeOK => Lent!TypeOK
  BY DEF Lent!TypeOK, Lent!Rows, LentFacts!TypeOK, LentFacts!Rows
<1>3. SoundFacts!Spec => []SoundFacts!TypeOK
  BY SoundFacts!RenderTypeCorrect, ObjectsAssumption DEF Sound!RenderAssumption, SoundFacts!RenderAssumption
<1>4. SoundFacts!TypeOK => Sound!TypeOK
  BY DEF Sound!TypeOK, Sound!Voices, Sound!NoSource, Sound!Idle, SoundFacts!TypeOK,
         SoundFacts!Voices, SoundFacts!NoSource, SoundFacts!Idle
<1>5. CompletionSpec => []CompletionTypeOK
  BY TypeCorrect, ObjectsAssumption
<1>6. ASSUME GameInv, CompletionTypeOK, Sound!TypeOK, Lent!TypeOK PROVE ObjectsTypeOK
  <2>1. subject # "display" => TypeOK
    BY <1>6, Means DEF GameInv
  <2>2. subject # "audio" => Display!TypeOK
    BY <1>6, DrawingMeans
  <2> QED
    BY <1>6, <2>1, <2>2 DEF ObjectsTypeOK
<1> QED
  BY <1>1, <1>2, <1>3, <1>4, <1>5, <1>6, LendsAlone, RendersAlone, CompletesAlone, GameInvHolds, PTL
=============================================================================
