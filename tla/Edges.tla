------------------------------- MODULE Edges -------------------------------
(***************************************************************************)
(* References between the runtime's objects.  An edge <<user, slot, used>> *)
(* says that `user` holds `used` in `slot`, a field or a parameter.        *)
(***************************************************************************)
User(e) == e[1]
SlotOf(e) == <<e[1], e[2]>>
Used(e) == e[3]
UsedBy(E, x) == {e \in E : User(e) = x}
UsersOf(E, x) == {e \in E : Used(e) = x}
InSlot(E, slot) == {e \in E : SlotOf(e) = slot}
=============================================================================
