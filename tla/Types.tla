------------------------------- MODULE Types -------------------------------
(***************************************************************************)
(* The types of the language (type.hpp).  A type is a record [kind, of,    *)
(* dynamic]: of is the sequence of its members, dynamic the flag of the    *)
(* types that are known only when the program runs.                        *)
(*                                                                         *)
(* The library sorts, but not stably: equal types differ in the flag only, *)
(* and which of them stays in a union is left open there.                  *)
(***************************************************************************)
EXTENDS Integers, Sequences, SequencesExt

(* Type_Kind, in the order of the enumeration.                             *)
Kinds == <<"any", "nothing", "unit", "null", "boolean", "integer", "floating",
           "str", "regex", "block", "group", "pack", "named", "lazy", "union">>

KindRank(kind) == CHOOSE i \in DOMAIN Kinds : Kinds[i] = kind

KindIsBasic(kind) == KindRank(kind) <= KindRank("block")

ValueHoldable(kind) == kind \notin {"any", "nothing", "union", "pack", "named"}

Spliceable(kind) ==
    kind \in {"unit", "null", "boolean", "integer", "floating", "str", "block"}

-----------------------------------------------------------------------------
(* Types as they are written, canonical or not.                            *)

Type(kind, members) == [kind |-> kind, of |-> members, dynamic |-> FALSE]

Basic(kind) == [kind |-> kind, of |-> <<>>, dynamic |-> kind = "any"]

PackOf(t) == Type("pack", <<t>>)
NamedOf(t) == Type("named", <<t>>)
LazyOf(t) == Type("lazy", <<t>>)
GroupOf(ts) == Type("group", ts)
UnionOf(ts) == Type("union", ts)

DynamicGroup == [kind |-> "group", of |-> <<>>, dynamic |-> TRUE]
Anything == Basic("any")
Nothing == Basic("nothing")

(* operator== and operator<=>: the flags do not count.                     *)
RECURSIVE Same(_, _)
Same(t, u) == /\ t.kind = u.kind
              /\ Len(t.of) = Len(u.of)
              /\ \A i \in DOMAIN t.of : Same(t.of[i], u.of[i])

RECURSIVE Before(_, _)
Before(t, u) ==
    LET alike(i) == \A j \in 1 .. i : Same(t.of[j], u.of[j])
    IN  \/ KindRank(t.kind) < KindRank(u.kind)
        \/ /\ t.kind = u.kind
           /\ \E i \in 0 .. Len(t.of) :
                /\ i <= Len(u.of) /\ alike(i)
                /\ \/ i = Len(t.of) /\ i < Len(u.of)
                   \/ i < Len(t.of) /\ i < Len(u.of) /\ Before(t.of[i + 1], u.of[i + 1])

-----------------------------------------------------------------------------
(* Canonical types.                                                        *)

RECURSIVE IsCanonical(_)

PackIsCanonical(t) == t.kind \notin {"pack", "nothing"} /\ IsCanonical(t)
NamedIsCanonical(t) == t.kind \notin {"named", "nothing"} /\ IsCanonical(t)
GroupIsCanonical(ts) == \A i \in DOMAIN ts : IsCanonical(ts[i]) /\ ~Same(ts[i], Nothing)

(* A repeated alternative is not noticed: both ends of union_is_canonical  *)
(* return true.                                                            *)
UnionIsCanonical(ts) ==
    /\ Len(ts) > 1
    /\ \A i \in DOMAIN ts : ts[i].kind \notin {"union", "any", "nothing"} /\ IsCanonical(ts[i])
    /\ \A i \in 1 .. Len(ts) - 1 : ~Before(ts[i + 1], ts[i])

IsCanonical(t) ==
    CASE t.kind = "pack"  -> PackIsCanonical(t.of[1])
      [] t.kind = "named" -> NamedIsCanonical(t.of[1])
      [] t.kind = "lazy"  -> IsCanonical(t.of[1])
      [] t.kind = "group" -> GroupIsCanonical(t.of)
      [] t.kind = "union" -> UnionIsCanonical(t.of)
      [] OTHER -> TRUE

RECURSIVE CanonicalPackOf(_)
CanonicalPackOf(t) == CASE t.kind = "nothing" -> Nothing
                        [] t.kind = "pack" -> CanonicalPackOf(t.of[1])
                        [] OTHER -> PackOf(t)

CanonicalNamed(t) == IF t.kind = "nothing" THEN Nothing ELSE NamedOf(t)

CanonicalLazy(t) == LazyOf(t)

CanonicalGroupOf(ts) ==
    IF \E i \in DOMAIN ts : Same(ts[i], Nothing) THEN Nothing ELSE GroupOf(ts)

RECURSIVE Flattened(_)
Flattened(ts) == FlattenSeq([i \in DOMAIN ts |-> IF ts[i].kind = "union"
                                                THEN Flattened(ts[i].of) ELSE <<ts[i]>>])

(* std::sort and std::unique: of the types that are equal the first one in *)
(* an order that sorting leaves open stays.                                *)
SortedUnique(ts) ==
    LET first(i) == \A j \in 1 .. i - 1 : ~Same(ts[j], ts[i])
        kept == SelectSeq([i \in DOMAIN ts |-> i], LAMBDA i : first(i))
    IN  SortSeq([k \in DOMAIN kept |-> ts[kept[k]]], Before)

CanonicalUnionOf(ts) ==
    LET flat == Flattened(ts)
        kept == SortedUnique(SelectSeq(flat, LAMBDA t : ~Same(t, Nothing)))
    IN  CASE \E i \in DOMAIN flat : Same(flat[i], Anything) -> Anything
          [] Len(kept) = 0 -> Nothing
          [] Len(kept) = 1 -> kept[1]
          [] OTHER -> UnionOf(kept)

-----------------------------------------------------------------------------
(* instance_of.  The kind of t decides first; what it leaves undecided is  *)
(* decided by the kind of u.                                               *)

RECURSIVE InstanceOf(_, _)

(* Mutant of Members: the shorter of the groups ends the comparison.       *)
Members_Prefix(t, u) ==
    \A i \in DOMAIN t.of \cap DOMAIN u.of : InstanceOf(t.of[i], u.of[i])

Members(t, u) ==
    /\ Len(t.of) = Len(u.of)
    /\ \A i \in DOMAIN t.of : InstanceOf(t.of[i], u.of[i])

InstanceOfTarget(t, u) ==
    CASE u.kind = "lazy"  -> InstanceOf(t, u.of[1])
      [] u.kind = "union" -> \E i \in DOMAIN u.of : InstanceOf(t, u.of[i])
      [] OTHER -> FALSE

InstanceOf(t, u) ==
    CASE u.kind = "any" \/ Same(t, u) -> TRUE
      [] t.kind = "nothing" -> TRUE
      [] t.kind \in {"pack", "named"} -> u.kind = t.kind /\ InstanceOf(t.of[1], u.of[1])
      [] t.kind = "union" -> \A i \in DOMAIN t.of : InstanceOf(t.of[i], u)
      [] t.kind = "group" /\ u.kind = "group" -> t.dynamic \/ u.dynamic \/ Members(t, u)
      [] OTHER -> InstanceOfTarget(t, u)

-----------------------------------------------------------------------------
(* What the types mean: the values that belong to them.  A value is a      *)
(* record [kind, of]; a lazy one is yet to be evaluated, a named one is a  *)
(* member of a group.  This is the reference that the operators above are  *)
(* compared with.                                                          *)

Item(kind, of) == [kind |-> kind, of |-> of]

RECURSIVE Belongs(_, _), Fits(_, _)

Fits(vs, ts) ==
    CASE ts = <<>> -> vs = <<>>
      [] Head(ts).kind = "pack" ->
             \/ Fits(vs, Tail(ts))
             \/ vs # <<>> /\ Belongs(Head(vs), Head(ts).of[1]) /\ Fits(Tail(vs), ts)
      [] OTHER -> vs # <<>> /\ Belongs(Head(vs), Head(ts)) /\ Fits(Tail(vs), Tail(ts))

Belongs(v, t) ==
    CASE t.kind = "any" -> TRUE
      [] t.kind = "nothing" -> FALSE
      [] t.kind = "lazy" -> Belongs(IF v.kind = "lazy" THEN v.of[1] ELSE v, t.of[1])
      [] t.kind = "union" -> \E i \in DOMAIN t.of : Belongs(v, t.of[i])
      [] t.kind = "named" -> v.kind = "named" /\ Belongs(v.of[1], t.of[1])
      [] t.kind = "group" -> v.kind = "group" /\ (t.dynamic \/ Fits(v.of, t.of))
      [] OTHER -> v.kind = t.kind

(* Where packs and named members may be written: within groups.  A group   *)
(* with a member of type any is left aside: every pack is an instance of   *)
(* any, and so a group of any number of integers is one of that group.     *)
RECURSIVE Plain(_)
Plain(t) ==
    LET member(u) == IF u.kind = "pack" THEN u.of[1] ELSE u
        bare(u) == IF u.kind = "named" THEN u.of[1] ELSE u
    IN  /\ t.kind \notin {"pack", "named"}
        /\ t.kind = "group" =>
               \A i \in DOMAIN t.of : t.of[i].kind # "any" /\ Plain(bare(member(t.of[i])))
        /\ t.kind \in {"lazy", "union"} => \A i \in DOMAIN t.of : Plain(t.of[i])
=============================================================================
