------------------------------- MODULE Values -------------------------------
(***************************************************************************)
(* The storage of values (value.hpp).  A Value is a tagged union: an index *)
(* says what it holds.  Big integers, long strings, regular expressions    *)
(* and groups are held through a reference to a node that counts its       *)
(* owners (gc.hpp); everything else lies in the value itself.              *)
(*                                                                         *)
(* A value is a record [index, at, content]: at is the node referred to,   *)
(* 0 for none.  Groups are nodes of values.  Alongside, `meaning` says     *)
(* what each variable stands for if values were values and not references. *)
(***************************************************************************)
EXTENDS Integers, Sequences, FiniteSets

CONSTANTS
    Slots,      \* the variables that values are stored in
    Addresses,  \* the nodes there is memory for, positive
    Contents,   \* what a value that is not a group may be
    Indices,    \* the alternatives of the union that are used
    Width,      \* bound: the members of a group
    MaxOwners   \* bound: the owners of a node

(* Value::Index: what lies in the value, and what is behind a reference.   *)
Trivial == {"unit", "null", "boolean", "floating", "static_string", "short_string",
            "block", "directive"}
Counted == {"integer", "dynamic_string", "regex", "group"}

ASSUME StorageAssumption ==
    /\ IsFiniteSet(Slots)
    /\ Addresses \subseteq Nat \ {0} /\ IsFiniteSet(Addresses)
    /\ Indices \subseteq Trivial \cup Counted
    /\ Width \in Nat

VARIABLES
    value,      \* the variables
    nodes,      \* the nodes in use: [owners, content, of]
    meaning,    \* what each variable stands for
    dangling    \* a reference to a freed node has been followed

storage == <<value, nodes, meaning, dangling>>

-----------------------------------------------------------------------------
TypeKind(index) ==
    CASE index \in {"static_string", "short_string", "dynamic_string"} -> "str"
      [] index \in {"block", "directive"} -> "block"
      [] OTHER -> index

Held(index, at, content) == [index |-> index, at |-> at, content |-> content]
Null == Held("null", 0, "none")

(* A value whose resources have been moved elsewhere.                      *)
Moved(v) == IF v.index \in Counted THEN Held(v.index, 0, "none") ELSE v

(* The members that groups have, as places <<node, index>>.                *)
MemberPlaces(ns) == UNION {{<<n, i>> : i \in DOMAIN ns[n].of} : n \in DOMAIN ns}

(* What a value stands for.  A group is made of nodes made before it, so   *)
(* that groups nest no deeper than there are nodes.                        *)
Meaning(ns, v) ==
    LET Stands(w, ofNode) == [kind |-> TypeKind(w.index),
                              is |-> IF w.at = 0 THEN <<w.content>> ELSE ofNode[w.at]]
        within[d \in 0 .. Cardinality(Addresses)] ==
            [n \in DOMAIN ns |->
                <<ns[n].content,
                  IF d = 0 THEN <<>>
                  ELSE [i \in DOMAIN ns[n].of |-> Stands(ns[n].of[i], within[d - 1])]>>]
    IN  Stands(v, within[Cardinality(Addresses)])

(* Every node that a value leads to is there.                              *)
Sound(ns, v) ==
    \E there \in SUBSET DOMAIN ns :
        /\ v.at \in there \cup {0}
        /\ \A n \in there : \A i \in DOMAIN ns[n].of : ns[n].of[i].at \in there \cup {0}

-----------------------------------------------------------------------------
(* GC_Node: owners come and go, and the last one takes the members along.  *)

(* add_reference, for each of some values.                                 *)
AddReferences(ns, vs) ==
    [n \in DOMAIN ns |->
        [ns[n] EXCEPT !.owners = @ + Cardinality({i \in DOMAIN vs : vs[i].at = n})]]

(* drop_reference for the first of the values that are to be destroyed; if *)
(* it was the last owner, those of the node are next (destroy_and_free).   *)
DropNext(ns, doomed) ==
    LET n == Head(doomed).at
    IN  IF n = 0 THEN [nodes |-> ns, doomed |-> Tail(doomed)]
        ELSE IF ns[n].owners > 1
        THEN [nodes |-> [ns EXCEPT ![n].owners = @ - 1], doomed |-> Tail(doomed)]
        ELSE [nodes |-> [k \in DOMAIN ns \ {n} |-> ns[k]], doomed |-> ns[n].of \o Tail(doomed)]

(* No more values can be destroyed than the one and all members.           *)
Destroy(ns, v) ==
    LET after[k \in 0 .. Cardinality(MemberPlaces(ns)) + 1] ==
            IF k = 0 THEN [nodes |-> ns, doomed |-> <<v>>]
            ELSE IF after[k - 1].doomed = <<>> THEN after[k - 1]
            ELSE DropNext(after[k - 1].nodes, after[k - 1].doomed)
    IN  after[Cardinality(MemberPlaces(ns)) + 1].nodes

FreshNode(ns) == CHOOSE n \in Addresses : n \notin DOMAIN ns
HasRoom(ns) == DOMAIN ns # Addresses

(* gc_ref_from_range: the elements are copied, or moved, into the node.    *)
Allocated(ns, content, members) ==
    LET n == FreshNode(ns)
    IN  [k \in DOMAIN ns \cup {n} |->
            IF k = n THEN [owners |-> 1, content |-> content, of |-> members] ELSE ns[k]]

-----------------------------------------------------------------------------
(* Union::make and Union::assign.                                          *)

(* make: a copy becomes an owner.                                          *)
Made(ns, other) == AddReferences(ns, <<other>>)

(* Mutant of Assigned: what is overwritten is released after the value     *)
(* that replaces it has been put in its place.                             *)
Assigned_ReleasesNew(ns, self, other) ==
    IF other.index \in Trivial THEN ns ELSE Destroy(Made(ns, other), other)

(* assign, for a copy: what is overwritten is released before the other    *)
(* value is taken.  An alternative that needs no destructor is written     *)
(* over whatever is there, which is not released.                          *)
Assigned(ns, self, other) ==
    IF other.index \in Trivial THEN ns ELSE Made(Destroy(ns, self), other)

(* assign, for a move: the number of owners stays.                         *)
AssignedByMove(ns, self, other) ==
    IF other.index \in Trivial THEN ns ELSE Destroy(ns, self)

-----------------------------------------------------------------------------
StorageInit ==
    /\ value = [s \in Slots |-> Null]
    /\ nodes = [n \in {} |-> Null]
    /\ meaning = [s \in Slots |-> Meaning(nodes, Null)]
    /\ dangling = FALSE

(* An existing variable takes over a temporary value.                      *)
TakesOver(s, ns, v) ==
    /\ nodes' = AssignedByMove(ns, value[s], v)
    /\ value' = [value EXCEPT ![s] = v]
    /\ meaning' = [meaning EXCEPT ![s] = Meaning(ns, v)]
    /\ dangling' = dangling

(* Value::boolean, floating, static_string, short_string, block: nothing   *)
(* is allocated, nor is it for an integer that fits (integer).             *)
StoreInline(s) ==
    \E index \in Indices \ {"dynamic_string", "regex", "group"}, c \in Contents :
        TakesOver(s, nodes, Held(index, 0, c))

(* Value::dynamic_string_forced, integer, regex.                           *)
StoreCounted(s) ==
    \E index \in (Indices \cap Counted) \ {"group"}, c \in Contents :
        /\ HasRoom(nodes)
        /\ TakesOver(s, Allocated(nodes, c, <<>>), Held(index, FreshNode(nodes), "none"))

(* Value::group and group_pack: the members are copied.                    *)
StoreGroup(s) ==
    \E width \in 0 .. Width : \E members \in [1 .. width -> Slots] :
        LET copies == [i \in 1 .. width |-> value[members[i]]]
            ns == Allocated(AddReferences(nodes, copies), "none", copies)
        IN  /\ HasRoom(nodes)
            /\ \A n \in DOMAIN ns : ns[n].owners <= MaxOwners
            /\ TakesOver(s, ns, Held("group", FreshNode(nodes), "none"))

(* Value::group_move and group_pack_move: the members are moved.           *)
StoreGroupMoved(s) ==
    \E t \in Slots \ {s} :
        LET v == Held("group", FreshNode(nodes), "none")
            ns == Allocated(nodes, "none", <<value[t]>>)
        IN  /\ HasRoom(nodes)
            /\ nodes' = AssignedByMove(ns, value[s], v)
            /\ value' = [value EXCEPT ![s] = v, ![t] = Moved(@)]
            /\ meaning' = [meaning EXCEPT ![s] = Meaning(ns, v),
                                          ![t] = Meaning(nodes, Moved(value[t]))]
            /\ UNCHANGED dangling

(* The copy operations: constructor of a temporary and assignment.         *)
CopyFrom(s, other) ==
    LET ns == Assigned(nodes, value[s], other)
    IN  /\ \A n \in DOMAIN ns : ns[n].owners <= MaxOwners
        /\ nodes' = ns
        /\ value' = [value EXCEPT ![s] = other]
        /\ meaning' = [meaning EXCEPT ![s] = Meaning(nodes, other)]
        /\ dangling' = (dangling \/ ~Sound(Destroy(nodes, value[s]), other))

CopyValue(s) == \E t \in Slots \ {s} : CopyFrom(s, value[t])

(* A member is read out of the group of another variable.                  *)
CopyMember(s) ==
    \E t \in Slots \ {s} :
        /\ value[t].index = "group" /\ value[t].at # 0
        /\ \E i \in DOMAIN nodes[value[t].at].of : CopyFrom(s, nodes[value[t].at].of[i])

MoveValue(s) ==
    \E t \in Slots \ {s} :
        /\ nodes' = AssignedByMove(nodes, value[s], value[t])
        /\ value' = [value EXCEPT ![s] = value[t], ![t] = Moved(@)]
        /\ meaning' = [meaning EXCEPT ![s] = meaning[t],
                                      ![t] = Meaning(nodes, Moved(value[t]))]
        /\ UNCHANGED dangling

(* ~Value, and a new variable in its place.                                *)
Renew(s) ==
    /\ nodes' = Destroy(nodes, value[s])
    /\ value' = [value EXCEPT ![s] = Null]
    /\ meaning' = [meaning EXCEPT ![s] = Meaning(nodes, Null)]
    /\ UNCHANGED dangling

StorageNext == ~dangling /\ \E s \in Slots :
    \/ StoreInline(s) \/ StoreCounted(s) \/ StoreGroup(s) \/ StoreGroupMoved(s)
    \/ CopyValue(s) \/ CopyMember(s) \/ MoveValue(s) \/ Renew(s)

StorageSpec == StorageInit /\ [][StorageNext]_storage

-----------------------------------------------------------------------------
ValueType == [index : Trivial \cup Counted, at : Addresses \cup {0},
              content : Contents \cup {"none"}]

(* Variables hold one alternative of the union each, and only those that   *)
(* are counted refer to nodes (Value::Index, Union).                       *)
StoredTypeOK ==
    /\ value \in [Slots -> ValueType]
    /\ DOMAIN nodes \subseteq Addresses
    /\ \A s \in Slots : value[s].at # 0 => value[s].index \in Counted
    /\ \A n \in DOMAIN nodes : nodes[n].owners > 0 /\ nodes[n].of \in Seq(ValueType)
    /\ dangling \in BOOLEAN

References(n) ==
    Cardinality({s \in Slots : value[s].at = n})
    + Cardinality({p \in MemberPlaces(nodes) : nodes[p[1]].of[p[2]].at = n})

(* A node has at least as many owners as there are references to it, so it *)
(* is there while it is referred to, however values have been copied, moved*)
(* and put into groups.  (It may have more: assignment of an alternative   *)
(* without destructor forgets the reference it overwrites.)                *)
NothingFreedInUse ==
    /\ ~dangling
    /\ \A s \in Slots : Sound(nodes, value[s])
    /\ \A n \in DOMAIN nodes : nodes[n].owners >= References(n)

(* Values behave as values although they are shared: a variable stands for *)
(* what was last stored in it, whatever has since happened to the values   *)
(* it was copied from, or to the groups its node is a member of.           *)
SharingIsInvisible ==
    \A s \in Slots : Sound(nodes, value[s]) => Meaning(nodes, value[s]) = meaning[s]

(* Values that share nodes behave as values: what a variable stands for is *)
(* there, and is what was stored.                                          *)
ValuesAreValues == StoredTypeOK /\ NothingFreedInUse /\ SharingIsInvisible
=============================================================================
