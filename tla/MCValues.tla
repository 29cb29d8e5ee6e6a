------------------------------ MODULE MCValues ------------------------------
(***************************************************************************)
(* What a document computes with: big integers, stored values, types and   *)
(* expressions.  They are models of their own, checked together: component *)
(* says which one runs, the others stay as they begin.                     *)
(***************************************************************************)
EXTENDS BigInts, Values, SequencesExt

CONSTANTS reg1, reg2, slot1, slot2, slot3

VARIABLES
    component,
    env, before, last,                  \* of Expressions
    pair                                \* two types

document == <<env, before, last>>

-----------------------------------------------------------------------------
(* BigInts with an Int128 of 4 bits and an Int64 of 2.                     *)

MCRegisters == {reg1, reg2}
MCNodes == 1 .. 5
MCLiterals == {-8, -1, 0, 1, 7}
MCShifts == -8 .. 7
MCExponents == -1 .. 4
MCBases == {2, 3, 10, 16}

-----------------------------------------------------------------------------
(* Storage of values in three variables, with memory for two nodes.        *)

MCSlots == {slot1, slot2, slot3}
MCAddresses == 1 .. 2
MCContents == {"this"}
MCIndices == {"short_string", "integer", "group"}

MCSymmetry == Permutations({slot1, slot2, slot3})

-----------------------------------------------------------------------------
(* Statements on two variables U and V, of all kinds of values.            *)

W == INSTANCE Expressions WITH
        FloatMax <- 8, Frames <- <<>>, Statements <- {}, Operands <- {}, MaxStatements <- 0

I(n) == W!Literal("int_literal", W!IntValue(n))
F(n) == W!Literal("decimal_float_literal", W!FloatValue(n))
Infinity == W!Literal("infinity", W!FloatValue(W!Infinite))
True == W!Literal("bool_literal", W!BoolValue(TRUE))
False == W!Literal("bool_literal", W!BoolValue(FALSE))
NullLiteral == W!Literal("null_literal", W!NullValue)
UName == <<7>>
VName == <<8>>
Str(units) == W!Quoted(<<W!Text(units)>>)
UId == W!Id(UName)
VId == W!Id(VName)
Let(name, e) == W!LetOf(name, e)
SetV(e) == W!BinaryOf("assign", Str(VName), e)
On(name, es) == W!Call(name, [i \in DOMAIN es |-> W!Positional(es[i])], <<>>)

(* A macro whose argument is written in another macro, which was invoked   *)
(* with 1: `...` in the argument stands for the 1.                         *)
MCFrames ==
    <<[arguments |-> <<W!Positional(On("internal_eq",
                                       <<W!Group(<<W!Ellipsis>>), W!Group(<<W!Positional(I(1))>>)>>))>>,
       frame |-> 2],
      [arguments |-> <<W!Positional(I(1))>>, frame |-> 0]>>

MCOperands == {I(2), F(3), UId, VId, Let(VName, False),
               W!Quoted(<<W!Text(VName), Let(VName, I(1))>>)}

Plain == {I(0), F(-1), True, Str(VName), NullLiteral, Infinity,
          W!Group(<<W!Positional(I(1)), W!Named(Str(W!X), Str(UName))>>)}
Blocks == {W!Block(<<W!Text(UName), VId>>),
           W!Call("element", <<W!Named(Str(UName), Str(VName))>>,
                  <<W!Block(<<VId, SetV(I(5))>>)>>)}

(* Spliced directly, without a value being formed: literals, strings and   *)
(* blocks, also such as fail or end the program after a part of them.      *)
Direct == Plain \cup Blocks
          \cup {W!Literal("unit_literal", W!UnitValue),
                W!Block(<<UId, W!Text(UName), Let(VName, I(5)), W!Quoted(<<VId>>)>>),
                W!Block(<<W!Text(UName), Infinity>>), W!Quoted(<<VId, Infinity>>),
                W!Call("element", <<>>, <<W!Block(<<Let(UName, F(3)), UId>>)>>)}

Sentences ==
    Direct
    \cup {Let(UName, e) : e \in Plain \cup Blocks}
    \cup {SetV(e) : e \in Plain}
    \cup {UId, VId, W!Quoted(<<UId, W!Text(UName), VId>>), W!UnaryOf("minus", UId),
          W!BinaryOf("lt", UId, I(2)),
          W!Call("to_str", <<W!Named(Str(W!Format), Str(<<1>>)), W!Named(Str(W!X), UId)>>, <<>>),
          W!Call("element", <<W!Positional(UId)>>, <<>>),
          W!Call("var_let", <<W!Named(Str(W!ValueOf), I(1)), W!Named(Str(W!NameOf), Str(VName))>>,
                 <<>>)}
    \cup {On("var_delete", <<Str(UName)>>), On("var_let", <<Str(VName)>>),
          On("var_set", <<Str(UName), VId>>), On("var_get", <<VId>>),
          On("var_exists", <<Str(VName)>>), On("to_str", <<UId>>),
          On("to_str", <<I(-5), I(2), I(5)>>), On("unknown", <<UId>>),
          On("div_to_neg_inf", <<I(-5), UId>>), On("rem_to_zero", <<I(-5), I(2)>>),
          On("min", <<F(3), UId, F(1)>>), On("nearest", <<F(5)>>), On("sqrt", <<F(4)>>),
          On("internal_eq", <<UId, VId>>), On("not", <<UId>>),
          On("and", <<UId, Let(VName, True)>>), On("element", <<>>)}

InBody == {W!Call("to_str", <<W!Ellipsis>>, <<W!Block(<<UId>>)>>),
           W!Call("add", <<W!Positional(UId), W!Ellipsis>>, <<>>),
           W!Call("and", <<W!Ellipsis>>, <<>>), W!Group(<<W!Ellipsis>>),
           Let(UName, W!Group(<<W!Positional(VId), W!Ellipsis>>))}

E == INSTANCE Expressions WITH
        FloatMax <- 8,
        Frames <- MCFrames,
        Statements <- [e : Sentences, frame : {0}] \cup [e : InBody, frame : {1}],
        Operands <- MCOperands,
        MaxStatements <- 3

-----------------------------------------------------------------------------
(* Types of two levels over a few basic ones, and values for them.         *)

T == INSTANCE Types

Basics == {T!Basic(k) : k \in {"any", "nothing", "unit", "integer", "str"}}
Members == Basics \cup {T!PackOf(t) : t \in Basics} \cup {T!NamedOf(t) : t \in Basics}
SmallTypes ==
    Basics \cup {T!LazyOf(t) : t \in Basics}
    \cup {T!CanonicalUnionOf(<<t, u>>) : t, u \in Basics}
    \cup {T!CanonicalGroupOf(ts) : ts \in SeqOf(Members, 1) \cup SeqOf(Basics \ {T!Nothing}, 2)}
IntegerType == T!Basic("integer")
SomeTypes ==
    SmallTypes
    \cup {T!CanonicalUnionOf(<<T!GroupOf(<<t>>), T!LazyOf(u)>>) : t, u \in Basics \ {T!Nothing}}
    \cup {T!GroupOf(<<T!CanonicalUnionOf(<<IntegerType, t>>), T!PackOf(T!NamedOf(u))>>) :
             t, u \in Basics \ {T!Nothing}}
    \cup {T!LazyOf(T!UnionOf(<<IntegerType, T!Basic("str")>>))}
Types == {t \in SomeTypes : T!IsCanonical(t) /\ T!Plain(t)}

Simple == {T!Item(k, <<>>) : k \in {"unit", "integer", "str"}}
Entries == Simple \cup {T!Item("named", <<v>>) : v \in Simple} \cup {T!Item("lazy", <<v>>) : v \in Simple}
Items == Entries \cup {T!Item("group", vs) : vs \in SeqOf(Entries, 2)}

-----------------------------------------------------------------------------
MCInit ==
    /\ component \in {"integers", "storage", "document", "types"}
    /\ Init
    /\ component # "integers" => host = "native" /\ \A r \in Registers : object[r] = Small(0)
    /\ StorageInit
    /\ E!ExpressionInit
    /\ pair = <<T!Nothing, T!Nothing>>

Compute == component = "integers" /\ Next /\ UNCHANGED <<component, storage, document, pair>>
Store == component = "storage" /\ StorageNext /\ UNCHANGED <<component, vars, document, pair>>
Process == component = "document" /\ E!SpliceStatement /\ UNCHANGED <<component, vars, storage, pair>>
ComparePair ==
    /\ component = "types"
    /\ pair = <<T!Nothing, T!Nothing>>
    /\ pair' \in Types \X Types
    /\ UNCHANGED <<component, vars, storage, document>>

MCNext == Compute \/ Store \/ Process \/ ComparePair
MCSpec == MCInit /\ [][MCNext]_<<component, vars, storage, document, pair>>

-----------------------------------------------------------------------------
(* Expressions: the properties of the instance (see the module).           *)
ErrorsAreReported == E!ErrorsAreReported
StaticTypesHold == E!StaticTypesHold
FastPathsAgree == E!FastPathsAgree
OperatorsAgree == E!OperatorsAgree

(* An instance of a type is one of every type it is an instance of:        *)
(* whatever belongs to the one belongs to the other (Type::instance_of,    *)
(* on which every check of an argument relies).                            *)
InstancesAreContained ==
    T!InstanceOf(pair[1], pair[2]) =>
        \A v \in Items : T!Belongs(v, pair[1]) => T!Belongs(v, pair[2])

(* The canonical union of two types is canonical, both are instances of    *)
(* it, and it is an instance of every type that both are instances of      *)
(* (Type::canonical_union_of: flattening, sorting, removing duplicates).   *)
UnionIsLeast ==
    LET union == T!CanonicalUnionOf(pair)
    IN  /\ T!IsCanonical(union)
        /\ \A t \in {pair[1], pair[2]} : T!InstanceOf(t, union)
        /\ \A u \in SmallTypes : (\A t \in {pair[1], pair[2]} : T!InstanceOf(t, u))
                                     => T!InstanceOf(union, u)

(* Being an instance of a type is an order that membership respects, and   *)
(* in which a union is the least type above its alternatives.              *)
TypesAreOrdered == InstancesAreContained /\ UnionIsLeast
=============================================================================
