------------------------------ MODULE BigInts ------------------------------
(***************************************************************************)
(* Objects of type Big_Int and the memory behind them.  A big integer is   *)
(* kept by a GC_Node (gc.hpp), which counts its owners.  With the native   *)
(* host the node holds the integer, and a handle is the address of the     *)
(* node.  With the host of WASM the node holds a handle, which is the key  *)
(* of the integer in the `repository` of BigIntApi (cowel-wasm.ts).        *)
(*                                                                         *)
(* A key is an unsigned number in JavaScript, but the i32 of WebAssembly   *)
(* that it becomes comes back as a signed one.  An exception in JavaScript *)
(* ends the program (trapped).                                             *)
(***************************************************************************)
EXTENDS BigIntArithmetic, Functions

CONSTANTS
    Registers,  \* the objects: variables and temporaries of the program
    Nodes,      \* the addresses of nodes, numbers
    MaxId,      \* maxId of generateId
    Literals,   \* the integers that the program begins with
    Cap,        \* bound: magnitude of the integers computed with
    Shifts,     \* bound: the ints given to << and >>
    Exponents,  \* bound: the exponents raised to
    Bases       \* bound: the bases converted to

ASSUME MemoryAssumption ==
    /\ Nodes \subseteq Nat \ {0}
    /\ IsFiniteSet(Registers) /\ IsFiniteSet(Nodes)
    /\ Cardinality(Nodes) >= Cardinality(Registers) + 3   \* and temporaries
    /\ MaxId \in Nat \ {0}
    /\ Literals \subseteq -Limit .. Limit - 1             \* of type Int128
    /\ Shifts \cup Exponents \subseteq -IntMax - 1 .. IntMax
    /\ \A b \in Bases : b \in 2 .. 36

VARIABLES
    host,       \* which of the two hosts
    object,     \* the registers: [small, v], v being the node of a big one
    memory,     \* nodes, repository, currentId
    trapped     \* JavaScript has thrown an exception

vars == <<host, object, memory, trapped>>

-----------------------------------------------------------------------------
(* Memory, passed from one operation to the next.                          *)

Key(id) == IF id > MaxId \div 2 THEN id - MaxId - 1 ELSE id

Integer(m, handle) == IF host = "native" THEN m.nodes[handle].is ELSE m.repo[handle]

Known(m, handle) == host = "native" \/ handle \in DOMAIN m.repo

(* The handle of a register, and the integer it stands for.                *)
Handle(m, x) == IF host = "native" THEN x.v ELSE Key(m.nodes[x.v].is)

View(m, x) == IF x.small THEN x ELSE Big(Integer(m, Handle(m, x)))

Readable(m, x) == ~x.small => Known(m, Handle(m, x))

Put(f, k, v) == [i \in DOMAIN f \cup {k} |-> IF i = k THEN v ELSE f[i]]
Without(f, k) == [i \in DOMAIN f \ {k} |-> f[i]]

FreeNode(m) == CHOOSE n \in Nodes \ DOMAIN m.nodes :
                   \A k \in Nodes \ DOMAIN m.nodes : n <= k

(* gc_ref_make: one owner.                                                 *)
NewNode(m, is) == [m EXCEPT !.nodes = Put(@, FreeNode(m), [owners |-> 1, is |-> is])]

(* yield_big_result, yieldBigResult: an integer of the host, and its       *)
(* handle.  currentId counts up and no key is used again.                  *)
NewInteger(m, v) ==
    IF host = "native"
    THEN [memory |-> NewNode(m, v), handle |-> FreeNode(m)]
    ELSE IF m.id >= MaxId
    THEN [memory |-> [m EXCEPT !.thrown = TRUE], handle |-> 0]
    ELSE [memory |-> [m EXCEPT !.id = @ + 1, !.repo = Put(@, m.id + 1, v)],
          handle |-> m.id + 1]

(* big_int_delete, GC_Node::drop_reference: with its last owner a node     *)
(* goes, and the integer in it or in the host.                             *)
DeleteInteger(m, handle) ==
    IF handle \in DOMAIN m.repo
    THEN [m EXCEPT !.repo = Without(@, handle)] ELSE [m EXCEPT !.thrown = TRUE]

(* Mutant of DropReference: the integer in the host is left there.         *)
DropReference_Leaks(m, n) ==
    IF m.nodes[n].owners > 1
    THEN [m EXCEPT !.nodes[n].owners = @ - 1]
    ELSE [m EXCEPT !.nodes = Without(@, n)]

DropReference(m, n) ==
    IF m.nodes[n].owners > 1
    THEN [m EXCEPT !.nodes[n].owners = @ - 1]
    ELSE LET freed == [m EXCEPT !.nodes = Without(@, n)]
         IN  IF host = "native" THEN freed
             ELSE DeleteInteger(freed, Key(m.nodes[n].is))

AddReference(m, n) ==
    IF m.nodes[n].owners # 0 THEN [m EXCEPT !.nodes[n].owners = @ + 1] ELSE m

(* set_zero, also what the destructor does.                                *)
SetZero(m, x) == IF x.small THEN m ELSE DropReference(m, x.v)

(* from_host_result: a small result is in the object, for a big one the    *)
(* node of the handle is taken over, or made.                              *)
Result(m, z) ==
    IF z.small THEN [memory |-> m, object |-> z]
    ELSE LET new == NewInteger(m, z.v)
             node == IF host = "native" THEN new.handle ELSE FreeNode(m)
         IN  [memory |-> IF host = "native" THEN new.memory
                         ELSE NewNode(new.memory, new.handle),
              object |-> [small |-> FALSE, v |-> node]]

(* get_handle_or_upload, and the end of its Scoped_Handle.                 *)
Upload(m, x) ==
    IF x.small THEN NewInteger(m, x.v)
    ELSE [memory |-> m, handle |-> Handle(m, x)]

(* BigIntApi.get throws for a key it does not have.                        *)
Found(m, handles) ==
    IF \A handle \in handles : Known(m, Key(handle)) THEN m ELSE [m EXCEPT !.thrown = TRUE]

Release(m, x, handle) ==
    IF ~x.small THEN m
    ELSE IF host = "native" THEN DropReference(m, handle)
    ELSE DeleteInteger(m, Key(handle))

-----------------------------------------------------------------------------
Init ==
    /\ host \in Hosts
    /\ object \in [Registers -> {Small(v) : v \in Literals}]
    /\ memory = [nodes |-> <<>>, repo |-> <<>>, id |-> 0, thrown |-> FALSE]
    /\ trapped = FALSE

Become(m, objects) ==
    IF m.thrown
    THEN trapped' = TRUE /\ memory' = [memory EXCEPT !.id = m.id] /\ UNCHANGED <<host, object>>
    ELSE memory' = m /\ object' = objects /\ UNCHANGED <<host, trapped>>

(* An operand that JavaScript does not find ends the program.              *)
Operating(S) == ~trapped /\ \A a \in S : Readable(memory, object[a])

Trap(a) ==
    /\ ~trapped
    /\ ~Readable(memory, object[a])
    /\ trapped' = TRUE
    /\ UNCHANGED <<host, object, memory>>

Bounded(z) == z.v \in -Cap .. Cap

(* operator=(Big_Int&&): the register is zeroed, takes what the other has, *)
(* and the other is zeroed.                                                *)
MoveAssign(m, r, x) == Become(SetZero(m, object[r]), [object EXCEPT ![r] = x])

Move(r, a) ==
    /\ ~trapped
    /\ IF r = a
       THEN Become(SetZero(memory, object[r]), [object EXCEPT ![r] = Small(0)])
       ELSE Become(SetZero(memory, object[r]),
                   [object EXCEPT ![r] = object[a], ![a] = Small(0)])

(* operator=(const Big_Int&): a copy is made, swapped in, and destroyed.   *)
Copy(r, a) ==
    /\ ~trapped /\ r # a
    /\ LET m == IF object[a].small THEN memory ELSE AddReference(memory, object[a].v)
       IN  Become(SetZero(m, object[r]), [object EXCEPT ![r] = object[a]])

(* operator=(Int128)                                                       *)
Load(r, v) == ~trapped /\ MoveAssign(memory, r, Small(v))

(* An operation makes a temporary, which is moved into the register.       *)
Assign(r, z) ==
    /\ Bounded(z)
    /\ LET new == Result(memory, z) IN MoveAssign(new.memory, r, new.object)

UnaryResults(x) ==
    {Negated(x), Complement(x), AbsoluteValue(x), Incremented(x), Decremented(host, x)}
    \cup {Shl(x, s) : s \in Shifts} \cup {Shr(x, s) : s \in Shifts}
    \cup {Pow(x, e) : e \in {e \in Exponents : PowerDefined(x, e)}} \cup {Pow2(e) : e \in Exponents}

Unary(r, a) ==
    /\ Operating({a})
    /\ \E z \in UnaryResults(View(memory, object[a])) : Assign(r, z)

(* A small number minus a big one makes another temporary first, the       *)
(* host's difference the other way around.                                 *)
Binary(r, a, b) ==
    /\ Operating({a, b})
    /\ LET x == View(memory, object[a])
           y == View(memory, object[b])
       IN  \E z \in {Plus(host, x, y), Times(x, y),
                     And(host, x, y), Or(host, x, y), Xor(host, x, y)} : Assign(r, z)

Subtract(r, a, b) ==
    /\ Operating({a, b})
    /\ LET x == View(memory, object[a])
           y == View(memory, object[b])
           z == Minus(host, x, y)
           reverse == Result(memory, Yield(y.v - x.v))
           new == IF x.small /\ ~y.small
                  THEN LET result == Result(reverse.memory, z)
                       IN  [result EXCEPT !.memory = SetZero(@, reverse.object)]
                  ELSE Result(memory, z)
       IN  Bounded(z) /\ Bounded(Yield(y.v - x.v)) /\ MoveAssign(new.memory, r, new.object)

(* div, rem and div_rem leave small operands to the host as well, when the *)
(* other one is big: they are uploaded, and deleted afterwards.            *)
Divide(q, r, a, b, rounding) ==
    /\ Operating({a, b})
    /\ q # r
    /\ LET x == View(memory, object[a])
           y == View(memory, object[b])
           both == x.small /\ y.small
           z == DivRem(host, rounding, x, y)
           xh == Upload(memory, object[a])
           yh == Upload(xh.memory, object[b])
           m0 == IF both THEN memory ELSE Found(yh.memory, {xh.handle, yh.handle})
           quotient == Result(m0, z.quotient)
           remainder == Result(quotient.memory, z.remainder)
           m1 == Release(remainder.memory, object[b], yh.handle)
           m2 == IF both THEN remainder.memory ELSE Release(m1, object[a], xh.handle)
           m3 == SetZero(SetZero(m2, object[q]), object[r])
       IN  /\ y.v # 0
           /\ Bounded(z.quotient) /\ Bounded(z.remainder)
           /\ IF remainder.memory.thrown
              THEN Become(remainder.memory, object)
              ELSE Become(m3, [object EXCEPT ![q] = quotient.object, ![r] = remainder.object])

(* Printed, and parsed again.                                              *)
Reparse(r, a, base) ==
    /\ Operating({a})
    /\ LET text == PrintTo(View(memory, object[a]), base)
       IN  text.fits /\ Assign(r, FromCharacters(text, base))

Next ==
    \/ \E r, a \in Registers : Move(r, a) \/ Copy(r, a) \/ Unary(r, a)
    \/ \E r \in Registers, v \in Literals : Load(r, v)
    \/ \E r, a, b \in Registers : Binary(r, a, b) \/ Subtract(r, a, b)
    \/ \E q, r, a, b \in Registers, rounding \in Roundings : Divide(q, r, a, b, rounding)
    \/ \E r, a \in Registers, base \in Bases : Reparse(r, a, base)
    \/ \E a \in Registers : Trap(a)

Spec == Init /\ [][Next]_vars

-----------------------------------------------------------------------------
TypeOK ==
    /\ host \in Hosts
    /\ object \in [Registers -> Object]
    /\ DOMAIN memory.nodes \subseteq Nodes
    /\ \A n \in DOMAIN memory.nodes : memory.nodes[n] \in [owners : Nat \ {0}, is : Int]
    /\ DOMAIN memory.repo \subseteq 1 .. memory.id
    /\ memory.id \in 0 .. MaxId
    /\ trapped \in BOOLEAN

Operands == {View(memory, object[r]) : r \in {r \in Registers : Readable(memory, object[r])}}

(* Whatever two integers are in objects, small or big, with either host,   *)
(* the operations of Big_Int on them give the exact results, and neither   *)
(* the paths for Int128 nor those through the host lose a bit: the hazard  *)
(* is at the border between the two.                                       *)
SumsAreExact(x, y) ==
    /\ Plus(host, x, y).v = x.v + y.v
    /\ Minus(host, x, y).v = x.v - y.v
    /\ Times(x, y).v = x.v * y.v
    /\ Negated(x).v = -x.v
    /\ AbsoluteValue(x).v = Magnitude(x.v)
    /\ Incremented(x).v = x.v + 1
    /\ Decremented(host, x).v = x.v - 1
    /\ (Compare(x, y) < 0) = (x.v < y.v) /\ (Compare(x, y) = 0) = (x.v = y.v)

PowersAreExact(x) ==
    \A e \in Exponents :
        /\ PowerDefined(x, e) /\ e >= 0 => Pow(x, e).v = Power(x.v, e)
        /\ e >= 0 => Pow2(e).v = Power(2, e)

RestSign(rounding, a, b) ==
    CASE rounding = "to_zero" -> Sign(a)
      [] rounding = "to_pos_inf" -> -Sign(b)
      [] rounding = "to_neg_inf" -> Sign(b)

QuotientsAreExact(x, y) ==
    y.v # 0 => \A rounding \in Roundings :
        LET result == DivRem(host, rounding, x, y)
            q == result.quotient.v
            rest == result.remainder.v
        IN  /\ q * y.v + rest = x.v
            /\ Magnitude(rest) < Magnitude(y.v)
            /\ \/ rest = 0
               \/ Sign(rest) = RestSign(rounding, x.v, y.v)
            /\ Div(host, rounding, x, y).v = q
            /\ Rem(host, rounding, x, y).v = rest

BitsAreExact(x, y) ==
    /\ \A i \in 0 .. 3 * HalfBits :
        /\ Bit(And(host, x, y).v, i) = (Bit(x.v, i) /\ Bit(y.v, i))
        /\ Bit(Or(host, x, y).v, i) = (Bit(x.v, i) \/ Bit(y.v, i))
        /\ Bit(Xor(host, x, y).v, i) = (Bit(x.v, i) # Bit(y.v, i))
        /\ Bit(Complement(x).v, i) = ~Bit(x.v, i)
    /\ \A s \in Shifts :
        LET left == Shl(x, s).v
            right == Shr(x, -s).v
        IN  /\ IF s >= 0 THEN left = x.v * Power(2, s)
               ELSE left * Power(2, -s) <= x.v /\ x.v < (left + 1) * Power(2, -s)
            /\ -s \in -IntMax - 1 .. IntMax => right = left
    /\ LET w == TwosWidth(host, x)
       IN  /\ -Power(2, w - 1) <= x.v /\ x.v < Power(2, w - 1)
           /\ w > 1 => x.v < -Power(2, w - 2) \/ Power(2, w - 2) <= x.v

TextIsExact(x) ==
    \A base \in Bases :
        /\ PrintTo(x, base).fits
        /\ FromCharacters(PrintTo(x, base), base).v = x.v

ResultsAreExact ==
    \A x, y \in Operands :
        /\ SumsAreExact(x, y) /\ QuotientsAreExact(x, y)
        /\ PowersAreExact(x) /\ BitsAreExact(x, y) /\ TextIsExact(x)

(* An integer that fits into an Int128 is never left in the host: the      *)
(* conversions and the fast paths rely on one representation per value.    *)
OneRepresentation ==
    \A r \in Registers :
        Readable(memory, object[r]) => object[r].small = (View(memory, object[r]).v \in -Limit .. Limit - 1)

(* Arithmetic is exact, and stays so from one operation to the next, since *)
(* every result has the representation that the next operation expects.    *)
ExactAndCanonical == ResultsAreExact /\ OneRepresentation

(* A node counts exactly the objects that own it, and every integer in the *)
(* host of WASM belongs to exactly one node: nothing leaks, and nothing is *)
(* freed that an object still refers to, through copies, moves, moves to   *)
(* itself, temporaries and uploads.                                        *)
OwnersAreCounted ==
    ~trapped =>
        /\ \A r \in Registers : object[r].small \/ object[r].v \in DOMAIN memory.nodes
        /\ \A n \in DOMAIN memory.nodes :
            memory.nodes[n].owners =
                Cardinality({r \in Registers : ~object[r].small /\ object[r].v = n})
        /\ host = "wasm" => DOMAIN memory.repo = {memory.nodes[n].is : n \in DOMAIN memory.nodes}

(* JavaScript throws no exception before the number of integers made in    *)
(* the host leaves the range of a signed key.                              *)
TrapsAreLate == trapped => memory.id > MaxId \div 2

(* Whatever objects do with their references, an object always finds its   *)
(* integer, nobody keeps one that no object has, and the host runs out of  *)
(* keys only by the number of integers made, never by a leak.              *)
ReferencesAreSound == TypeOK /\ OwnersAreCounted /\ TrapsAreLate
=============================================================================
