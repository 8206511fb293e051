------------------------------- MODULE Types -------------------------------
(***************************************************************************)
(* The types, qualifiers and values of the language (ir/type.ts), with the *)
(* arithmetic twice: as the checker folds it (checker/check.ts) and as the *)
(* values of a run do it (runtime/js/value.ts).                            *)
(*                                                                         *)
(* Types and the values of constants are tuples whose first element says   *)
(* what they are.  A number is an integer count of 1/Scale.                *)
(***************************************************************************)
EXTENDS Integers, Sequences

IntType == <<"int">>
FloatType == <<"float">>
BoolType == <<"bool">>
NaType == <<"na">>
VoidType == <<"void">>
InvalidType == <<"invalid">>
TupleType(elems) == <<"tuple", elems>>
NoType == <<"none">>          (* where there is no type: no join, no annotation *)

IsNumericType(t) == t \in {IntType, FloatType, NaType}
Nullable(t) == t \in {IntType, FloatType}

Assignable(from, to) ==
  \/ from = to
  \/ from = IntType /\ to = FloatType
  \/ from = NaType /\ Nullable(to)
  \/ InvalidType \in {from, to}

(* The type two types have in common, or NoType.                             *)
UnifyTypes(a, b) ==
  CASE a = b -> a
    [] a = InvalidType -> b
    [] b = InvalidType -> a
    [] a = NaType /\ Nullable(b) -> b
    [] b = NaType /\ Nullable(a) -> a
    [] {a, b} = {IntType, FloatType} -> FloatType
    [] OTHER -> NoType
(* Branches that do not agree make their structure valueless.                *)
UnifyOrVoid(a, b) ==
  IF VoidType \in {a, b} \/ UnifyTypes(a, b) = NoType THEN VoidType ELSE UnifyTypes(a, b)
NumericResult(a, b) ==
  CASE FloatType \in {a, b} -> FloatType [] IntType \in {a, b} -> IntType [] OTHER -> NaType

(* When a value is known: to the compiler, at bind time, before the first    *)
(* bar, on each bar.                                                         *)
Rank == [const |-> 0, input |-> 1, simple |-> 2, series |-> 3]
QualifierLE(a, b) == Rank[a] <= Rank[b]
JoinQualifiers(a, b) == IF QualifierLE(a, b) THEN b ELSE a

-----------------------------------------------------------------------------
Scale == 4
NoValue == <<"unknown">>      (* not known to the compiler                     *)
NA == <<"na">>
Num(n) == <<"num", n>>
Bool(b) == <<"bool", b>>
Known(v) == v # NoValue
Whole(n) == Num(Scale * n)
Zero == Whole(0)
IsNum(v) == v[1] = "num"

LOCAL Magnitude(n) == IF n < 0 THEN -n ELSE n
(* The quotient without its fraction, and the remainder that goes with it.   *)
LOCAL Quotient(a, b) ==
  IF (a < 0) = (b < 0) THEN Magnitude(a) \div Magnitude(b) ELSE -(Magnitude(a) \div Magnitude(b))
Truncated(v) == IF IsNum(v) THEN Whole(Quotient(v[2], Scale)) ELSE v

Arithmetic == {"+", "-", "*", "/", "%"}
Order == {"<", "<=", ">", ">="}

(* On two numbers; "whole" says whether a division drops its fraction.       *)
LOCAL Computed(op, a, b, whole) ==
  CASE op = "+" -> Num(a + b)
    [] op = "-" -> Num(a - b)
    [] op = "*" -> Num((a * b) \div Scale)
    [] op = "/" -> IF b = 0 THEN NA ELSE IF whole THEN Whole(Quotient(a, b)) ELSE Num((Scale * a) \div b)
    [] op = "%" -> IF b = 0 THEN NA ELSE Num(a - b * Quotient(a, b))
LOCAL Ordered(op, a, b) ==
  CASE op = "<" -> a < b [] op = "<=" -> a <= b [] op = ">" -> a > b [] op = ">=" -> a >= b

(* The compiler: constants of a type that was checked.                       *)
FoldBinary(op, a, b, type) ==
  CASE ~Known(a) \/ ~Known(b) -> NoValue
    [] NA \in {a, b} -> IF op \in Arithmetic THEN NA ELSE Bool(FALSE)
    [] op = "and" -> Bool(a[2] /\ b[2])
    [] op = "or" -> Bool(a[2] \/ b[2])
    [] op = "==" -> Bool(a = b)
    [] op = "!=" -> Bool(a # b)
    [] op \in Order -> Bool(Ordered(op, a[2], b[2]))
    [] OTHER -> Computed(op, a[2], b[2], type = IntType)

-----------------------------------------------------------------------------
(* A run: a value carries its kind, and the kinds decide.                    *)

Value(kind, v) == [kind |-> kind, v |-> v]
EmptyOf(type) ==
  CASE type = BoolType -> Value("bool", Bool(FALSE))
    [] type[1] = "tuple" -> Value("tuple", NA)
    [] OTHER -> Value(type[1], NA)
Undefined == Value("undefined", NA)
Missing(x) == x.v = NA
True(x) == x.v = Bool(TRUE)
(* The value of a constant that a type was given to.                         *)
Constant(v, type) == Value(EmptyOf(type).kind, IF v = NA THEN EmptyOf(type).v ELSE v)
SameType(type, x) == x.kind = EmptyOf(type).kind

RunBinary(op, x, y) ==
  CASE op \in Arithmetic ->
         LET kind == IF "float" \in {x.kind, y.kind} THEN "float" ELSE "int"
         IN Value(kind, IF Missing(x) \/ Missing(y) THEN NA ELSE Computed(op, x.v[2], y.v[2], kind = "int"))
    [] op \in Order -> Value("bool", Bool(~Missing(x) /\ ~Missing(y) /\ Ordered(op, x.v[2], y.v[2])))
    [] op = "==" -> Value("bool", Bool(~Missing(x) /\ ~Missing(y) /\ x.v = y.v))
    [] op = "!=" -> Value("bool", Bool(~Missing(x) /\ ~Missing(y) /\ x.v # y.v))
Negated(x) == Value(x.kind, IF Missing(x) THEN NA ELSE Num(-x.v[2]))
Not(x) == Value("bool", Bool(~True(x)))
(* What goes from a place for integers to one for floats.                    *)
Coerce(x, from, to) == IF from = IntType /\ to = FloatType THEN Value("float", x.v) ELSE x

(* An offset reaches into history when it is a whole number, not negative.   *)
IsHistoryOffset(x) == IsNum(x.v) /\ x.v[2] >= 0 /\ x.v[2] % Scale = 0
OffsetOf(x) == x.v[2] \div Scale
=============================================================================
