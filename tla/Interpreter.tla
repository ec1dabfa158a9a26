---------------------------- MODULE Interpreter ----------------------------
(***************************************************************************)
(* SymbolicInterpreter's shadow machine: the stack of operands, the        *)
(* predicate register and the symbolic memory that the calls inserted by   *)
(* crestAll.ml keep beside the program.  The interpreter's methods are     *)
(* functions of its state SI; the actions are the program's statements,    *)
(* each with the calls the instrumentation puts around it.                 *)
(*                                                                         *)
(* A symbolic expression is the function from the value of the marked      *)
(* input to its own value, so arithmetic is pointwise and IsConcrete says  *)
(* it is constant; expressions are linear, so this loses nothing.          *)
(***************************************************************************)
EXTENDS Integers, Sequences, FiniteSets

CONSTANTS
    Values,         \* values the marked input can take
    Consts,         \* literals of the program
    Addrs,          \* addresses of its integer variables
    Marked,         \* the variable marked as input
    Moduli,         \* numbers of values of the narrower integer types
    Features,       \* what programs may do: "nested", apply operators to a
                    \* comparison's result; "pointer", compute with pointers;
                    \* "cast", change a value by a cast; "overflow", compute
                    \* what its type cannot hold; "variadic", call an
                    \* instrumented function of variable arguments; "callback",
                    \* be called by a library; "overwrite", have a symbolic
                    \* value overwritten by a statement or a library that the
                    \* interpreter is not told of
    MaxStack,       \* bound: operands of one expression
    MaxFrames,      \* bound: active functions
    MaxAbs,         \* bound: magnitude of the program's values
    MaxUsed,        \* bound: Features that one run uses
    MaxSteps        \* bound: statements and operators executed

ASSUME InterpreterAssumption ==
    /\ Values \subseteq Int /\ Consts \subseteq Int
    /\ Marked \in Addrs
    /\ Moduli \subseteq Nat \ {0}
    /\ Features \subseteq {"nested", "pointer", "cast", "overflow", "variadic",
                            "callback", "overwrite"}
    /\ {MaxStack, MaxFrames, MaxAbs, MaxUsed, MaxSteps} \subseteq Nat

VARIABLES
    SI,         \* the interpreter
    input,      \* this run's value of the marked input
    memory,     \* the program's own memory
    frames,     \* active functions, innermost first
    aborted,    \* an assert of the interpreter failed
    used,       \* history: the Features this run has used
    steps

vars == <<SI, input, memory, frames, aborted, used, steps>>

Null == {}                      \* an absent expression or predicate
Exprs == [Values -> Int]
Constant(v) == [x \in Values |-> v]
IsConcrete(f) == \A x, y \in Values : f[x] = f[y]

ArithmeticOps == {"add", "subtract", "multiply", "shift"}
CompareOps == {"eq", "lt"}
UnaryOps == {"negate", "not", "bitwise"}

\* Operators crestAll.ml has no code of its own for, those of pointers, are
\* applied as comparisons: ops::CONCRETE read as a compare_op_t is LT.
PointerOp == "pointer"

Truth(b) == IF b THEN 1 ELSE 0
Compare(op, v, w) == IF op = "eq" THEN v = w ELSE v < w
Arithmetic(op, v, w) ==
    CASE op = "add" -> v + w
      [] op = "subtract" -> v - w
      [] op = "multiply" -> v * w
      [] op = "shift" -> v * 2 ^ w
Unary(op, v) ==
    CASE op = "negate" -> -v
      [] op = "not" -> Truth(v = 0)
      [] op = "bitwise" -> -v - 1

\* v in an integer type of m values.
Converted(v, m, signed) ==
    IF signed THEN ((v + (m \div 2)) % m) - (m \div 2) ELSE v % m

\* What an operator with result v may leave: v, or what its type makes of it.
Results(v) == {v} \cup {Converted(v, m, signed) : m \in Moduli, signed \in BOOLEAN}

-----------------------------------------------------------------------------
(* The interpreter's methods.  Two fields of an operand are the model's:   *)
(* value is what the program has computed, which casts change and the      *)
(* interpreter's concrete value does not; compared marks the result of a   *)
(* comparison.                                                             *)

Elem(expr, concrete) ==
    [expr |-> expr, concrete |-> concrete, value |-> concrete, compared |-> FALSE]

\* The operands of a binary operator; the top of the stack is last.
Below(si) == SubSeq(si.stack_, 1, Len(si.stack_) - 2)
Left(si) == si.stack_[Len(si.stack_) - 1]
Top(si) == si.stack_[Len(si.stack_)]
Popped(si) == SubSeq(si.stack_, 1, Len(si.stack_) - 1)

\* An operand as an expression, a concrete one as a constant.
AsExpr(e) == IF e.expr = Null THEN Constant(e.concrete)
             ELSE CHOOSE f \in e.expr : TRUE

IsSymbolic(e) == e.expr # Null

\* Mutated form: a load leaves the predicate register alone.
LoadKeepsPredicate(si, addr, value) ==
    [si EXCEPT !.stack_ = Append(@, Elem(si.mem_[addr], value))]

Load(si, addr, value) ==
    [si EXCEPT !.stack_ = Append(@, Elem(si.mem_[addr], value)), !.pred_ = Null]

\* A literal, or an expression that cannot be instrumented: address zero.
LoadConstant(si, value) ==
    [si EXCEPT !.stack_ = Append(@, Elem(Null, value)), !.pred_ = Null]

\* Mutated form: a concrete value leaves the old expression in memory.
StoreSymbolicOnly(si, addr) ==
    [si EXCEPT !.mem_[addr] = IF IsSymbolic(Top(si)) THEN Top(si).expr ELSE @,
               !.stack_ = Popped(si), !.pred_ = Null]

Store(si, addr) ==
    [si EXCEPT !.mem_[addr] = {f \in Top(si).expr : ~IsConcrete(f)},
               !.stack_ = Popped(si), !.pred_ = Null]

\* LOGICAL_NOT reaches the predicate only if the operand is symbolic too.
ApplyUnaryOp(si, op, value) ==
    LET se == Top(si)
        NotPredicate == op = "not" /\ si.pred_ # Null
        expr == IF op = "negate"
                THEN {[x \in Values |-> -f[x]] : f \in se.expr}
                ELSE IF NotPredicate THEN se.expr ELSE Null
    IN [si EXCEPT
        !.stack_ = Append(Popped(si), Elem(expr, value)),
        !.pred_ = IF ~IsSymbolic(se) THEN @
                  ELSE IF NotPredicate THEN {[x \in Values |-> ~p[x]] : p \in @}
                  ELSE Null]

\* Mutated form: symbolic minus concrete and concrete minus symbolic agree.
BinaryExprUnsigned(op, a, b) ==
    CASE op = "add" ->
            [x \in Values |-> AsExpr(a)[x] + AsExpr(b)[x]]
      [] op = "subtract" ->
            IF IsSymbolic(a) THEN [x \in Values |-> AsExpr(a)[x] - AsExpr(b)[x]]
            ELSE [x \in Values |-> AsExpr(b)[x] - a.concrete]
      [] op = "multiply" ->
            IF IsSymbolic(b) THEN [x \in Values |-> AsExpr(b)[x] * a.concrete]
            ELSE [x \in Values |-> AsExpr(a)[x] * b.concrete]
      [] op = "shift" ->
            [x \in Values |-> AsExpr(a)[x] * 2 ^ b.concrete]

\* The expression of a followed operator with a symbolic operand.  A product
\* of two symbolic values takes the left one at its concrete value.
BinaryExpr(op, a, b) ==
    CASE op = "add" ->
            [x \in Values |-> AsExpr(a)[x] + AsExpr(b)[x]]
      [] op = "subtract" ->
            [x \in Values |-> AsExpr(a)[x] - AsExpr(b)[x]]
      [] op = "multiply" ->
            IF IsSymbolic(b) THEN [x \in Values |-> AsExpr(b)[x] * a.concrete]
            ELSE [x \in Values |-> AsExpr(a)[x] * b.concrete]
      [] op = "shift" ->
            [x \in Values |-> AsExpr(a)[x] * 2 ^ b.concrete]

\* Any other operator ("concrete") makes its result concrete, as does a shift
\* of a concrete value.
ApplyBinaryOp(si, op, value) ==
    LET a == Left(si)
        b == Top(si)
        Followed == \/ op \in {"add", "subtract", "multiply"}
                       /\ (IsSymbolic(a) \/ IsSymbolic(b))
                    \/ op = "shift" /\ IsSymbolic(a)
    IN [si EXCEPT
        !.stack_ = Append(Below(si),
            Elem(IF Followed THEN {BinaryExpr(op, a, b)} ELSE Null, value)),
        !.pred_ = Null]

\* The predicate is a - b compared with zero.  With two concrete operands the
\* register keeps what it holds.
ApplyCompareOp(si, op, value) ==
    LET a == Left(si)
        b == Top(si)
        diff == [x \in Values |-> AsExpr(a)[x] - AsExpr(b)[x]]
        pred == [x \in Values |-> Compare(op, diff[x], 0)]
    IN [si EXCEPT
        !.stack_ = Append(Below(si),
            [Elem(Null, value) EXCEPT !.compared = op # PointerOp]),
        !.pred_ = IF ~IsSymbolic(a) /\ ~IsSymbolic(b) THEN @
                  ELSE IF IsConcrete(diff) THEN Null ELSE {pred}]

\* Mutated form: the predicate is never negated.
BranchUnnegated(si, pred_value) ==
    [si EXCEPT !.constraints = @ \cup si.pred_, !.stack_ = <<>>, !.pred_ = Null]

Branch(si, pred_value) ==
    LET taken == {[x \in Values |-> p[x] = pred_value] : p \in si.pred_}
    IN [si EXCEPT !.constraints = @ \cup taken, !.stack_ = <<>>, !.pred_ = Null]

\* Mutated form: the operands of the call stay on the stack.
ClearStackPredicate(si) == [si EXCEPT !.pred_ = Null, !.return_value_ = FALSE]

ClearStack(si) ==
    [si EXCEPT !.stack_ = <<>>, !.pred_ = Null, !.return_value_ = FALSE]

Return(si) == [si EXCEPT !.return_value_ = Len(si.stack_) = 1]
ReturnAssert(si) == Len(si.stack_) <= 1

\* Mutated form: what the callee left is dropped.
HandleReturnConcrete(si, value) == LoadConstant(ClearStack(si), value)

HandleReturn(si, value) ==
    IF si.return_value_ THEN [si EXCEPT !.return_value_ = FALSE]
    ELSE LoadConstant(ClearStack(si), value)
HandleReturnAssert(si) == si.return_value_ => Len(si.stack_) = 1

-----------------------------------------------------------------------------
(* The program.  own counts the operands the innermost function has        *)
(* evaluated for its current statement.                                    *)

Frame(kind) == [kind |-> kind, own |-> 0]
InFunction == frames[1].kind = "function"
own == frames[1].own
SetOwn(n) == frames' = [frames EXCEPT ![1].own = n]
Enter(kind) ==
    /\ Len(frames) < MaxFrames
    /\ frames' = <<Frame(kind)>> \o [frames EXCEPT ![1].own = 0]

InRange(v) == v \in -MaxAbs..MaxAbs
Use(features) ==
    /\ features \subseteq Features /\ used' = used \cup features
    /\ Cardinality(used') <= MaxUsed
Nesting(e) == IF e.compared THEN {"nested"} ELSE {}
Overflow(v, value) == IF value = v THEN {} ELSE {"overflow"}
Overwriting(addr) == IF SI.mem_[addr] # Null THEN {"overwrite"} ELSE {}

\* The first input has just been marked: nothing is followed before that.
Init ==
    /\ input \in Values
    /\ memory \in [Addrs -> Consts \cup {input}] /\ memory[Marked] = input
    /\ SI = [stack_ |-> <<>>, pred_ |-> Null, return_value_ |-> FALSE,
             mem_ |-> [a \in Addrs |->
                 IF a = Marked THEN {[x \in Values |-> x]} ELSE Null],
             constraints |-> {}]
    /\ frames = <<Frame("function")>>
    /\ aborted = FALSE /\ used = {} /\ steps = 0

Running ==
    /\ ~aborted /\ steps < MaxSteps /\ steps' = steps + 1
    /\ UNCHANGED input

\* instrumentExpr, one call per node of the expression tree.
Evaluate(addr) ==
    /\ Running /\ InFunction /\ own < MaxStack
    /\ SI' = Load(SI, addr, memory[addr])
    /\ SetOwn(own + 1)
    /\ UNCHANGED <<memory, aborted, used>>

EvaluateLiteral(c) ==
    /\ Running /\ InFunction /\ own < MaxStack
    /\ SI' = LoadConstant(SI, c)
    /\ SetOwn(own + 1)
    /\ UNCHANGED <<memory, aborted, used>>

EvaluateUnary(op) ==
    /\ Running /\ InFunction /\ own >= 1
    /\ LET v == Unary(op, Top(SI).value)
       IN \E value \in IF op = "not" THEN {v} ELSE Results(v) :
            /\ Use(Nesting(Top(SI)) \cup Overflow(v, value)) /\ InRange(value)
            /\ SI' = ApplyUnaryOp(SI, op, value)
    /\ UNCHANGED <<memory, frames, aborted>>

EvaluateBinary(op) ==
    /\ Running /\ InFunction /\ own >= 2
    /\ op = "shift" => {Top(SI).value, Top(SI).concrete} \subseteq 0..MaxAbs
    /\ LET v == Arithmetic(op, Left(SI).value, Top(SI).value)
       IN \E value \in Results(v) :
            /\ Use(Nesting(Left(SI)) \cup Nesting(Top(SI)) \cup Overflow(v, value))
            /\ InRange(value)
            /\ SI' = ApplyBinaryOp(SI, op, value)
    /\ SetOwn(own - 1)
    /\ UNCHANGED <<memory, aborted>>

\* A cast is dropped: whoever uses the operand computes with its new value,
\* the interpreter with the old one.  A cast that keeps the value is no step.
EvaluateCast(m, signed) ==
    LET value == Converted(Top(SI).value, m, signed)
    IN /\ Running /\ InFunction /\ own >= 1
       /\ ~Top(SI).compared /\ value # Top(SI).value
       /\ Use({"cast"}) /\ InRange(value)
       /\ SI' = [SI EXCEPT !.stack_ =
                    Append(Popped(SI), [Top(SI) EXCEPT !.value = value])]
       /\ UNCHANGED <<memory, frames, aborted>>

\* A division, a bitwise or a logical operator: the interpreter does not follow
\* it, so it may compute anything.
EvaluateOther(value) ==
    /\ Running /\ InFunction /\ own >= 2
    /\ Use(Nesting(Left(SI)) \cup Nesting(Top(SI)))
    /\ SI' = ApplyBinaryOp(SI, "concrete", value)
    /\ SetOwn(own - 1)
    /\ UNCHANGED <<memory, aborted>>

EvaluateComparison(op) ==
    LET value == Truth(Compare(op, Left(SI).value, Top(SI).value))
    IN /\ Running /\ InFunction /\ own >= 2
       /\ Use(Nesting(Left(SI)) \cup Nesting(Top(SI)))
       /\ SI' = ApplyCompareOp(SI, op, value)
       /\ SetOwn(own - 1)
       /\ UNCHANGED <<memory, aborted>>

\* Pointer arithmetic: the result may be any address or distance.
EvaluatePointerOp(value) ==
    /\ Running /\ InFunction /\ own >= 2
    /\ Use({"pointer"} \cup Nesting(Left(SI)) \cup Nesting(Top(SI)))
    /\ SI' = ApplyCompareOp(SI, PointerOp, value)
    /\ SetOwn(own - 1)
    /\ UNCHANGED <<memory, aborted>>

\* An assignment of an integer to a variable with an address.
Assign(addr) ==
    /\ Running /\ InFunction /\ own = 1
    /\ SI' = Store(SI, addr)
    /\ memory' = [memory EXCEPT ![addr] = Top(SI).value]
    /\ SetOwn(0)
    /\ UNCHANGED <<aborted, used>>

\* Memory changes without a call of the interpreter.
WriteUnseen(addr, value) ==
    /\ Use(Overwriting(addr))
    /\ memory' = [memory EXCEPT ![addr] = value]
    /\ UNCHANGED <<SI, frames, aborted>>

\* Any other assignment, of a structure with this variable in it, say, or of a
\* pointer or a bit field, is not instrumented.
AssignUnseen(addr, value) == Running /\ InFunction /\ own = 0 /\ WriteUnseen(addr, value)

\* mkPredicate has made every condition a comparison.
If ==
    /\ Running /\ InFunction /\ own = 1 /\ Top(SI).compared
    /\ SI' = Branch(SI, Top(SI).value # 0)
    /\ SetOwn(0)
    /\ UNCHANGED <<memory, aborted, used>>

\* An instrumented callee stores its parameter, if it has one, on entry.
CallFunction(addr) ==
    /\ Running /\ InFunction /\ own <= 1
    /\ IF own = 0 THEN UNCHANGED <<SI, memory>>
       ELSE /\ SI' = Store(SI, addr)
            /\ memory' = [memory EXCEPT ![addr] = Top(SI).value]
    /\ Enter("function")
    /\ UNCHANGED <<aborted, used>>

\* One with variable arguments stores none: they stay on the stack, while its
\* named parameter has the value of the first.
CallVariadic(addr) ==
    /\ Running /\ InFunction /\ own >= 1
    /\ Use({"variadic"} \cup Overwriting(addr))
    /\ memory' = [memory EXCEPT ![addr] =
                    SI.stack_[Len(SI.stack_) - own + 1].value]
    /\ Enter("function")
    /\ UNCHANGED <<SI, aborted>>

CallLibrary ==
    /\ Running /\ InFunction
    /\ Enter("library")
    /\ UNCHANGED <<SI, memory, aborted, used>>

\* The library writes a variable of the program, as MPI_Recv does: the
\* interpreter is not told.
LibraryWrites(addr, value) == Running /\ ~InFunction /\ WriteUnseen(addr, value)

\* The library calls a function of the program, one without parameters.
Callback ==
    /\ Running /\ ~InFunction /\ Use({"callback"})
    /\ Enter("function")
    /\ UNCHANGED <<SI, memory, aborted>>

\* After the call: its value is assigned, or the stack is cleared.
AssignResult(si, addr, value) ==
    /\ SI' = Store(HandleReturn(si, value), addr)
    /\ memory' = [memory EXCEPT ![addr] = value]

DiscardResult(si) == SI' = ClearStack(si) /\ UNCHANGED memory

FunctionReturns ==
    /\ Running /\ InFunction /\ Len(frames) > 1 /\ own <= 1
    /\ UNCHANGED used
    /\ LET si == Return(SI)
           Asserts == ReturnAssert(SI) /\ HandleReturnAssert(si)
       IN /\ aborted' = ~Asserts
          /\ IF ~Asserts THEN UNCHANGED <<SI, memory, frames>>
             ELSE /\ frames' = Tail(frames)
                  /\ IF frames[2].kind = "library"
                     THEN SI' = si /\ UNCHANGED memory
                     ELSE \/ DiscardResult(si)
                          \/ /\ own = 1
                             /\ \E addr \in Addrs :
                                AssignResult(si, addr, Top(SI).value)

LibraryReturns(value) ==
    /\ Running /\ ~InFunction /\ UNCHANGED used
    /\ aborted' = ~HandleReturnAssert(SI)
    /\ IF aborted' THEN UNCHANGED <<SI, memory, frames>>
       ELSE /\ frames' = Tail(frames)
            /\ \/ DiscardResult(SI)
               \/ \E addr \in Addrs : AssignResult(SI, addr, value)

Next ==
    \/ \E addr \in Addrs : \/ Evaluate(addr) \/ Assign(addr)
                           \/ CallFunction(addr) \/ CallVariadic(addr)
    \/ \E addr \in Addrs, c \in Consts :
        LibraryWrites(addr, c) \/ AssignUnseen(addr, c)
    \/ \E c \in Consts : \/ EvaluateLiteral(c) \/ EvaluateOther(c)
                         \/ EvaluatePointerOp(c) \/ LibraryReturns(c)
    \/ \E m \in Moduli, signed \in BOOLEAN : EvaluateCast(m, signed)
    \/ \E op \in UnaryOps : EvaluateUnary(op)
    \/ \E op \in ArithmeticOps : EvaluateBinary(op)
    \/ \E op \in CompareOps : EvaluateComparison(op)
    \/ If \/ CallLibrary \/ Callback \/ FunctionReturns

Spec == Init /\ [][Next]_vars

-----------------------------------------------------------------------------
(* Properties *)

\* Concrete and symbolic execution agree: under this run's input every
\* expression on the stack or in symbolic memory has the value the program
\* has, in every run in which no cast changes a value and no operator's result
\* overflows, nothing writes over a symbolic value unseen and no library calls
\* back.
ConcolicAgree ==
    {"cast", "overflow", "overwrite", "callback"} \cap used = {} =>
        /\ \A n \in DOMAIN SI.stack_ :
            \A f \in SI.stack_[n].expr : f[input] = SI.stack_[n].value
        /\ \A a \in Addrs : \A f \in SI.mem_[a] : f[input] = memory[a]

\* The predicate register holds "when top of stack is a symbolic predicate"
\* (symbolic_interpreter.h:108): it is true of this run's input exactly when
\* the value on top of the stack is.
PredicateOnTop ==
    \A p \in SI.pred_ :
        SI.stack_ # <<>> /\ p[input] = (Top(SI).value # 0)

\* It does so in plain programs, which use none of the Features: no earlier
\* comparison's predicate is left when a later one has concrete operands.
\* Operators on a comparison's result and pointer arithmetic both leave one.
PlainPredicateOnTop == used = {} => PredicateOnTop

\* Every constraint a plain program gives the solver holds in its run.
ConstraintsHold == used = {} => \A p \in SI.constraints : p[input]

\* Between calls the shadow stack holds the operands of the innermost
\* function's statement and nothing else, so a condition is the one operand
\* that Branch's disabled assert asks for (symbolic_interpreter.cc:338), in
\* every run without callbacks and without instrumented functions of variable
\* arguments, which leave those on the stack.
StackIsOwn ==
    InFunction /\ ~aborted /\ {"variadic", "callback"} \cap used = {}
        => Len(SI.stack_) = own

\* In such runs "there is either exactly one value on the stack -- the
\* current function's return value -- or the stack is empty" when a function
\* returns (symbolic_interpreter.cc:297-299), and HandleReturn's assert holds
\* (symbolic_interpreter.cc:313).
NeverAborts == {"variadic", "callback"} \cap used = {} => ~aborted
=============================================================================
