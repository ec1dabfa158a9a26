-------------------------- MODULE InterpreterProofs --------------------------
(***************************************************************************)
(* The shadow machine stays beside the program, for all programs, values   *)
(* and inputs, in runs of any length.  The invariant says what type each   *)
(* register has, that a caller of a function waits with no operand         *)
(* evaluated, and that a predicate is only ever held under a concrete      *)
(* result.                                                                 *)
(***************************************************************************)
EXTENDS Interpreter, SequenceTheorems, TLAPS

Predicates == [Values -> BOOLEAN]
Elems == [expr : SUBSET Exprs, concrete : Int, value : Int, compared : BOOLEAN]
SIs == [stack_ : Seq(Elems), pred_ : SUBSET Predicates,
        return_value_ : BOOLEAN, mem_ : [Addrs -> SUBSET Exprs],
        constraints : SUBSET Predicates]
Frames == [kind : {"function", "library"}, own : Nat]

TypeOK ==
    /\ SI \in SIs
    /\ input \in Values
    /\ memory \in [Addrs -> Int]
    /\ frames \in Seq(Frames)
    /\ aborted \in BOOLEAN
    /\ used \in SUBSET Features

(***************************************************************************)
(* The stack                                                               *)
(***************************************************************************)

\* Keeping the lowest k operands.
LEMMA Kept ==
    ASSUME NEW s \in Seq(Elems), NEW k \in 0..Len(s), NEW t,
           t = SubSeq(s, 1, k)
    PROVE  /\ t \in Seq(Elems)
           /\ Len(t) = k
           /\ \A n \in 1..k : t[n] = s[n]
<1>1. \A n \in 1..k : s[n] \in Elems
  BY LenProperties, ElementOfSeq
<1>2. Len(s) \in Nat
  BY LenProperties
<1>3. k \in Int /\ 1 \in Int
  BY <1>2
<1>4. /\ t \in Seq(Elems)
      /\ Len(t) = IF 1 <= k THEN k - 1 + 1 ELSE 0
      /\ \A n \in 1..(k - 1 + 1) : t[n] = s[1 + n - 1]
  BY <1>1, <1>3, SubSeqProperties
<1>5. QED
  BY <1>2, <1>4

\* Putting an operand on the lowest k.
LEMMA Put ==
    ASSUME NEW s \in Seq(Elems), NEW k \in 0..Len(s), NEW e \in Elems, NEW t,
           t = Append(SubSeq(s, 1, k), e)
    PROVE  /\ t \in Seq(Elems)
           /\ Len(t) = k + 1 /\ t[k + 1] = e
           /\ \A n \in 1..k : t[n] = s[n]
<1> DEFINE u == SubSeq(s, 1, k)
<1>1. /\ u \in Seq(Elems) /\ Len(u) = k
      /\ \A n \in 1..k : u[n] = s[n]
  BY Kept
<1> HIDE DEF u
<1>2. /\ Append(u, e) \in Seq(Elems)
      /\ Len(Append(u, e)) = Len(u) + 1
      /\ \A i \in 1..Len(u) : Append(u, e)[i] = u[i]
      /\ Append(u, e)[Len(u) + 1] = e
  BY <1>1, AppendProperties
<1>3. QED
  BY <1>1, <1>2 DEF u

\* Pushing an operand.
LEMMA Pushed ==
    ASSUME NEW s \in Seq(Elems), NEW e \in Elems, NEW t, t = Append(s, e)
    PROVE  /\ t \in Seq(Elems)
           /\ Len(t) = Len(s) + 1 /\ t[Len(s) + 1] = e
           /\ \A n \in 1..Len(s) : t[n] = s[n]
  BY AppendProperties

\* The operands are elements, and their number is natural.
LEMMA Operands ==
    ASSUME NEW si \in SIs
    PROVE  /\ si.stack_ \in Seq(Elems)
           /\ Len(si.stack_) \in Nat
           /\ DOMAIN si.stack_ = 1..Len(si.stack_)
           /\ \A n \in 1..Len(si.stack_) : si.stack_[n] \in Elems
           /\ Len(si.stack_) >= 1 => Top(si) \in Elems
           /\ Len(si.stack_) >= 2 => Left(si) \in Elems
<1>1. si.stack_ \in Seq(Elems)
  BY DEF SIs
<1>2. Len(si.stack_) \in Nat /\ DOMAIN si.stack_ = 1..Len(si.stack_)
  BY <1>1, LenProperties
<1>3. \A n \in 1..Len(si.stack_) : si.stack_[n] \in Elems
  BY <1>1, ElementOfSeq
<1>4. QED
  BY <1>1, <1>2, <1>3 DEF Top, Left

(***************************************************************************)
(* The methods                                                             *)
(***************************************************************************)

LEMMA LoadResult ==
    ASSUME NEW si \in SIs, NEW addr \in Addrs, NEW value \in Int,
           NEW t, t = Load(si, addr, value)
    PROVE  /\ t \in SIs
           /\ t.stack_ = Append(si.stack_, Elem(si.mem_[addr], value))
           /\ t.pred_ = Null /\ t.mem_ = si.mem_
           /\ t.return_value_ = si.return_value_
           /\ t.constraints = si.constraints
<1> DEFINE e == Elem(si.mem_[addr], value)
<1>1. e \in Elems
  BY DEF SIs, Elems, Elem
<1>2. Append(si.stack_, e) \in Seq(Elems)
  BY <1>1, Operands, Pushed
<1>3. QED
  BY <1>2 DEF Load, SIs, Null

LEMMA LoadConstantResult ==
    ASSUME NEW si \in SIs, NEW value \in Int,
           NEW t, t = LoadConstant(si, value)
    PROVE  /\ t \in SIs
           /\ t.stack_ = Append(si.stack_, Elem(Null, value))
           /\ t.pred_ = Null /\ t.mem_ = si.mem_
           /\ t.return_value_ = si.return_value_
           /\ t.constraints = si.constraints
<1> DEFINE e == Elem(Null, value)
<1>1. e \in Elems
  BY DEF Elems, Elem, Null
<1>2. Append(si.stack_, e) \in Seq(Elems)
  BY <1>1, Operands, Pushed
<1>3. QED
  BY <1>2 DEF LoadConstant, SIs, Null

LEMMA PoppedKeeps ==
    ASSUME NEW si \in SIs, Len(si.stack_) >= 1
    PROVE  /\ Popped(si) \in Seq(Elems)
           /\ Len(Popped(si)) = Len(si.stack_) - 1
           /\ \A n \in 1..Len(si.stack_) - 1 : Popped(si)[n] = si.stack_[n]
<1> DEFINE k == Len(si.stack_) - 1
<1>1. k \in 0..Len(si.stack_) /\ si.stack_ \in Seq(Elems)
  BY Operands
<1>2. Popped(si) = SubSeq(si.stack_, 1, k)
  BY DEF Popped
<1> HIDE DEF k
<1>3. /\ Popped(si) \in Seq(Elems) /\ Len(Popped(si)) = k
      /\ \A n \in 1..k : Popped(si)[n] = si.stack_[n]
  BY <1>1, <1>2, Kept
<1>4. QED
  BY <1>3 DEF k

\* The expressions of an operand that a store keeps.
Varying(e) == {f \in e.expr : ~IsConcrete(f)}

\* The result t of a store.
Stored(si, addr, t) ==
    /\ t \in SIs
    /\ t.stack_ = Popped(si)
    /\ t.mem_ = [si.mem_ EXCEPT ![addr] = Varying(Top(si))]
    /\ t.pred_ = Null
    /\ t.return_value_ = si.return_value_
    /\ t.constraints = si.constraints

LEMMA StoreResult ==
    ASSUME NEW si \in SIs, NEW addr \in Addrs, Len(si.stack_) >= 1
    PROVE  Stored(si, addr, Store(si, addr))
<1> DEFINE E == Varying(Top(si))
           m == [si.mem_ EXCEPT ![addr] = E]
           t == Store(si, addr)
<1>1. E \in SUBSET Exprs
  BY Operands DEF Elems, Varying
<1>2. Popped(si) \in Seq(Elems)
  BY PoppedKeeps
<1>3. m \in [Addrs -> SUBSET Exprs]
  BY <1>1 DEF SIs
<1>4. t = [si EXCEPT !.mem_ = m, !.stack_ = Popped(si), !.pred_ = Null]
  BY DEF Store, SIs, Varying
<1> HIDE DEF m, E, t
<1>5. /\ t \in SIs
      /\ t.stack_ = Popped(si) /\ t.mem_ = m /\ t.pred_ = Null
      /\ t.return_value_ = si.return_value_
      /\ t.constraints = si.constraints
  BY <1>2, <1>3, <1>4 DEF SIs, Null
<1>6. QED
  BY <1>5 DEF m, E, t, Stored

\* What an operand stands for is an expression, and has the operand's value
\* wherever all its expressions have.
LEMMA AsExprTyped ==
    ASSUME NEW e \in Elems
    PROVE  /\ AsExpr(e) \in Exprs
           /\ \A x \in Values :
                (\A f \in e.expr : f[x] = e.concrete)
                    => AsExpr(e)[x] = e.concrete
<1>1. CASE e.expr = Null
  <2>1. AsExpr(e) = Constant(e.concrete)
    BY <1>1 DEF AsExpr
  <2>2. e.concrete \in Int
    BY DEF Elems
  <2>3. QED
    BY <2>1, <2>2 DEF Constant, Exprs
<1>2. CASE e.expr # Null
  <2>1. AsExpr(e) = CHOOSE f \in e.expr : TRUE
    BY <1>2 DEF AsExpr
  <2>2. AsExpr(e) \in e.expr
    BY <1>2, <2>1 DEF Null
  <2>3. e.expr \subseteq Exprs
    BY DEF Elems
  <2>4. QED
    BY <2>2, <2>3
<1>3. QED
  BY <1>1, <1>2

\* The result t of a unary operator has the operand e on top.
UnaryResult(si, op, value, t, e) ==
    /\ e.concrete = value /\ e.value = value /\ ~e.compared
    /\ \/ op = "negate"
          /\ e.expr = {[x \in Values |-> -f[x]] : f \in Top(si).expr}
       \/ e.expr = Null
       \/ op = "not" /\ si.pred_ # Null /\ e.expr = Top(si).expr
    /\ ~IsSymbolic(Top(si)) => e.expr = Null /\ t.pred_ = si.pred_
    /\ IsSymbolic(Top(si)) /\ si.pred_ = Null => t.pred_ = Null
    /\ t \in SIs
    /\ t.stack_ = Append(SubSeq(si.stack_, 1, Len(si.stack_) - 1), e)
    /\ t.mem_ = si.mem_
    /\ t.return_value_ = si.return_value_
    /\ t.constraints = si.constraints

LEMMA ApplyUnaryOpResult ==
    ASSUME NEW si \in SIs, NEW op \in UnaryOps, NEW value \in Int,
           Len(si.stack_) >= 1,
           NEW t, t = ApplyUnaryOp(si, op, value)
    PROVE  \E e \in Elems : UnaryResult(si, op, value, t, e)
<1> DEFINE se == Top(si)
           NotPredicate == op = "not" /\ si.pred_ # Null
           expr == IF op = "negate"
                   THEN {[x \in Values |-> -f[x]] : f \in se.expr}
                   ELSE IF NotPredicate THEN se.expr ELSE Null
           pred == IF ~IsSymbolic(se) THEN si.pred_
                   ELSE IF NotPredicate
                   THEN {[x \in Values |-> ~p[x]] : p \in si.pred_}
                   ELSE Null
           stack == Append(Popped(si), Elem(expr, value))
<1>1. se \in Elems
  BY Operands
<1>2. expr \in SUBSET Exprs
  <2>1. \A f \in se.expr : f \in Exprs
    BY <1>1 DEF Elems
  <2>2. \A f \in se.expr : [x \in Values |-> -f[x]] \in Exprs
    BY <2>1 DEF Exprs
  <2>3. QED
    BY <2>1, <2>2 DEF Null
<1>3. pred \in SUBSET Predicates
  <2>1. si.pred_ \in SUBSET Predicates
    BY DEF SIs
  <2>2. \A p : [x \in Values |-> ~p[x]] \in Predicates
    BY DEF Predicates
  <2>3. QED
    BY <2>1, <2>2 DEF Null
<1>4. Elem(expr, value) \in Elems
  BY <1>2 DEF Elem, Elems
<1>5. stack \in Seq(Elems)
  <2>1. Len(si.stack_) - 1 \in 0..Len(si.stack_) /\ si.stack_ \in Seq(Elems)
    BY Operands
  <2>2. QED
    BY <1>4, <2>1, Put DEF Popped
<1>6. t = [si EXCEPT !.stack_ = stack, !.pred_ = pred]
  BY DEF ApplyUnaryOp, SIs
<1>7. ~IsSymbolic(se) => expr = Null
  BY DEF IsSymbolic, Null
<1>8. \/ op = "negate" /\ expr = {[x \in Values |-> -f[x]] : f \in se.expr}
      \/ expr = Null
      \/ op = "not" /\ si.pred_ # Null /\ expr = se.expr
  OBVIOUS
<1>9. /\ ~IsSymbolic(se) => pred = si.pred_
      /\ IsSymbolic(se) /\ si.pred_ = Null => pred = Null
  OBVIOUS
<1> HIDE DEF stack, pred, expr
<1>10. /\ t \in SIs /\ t.stack_ = stack /\ t.pred_ = pred
       /\ t.mem_ = si.mem_ /\ t.return_value_ = si.return_value_
       /\ t.constraints = si.constraints
  BY <1>3, <1>5, <1>6 DEF SIs
<1>11. stack = Append(SubSeq(si.stack_, 1, Len(si.stack_) - 1),
                      Elem(expr, value))
  BY DEF stack, Popped
<1>12. /\ Elem(expr, value).expr = expr /\ ~Elem(expr, value).compared
       /\ Elem(expr, value).concrete = value /\ Elem(expr, value).value = value
  BY DEF Elem
<1>13. UnaryResult(si, op, value, t, Elem(expr, value))
  BY <1>7, <1>8, <1>9, <1>10, <1>11, <1>12 DEF UnaryResult
<1>14. QED
  BY <1>4, <1>13

\* An arithmetic operator's expression has the value of the operator where
\* the operands' expressions have the operands' values.
LEMMA BinaryExprTyped ==
    ASSUME NEW op \in ArithmeticOps, NEW a \in Elems, NEW b \in Elems,
           op = "shift" => b.concrete \in Nat
    PROVE  /\ BinaryExpr(op, a, b) \in Exprs
           /\ \A x \in Values :
                /\ \A f \in a.expr : f[x] = a.concrete
                /\ \A f \in b.expr : f[x] = b.concrete
                => BinaryExpr(op, a, b)[x]
                    = Arithmetic(op, a.concrete, b.concrete)
<1> DEFINE A == AsExpr(a)
           B == AsExpr(b)
<1>1. A \in Exprs /\ B \in Exprs
  BY AsExprTyped
<1>2. /\ \A x \in Values : (\A f \in a.expr : f[x] = a.concrete)
                                => A[x] = a.concrete
      /\ \A x \in Values : (\A f \in b.expr : f[x] = b.concrete)
                                => B[x] = b.concrete
  BY AsExprTyped
<1>3. a.concrete \in Int /\ b.concrete \in Int
  BY DEF Elems
<1>4. \A x \in Values : A[x] \in Int /\ B[x] \in Int
  BY <1>1 DEF Exprs
<1> HIDE DEF A, B
<1>5. CASE op = "add"
  <2>1. BinaryExpr(op, a, b) = [x \in Values |-> A[x] + B[x]]
    BY <1>5 DEF BinaryExpr, A, B
  <2>2. Arithmetic(op, a.concrete, b.concrete) = a.concrete + b.concrete
    BY <1>5 DEF Arithmetic
  <2>3. QED
    BY <1>2, <1>3, <1>4, <2>1, <2>2 DEF Exprs
<1>6. CASE op = "subtract"
  <2>1. BinaryExpr(op, a, b) = [x \in Values |-> A[x] - B[x]]
    BY <1>6 DEF BinaryExpr, A, B
  <2>2. Arithmetic(op, a.concrete, b.concrete) = a.concrete - b.concrete
    BY <1>6 DEF Arithmetic
  <2>3. QED
    BY <1>2, <1>3, <1>4, <2>1, <2>2 DEF Exprs
<1>7. CASE op = "multiply" /\ IsSymbolic(b)
  <2>1. BinaryExpr(op, a, b) = [x \in Values |-> B[x] * a.concrete]
    BY <1>7 DEF BinaryExpr, B
  <2>2. Arithmetic(op, a.concrete, b.concrete) = a.concrete * b.concrete
    BY <1>7 DEF Arithmetic
  <2>3. QED
    BY <1>2, <1>3, <1>4, <2>1, <2>2 DEF Exprs
<1>8. CASE op = "multiply" /\ ~IsSymbolic(b)
  <2>1. BinaryExpr(op, a, b) = [x \in Values |-> A[x] * b.concrete]
    BY <1>8 DEF BinaryExpr, A
  <2>2. Arithmetic(op, a.concrete, b.concrete) = a.concrete * b.concrete
    BY <1>8 DEF Arithmetic
  <2>3. QED
    BY <1>2, <1>3, <1>4, <2>1, <2>2 DEF Exprs
<1>9. CASE op = "shift"
  <2>1. BinaryExpr(op, a, b) = [x \in Values |-> A[x] * 2 ^ b.concrete]
    BY <1>9 DEF BinaryExpr, A
  <2>2. Arithmetic(op, a.concrete, b.concrete) = a.concrete * 2 ^ b.concrete
    BY <1>9 DEF Arithmetic
  <2>3. 2 ^ b.concrete \in Int
    BY <1>9
  <2>4. QED
    BY <1>2, <1>3, <1>4, <2>1, <2>2, <2>3 DEF Exprs
<1>10. QED
  BY <1>5, <1>6, <1>7, <1>8, <1>9 DEF ArithmeticOps

\* What the two operands of a binary operator leave below them.
LEMMA PushedBelow ==
    ASSUME NEW si \in SIs, Len(si.stack_) >= 2, NEW e \in Elems
    PROVE  /\ Append(Below(si), e) \in Seq(Elems)
           /\ Append(Below(si), e)
                = Append(SubSeq(si.stack_, 1, Len(si.stack_) - 2), e)
<1>1. Len(si.stack_) - 2 \in 0..Len(si.stack_) /\ si.stack_ \in Seq(Elems)
  BY Operands
<1>2. QED
  BY <1>1, Put DEF Below

\* The result t of a binary operator has the operand e on top.
BinaryResult(si, op, value, t, e) ==
    /\ e.concrete = value /\ e.value = value /\ ~e.compared
    /\ \/ e.expr = Null
       \/ op \in ArithmeticOps
          /\ e.expr = {BinaryExpr(op, Left(si), Top(si))}
    /\ t \in SIs
    /\ t.stack_ = Append(SubSeq(si.stack_, 1, Len(si.stack_) - 2), e)
    /\ t.pred_ = Null /\ t.mem_ = si.mem_
    /\ t.return_value_ = si.return_value_
    /\ t.constraints = si.constraints

LEMMA ApplyBinaryOpResult ==
    ASSUME NEW si \in SIs, NEW op \in ArithmeticOps \cup {"concrete"},
           NEW value \in Int, Len(si.stack_) >= 2,
           op = "shift" => Top(si).concrete \in Nat,
           NEW t, t = ApplyBinaryOp(si, op, value)
    PROVE  \E e \in Elems : BinaryResult(si, op, value, t, e)
<1> DEFINE a == Left(si)
           b == Top(si)
           Followed == \/ op \in {"add", "subtract", "multiply"}
                          /\ (IsSymbolic(a) \/ IsSymbolic(b))
                       \/ op = "shift" /\ IsSymbolic(a)
           expr == IF Followed THEN {BinaryExpr(op, a, b)} ELSE Null
           e == Elem(expr, value)
           stack == Append(Below(si), e)
<1>1. a \in Elems /\ b \in Elems
  BY Operands
<1>2. Followed => op \in ArithmeticOps
  BY DEF ArithmeticOps
<1>3. op \in ArithmeticOps => BinaryExpr(op, a, b) \in Exprs
  BY <1>1, BinaryExprTyped
<1>4. expr \in SUBSET Exprs
  BY <1>2, <1>3 DEF Null
<1>5. /\ e \in Elems /\ e.expr = expr /\ ~e.compared
      /\ e.concrete = value /\ e.value = value
  BY <1>4 DEF Elem, Elems
<1>6. t = [si EXCEPT !.stack_ = stack, !.pred_ = Null]
  BY Zenon DEF ApplyBinaryOp
<1>7. \/ expr = Null
      \/ op \in ArithmeticOps /\ expr = {BinaryExpr(op, a, b)}
  BY <1>2
<1> HIDE DEF expr, e
<1>8. /\ stack \in Seq(Elems)
      /\ stack = Append(SubSeq(si.stack_, 1, Len(si.stack_) - 2), e)
  BY <1>5, PushedBelow
<1> HIDE DEF stack
<1>9. /\ t \in SIs /\ t.stack_ = stack /\ t.pred_ = Null
      /\ t.mem_ = si.mem_ /\ t.return_value_ = si.return_value_
      /\ t.constraints = si.constraints
  BY <1>6, <1>8 DEF SIs, Null
<1>10. BinaryResult(si, op, value, t, e)
  BY <1>5, <1>7, <1>8, <1>9 DEF BinaryResult
<1>11. QED
  BY <1>5, <1>10

\* The result t of a comparison has the operand e on top, and a predicate
\* that is true where the operands' expressions have the operands' values and
\* these compare.
CompareResult(si, op, value, t, e) ==
    /\ e.concrete = value /\ e.value = value /\ e.expr = Null
    /\ e.compared <=> op # PointerOp
    /\ t \in SIs
    /\ t.stack_ = Append(SubSeq(si.stack_, 1, Len(si.stack_) - 2), e)
    /\ t.mem_ = si.mem_
    /\ t.return_value_ = si.return_value_
    /\ t.constraints = si.constraints
    /\ \/ t.pred_ = si.pred_ /\ ~IsSymbolic(Top(si))
       \/ \A x \in Values :
            /\ \A f \in Left(si).expr : f[x] = Left(si).concrete
            /\ \A f \in Top(si).expr : f[x] = Top(si).concrete
            => \A p \in t.pred_ :
                p[x] = Compare(op, Left(si).concrete, Top(si).concrete)

LEMMA ApplyCompareOpResult ==
    ASSUME NEW si \in SIs, NEW op \in CompareOps \cup {PointerOp},
           NEW value \in Int, Len(si.stack_) >= 2,
           NEW t, t = ApplyCompareOp(si, op, value)
    PROVE  \E e \in Elems : CompareResult(si, op, value, t, e)
<1> DEFINE a == Left(si)
           b == Top(si)
           A == AsExpr(a)
           B == AsExpr(b)
           diff == [x \in Values |-> A[x] - B[x]]
           pred == [x \in Values |-> Compare(op, diff[x], 0)]
           preds == IF ~IsSymbolic(a) /\ ~IsSymbolic(b) THEN si.pred_
                    ELSE IF IsConcrete(diff) THEN Null ELSE {pred}
           e == [Elem(Null, value) EXCEPT !.compared = op # PointerOp]
           stack == Append(Below(si), e)
<1>1. a \in Elems /\ b \in Elems
  BY Operands
<1>2. /\ A \in Exprs /\ B \in Exprs
      /\ \A x \in Values :
            (\A f \in a.expr : f[x] = a.concrete) => A[x] = a.concrete
      /\ \A x \in Values :
            (\A f \in b.expr : f[x] = b.concrete) => B[x] = b.concrete
  BY <1>1, AsExprTyped
<1>3. a.concrete \in Int /\ b.concrete \in Int
  BY <1>1 DEF Elems
<1>4. \A v, w \in Int : Compare(op, v, w) \in BOOLEAN
  <2> SUFFICES ASSUME NEW v \in Int, NEW w \in Int
               PROVE  Compare(op, v, w) \in BOOLEAN
    OBVIOUS
  <2>1. (v = w) \in BOOLEAN /\ (v < w) \in BOOLEAN
    OBVIOUS
  <2>2. QED
    BY <2>1, Zenon DEF Compare
<1>5. pred \in Predicates
  <2>1. \A x \in Values : diff[x] \in Int
    <3> SUFFICES ASSUME NEW x \in Values PROVE diff[x] \in Int
      OBVIOUS
    <3>1. A[x] \in Int /\ B[x] \in Int
      BY <1>2 DEF Exprs
    <3> HIDE DEF A, B
    <3>2. diff[x] = A[x] - B[x]
      OBVIOUS
    <3>3. QED
      BY <3>1, <3>2
  <2> HIDE DEF diff
  <2>2. \A x \in Values : Compare(op, diff[x], 0) \in BOOLEAN
    <3>1. 0 \in Int
      OBVIOUS
    <3>2. QED
      BY <1>4, <2>1, <3>1, Zenon
  <2>3. QED
    BY <2>2, Zenon DEF Predicates
<1>6. preds \in SUBSET Predicates
  <2>1. si.pred_ \in SUBSET Predicates
    BY DEF SIs
  <2> HIDE DEF pred, diff
  <2>2. QED
    BY <1>5, <2>1 DEF Null
<1>7. \A x \in Values :
        /\ \A f \in a.expr : f[x] = a.concrete
        /\ \A f \in b.expr : f[x] = b.concrete
        => pred[x] = Compare(op, a.concrete, b.concrete)
  <2> SUFFICES ASSUME NEW x \in Values,
                      \A f \in a.expr : f[x] = a.concrete,
                      \A f \in b.expr : f[x] = b.concrete
               PROVE  pred[x] = Compare(op, a.concrete, b.concrete)
    OBVIOUS
  <2>1. A[x] = a.concrete /\ B[x] = b.concrete
    BY <1>2
  <2>2. diff[x] = a.concrete - b.concrete
    BY <2>1
  <2> HIDE DEF diff
  <2>3. pred[x] = Compare(op, a.concrete - b.concrete, 0)
    BY <2>2, Zenon
  <2>4. Compare(op, a.concrete - b.concrete, 0)
            = Compare(op, a.concrete, b.concrete)
    BY <1>3 DEF Compare
  <2>5. QED
    BY <2>3, <2>4
<1>8. /\ e \in Elems /\ e.expr = Null /\ e.concrete = value
      /\ e.value = value /\ (e.compared <=> op # PointerOp)
  BY DEF Elem, Elems, Null
<1>9. t = [si EXCEPT !.stack_ = stack, !.pred_ = preds]
  BY Zenon DEF ApplyCompareOp
<1>10. \/ preds = si.pred_ /\ ~IsSymbolic(b)
       \/ preds \subseteq {pred}
  BY Zenon DEF Null
<1> HIDE DEF preds, e, pred
<1>11. /\ stack \in Seq(Elems)
       /\ stack = Append(SubSeq(si.stack_, 1, Len(si.stack_) - 2), e)
  BY <1>8, PushedBelow
<1> HIDE DEF stack
<1>12. /\ t \in SIs /\ t.stack_ = stack /\ t.pred_ = preds
       /\ t.mem_ = si.mem_ /\ t.return_value_ = si.return_value_
       /\ t.constraints = si.constraints
  BY <1>6, <1>9, <1>11 DEF SIs
<1>13. \/ t.pred_ = si.pred_ /\ ~IsSymbolic(b)
       \/ \A x \in Values :
            /\ \A f \in a.expr : f[x] = a.concrete
            /\ \A f \in b.expr : f[x] = b.concrete
            => \A p \in t.pred_ : p[x] = Compare(op, a.concrete, b.concrete)
  <2>1. CASE preds = si.pred_ /\ ~IsSymbolic(b)
    BY <1>12, <2>1
  <2>2. CASE preds \subseteq {pred}
    <3>1. \A p \in t.pred_ : p = pred
      BY <1>12, <2>2
    <3>2. QED
      BY <1>7, <3>1
  <2>3. QED
    BY <1>10, <2>1, <2>2
<1>14. CompareResult(si, op, value, t, e)
  BY <1>8, <1>11, <1>12, <1>13 DEF CompareResult
<1>15. QED
  BY <1>8, <1>14

LEMMA BranchResult ==
    ASSUME NEW si \in SIs, NEW pred_value \in BOOLEAN,
           NEW t, t = Branch(si, pred_value)
    PROVE  /\ t \in SIs
           /\ t.stack_ = <<>> /\ t.pred_ = Null /\ t.mem_ = si.mem_
           /\ t.return_value_ = si.return_value_
           /\ \A c \in t.constraints :
                \/ c \in si.constraints
                \/ \E p \in si.pred_ : \A x \in Values :
                        p[x] = pred_value => c[x]
<1> DEFINE taken == {[x \in Values |-> p[x] = pred_value] : p \in si.pred_}
<1>1. taken \in SUBSET Predicates
  <2>1. \A p : [x \in Values |-> p[x] = pred_value] \in Predicates
    BY DEF Predicates
  <2>2. QED
    BY <2>1
<1>2. \A c \in taken : \E p \in si.pred_ : \A x \in Values :
            p[x] = pred_value => c[x]
  OBVIOUS
<1>3. t = [si EXCEPT !.constraints = si.constraints \cup taken,
                     !.stack_ = <<>>, !.pred_ = Null]
  BY Zenon DEF Branch
<1> HIDE DEF taken
<1>4. /\ t \in SIs /\ t.stack_ = <<>> /\ t.pred_ = Null
      /\ t.mem_ = si.mem_ /\ t.return_value_ = si.return_value_
      /\ t.constraints = si.constraints \cup taken
  BY <1>1, <1>3, EmptySeq DEF SIs, Null
<1>5. QED
  BY <1>2, <1>4

LEMMA ClearStackResult ==
    ASSUME NEW si \in SIs, NEW t, t = ClearStack(si)
    PROVE  /\ t \in SIs
           /\ t.stack_ = <<>> /\ t.pred_ = Null /\ t.mem_ = si.mem_
           /\ ~t.return_value_ /\ t.constraints = si.constraints
  BY EmptySeq DEF ClearStack, SIs, Null

LEMMA ReturnResult ==
    ASSUME NEW si \in SIs, NEW t, t = Return(si)
    PROVE  /\ t \in SIs
           /\ t.stack_ = si.stack_ /\ t.pred_ = si.pred_
           /\ t.mem_ = si.mem_ /\ t.constraints = si.constraints
           /\ t.return_value_ <=> Len(si.stack_) = 1
  BY DEF Return, SIs

\* What a call leaves on the stack: the callee's value, or the concrete one.
LEMMA HandleReturnResult ==
    ASSUME NEW si \in SIs, NEW value \in Int, HandleReturnAssert(si),
           NEW t, t = HandleReturn(si, value)
    PROVE  /\ t \in SIs
           /\ Len(t.stack_) = 1 /\ ~t.return_value_
           /\ t.mem_ = si.mem_ /\ t.constraints = si.constraints
           /\ IF si.return_value_ THEN Top(t) = Top(si)
              ELSE Top(t) = Elem(Null, value)
<1>1. CASE si.return_value_
  <2>1. t = [si EXCEPT !.return_value_ = FALSE]
    BY <1>1 DEF HandleReturn
  <2>2. /\ t \in SIs /\ t.stack_ = si.stack_ /\ t.mem_ = si.mem_
        /\ ~t.return_value_ /\ t.constraints = si.constraints
    BY <2>1 DEF SIs
  <2>3. QED
    BY <1>1, <2>2 DEF HandleReturnAssert, Top
<1>2. CASE ~si.return_value_
  <2> DEFINE c == ClearStack(si)
  <2>1. t = LoadConstant(c, value)
    BY <1>2 DEF HandleReturn
  <2>2. /\ c \in SIs /\ c.stack_ = <<>> /\ c.mem_ = si.mem_
        /\ ~c.return_value_ /\ c.constraints = si.constraints
    BY ClearStackResult
  <2> HIDE DEF c
  <2>3. /\ t \in SIs /\ t.stack_ = Append(c.stack_, Elem(Null, value))
        /\ t.mem_ = c.mem_ /\ t.return_value_ = c.return_value_
        /\ t.constraints = c.constraints
    BY <2>1, <2>2, LoadConstantResult
  <2>4. t.stack_ = <<Elem(Null, value)>>
    BY <2>2, <2>3
  <2>5. Len(t.stack_) = 1 /\ Top(t) = Elem(Null, value)
    BY <2>4 DEF Top
  <2>6. QED
    BY <1>2, <2>2, <2>3, <2>5
<1>3. QED
  BY <1>1, <1>2 DEF SIs

(***************************************************************************)
(* The invariant                                                           *)
(***************************************************************************)

\* The outermost function is never left; only the innermost function has
\* operands, and they are on the shadow stack.
Framed ==
    /\ Len(frames) >= 1 /\ frames[Len(frames)].kind = "function"
    /\ \A k \in 2..Len(frames) : frames[k].own = 0
    /\ ~InFunction => own = 0
    /\ own <= Len(SI.stack_)

\* A predicate is held only under a concrete result, so the logical not of a
\* predicate is never applied.
Register ==
    SI.pred_ # Null => SI.stack_ # <<>> /\ Top(SI).expr = Null

FunctionsCall == \A k \in 2..Len(frames) : frames[k].kind = "function"

\* No library has called back, and no function of variable arguments has left
\* its operands.
Private == {"variadic", "callback"} \cap used = {}

Uncalled ==
    /\ "callback" \notin used => ~SI.return_value_ /\ FunctionsCall
    /\ Private => ~aborted /\ (InFunction => Len(SI.stack_) = own)

\* In a plain program a predicate belongs to the comparison on top.
Standing == used = {} => (SI.pred_ # Null => Top(SI).compared)

\* An operand's expressions have its value in this run, which no cast or
\* overflow changed.
ElemAgrees(e) ==
    e.value = e.concrete /\ \A f \in e.expr : f[input] = e.concrete
StackAgrees == \A n \in 1..Len(SI.stack_) : ElemAgrees(SI.stack_[n])
MemoryAgrees == \A a \in Addrs : \A f \in SI.mem_[a] : f[input] = memory[a]
Followed == {"cast", "overflow", "overwrite", "callback"} \cap used = {}

IInv ==
    /\ TypeOK /\ Framed /\ Register /\ Uncalled /\ Standing
    /\ Followed => StackAgrees /\ MemoryAgrees
    /\ PlainPredicateOnTop /\ ConstraintsHold

(***************************************************************************)
(* The frames                                                              *)
(***************************************************************************)

LEMMA FramesFacts ==
    ASSUME TypeOK
    PROVE  /\ Len(frames) \in Nat
           /\ frames \in [1..Len(frames) -> Frames]
           /\ \A k \in 1..Len(frames) :
                /\ frames[k].own \in Nat
                /\ frames[k].kind \in {"function", "library"}
                /\ \A n \in Nat : [frames[k] EXCEPT !.own = n] \in Frames
<1>1. Len(frames) \in Nat /\ frames \in [1..Len(frames) -> Frames]
  BY LenProperties DEF TypeOK
<1>2. \A k \in 1..Len(frames) : frames[k] \in Frames
  BY <1>1
<1>3. QED
  BY <1>1, <1>2 DEF Frames

LEMMA InnermostFrame ==
    ASSUME TypeOK, Framed
    PROVE  1 \in 1..Len(frames) /\ own \in Nat
<1> DEFINE n == Len(frames)
<1>1. n \in Nat /\ n >= 1
  BY FramesFacts DEF Framed
<1> HIDE DEF n
<1>2. 1 \in 1..n
  BY <1>1
<1>3. QED
  BY <1>2, FramesFacts DEF own, n

\* A step that changes how many operands the function has.
LEMMA SetOwnFramed ==
    ASSUME TypeOK, Framed, InFunction, NEW n \in Nat, SetOwn(n),
           n <= Len(SI'.stack_)
    PROVE  /\ frames' \in Seq(Frames) /\ Framed' /\ InFunction'
           /\ own' = n /\ (FunctionsCall => FunctionsCall')
<1> DEFINE e == [frames[1] EXCEPT !.own = n]
<1>1. e \in Frames /\ e.own = n /\ e.kind = frames[1].kind
  BY FramesFacts DEF Framed, Frames
<1>2. frames' = [frames EXCEPT ![1] = e]
  BY DEF SetOwn
<1> HIDE DEF e
<1>3. /\ frames' \in Seq(Frames) /\ Len(frames') = Len(frames)
      /\ \A j \in 1..Len(frames) :
            frames'[j] = IF j = 1 THEN e ELSE frames[j]
  <2>1. frames \in Seq(Frames) /\ 1 \in 1..Len(frames)
    BY FramesFacts DEF TypeOK, Framed
  <2>2. QED
    BY <1>1, <1>2, <2>1, ExceptSeq
<1>4. /\ frames'[1] = e
      /\ \A j \in 2..Len(frames) : frames'[j] = frames[j]
  BY <1>3, FramesFacts DEF Framed
<1>5. own' = n /\ InFunction' /\ (FunctionsCall => FunctionsCall')
  BY <1>1, <1>3, <1>4 DEF own, InFunction, FunctionsCall
<1>6. frames'[Len(frames')].kind = "function"
  BY <1>1, <1>3, <1>4, FramesFacts DEF Framed, InFunction
<1>7. Framed'
  BY <1>3, <1>4, <1>5, <1>6 DEF Framed
<1>8. QED
  BY <1>3, <1>5, <1>7

\* A call.
LEMMA EnterFramed ==
    ASSUME TypeOK, Framed, NEW kind \in {"function", "library"}, Enter(kind),
           Len(SI'.stack_) \in Nat
    PROVE  /\ frames' \in Seq(Frames) /\ Framed' /\ own' = 0
           /\ InFunction' <=> kind = "function"
           /\ FunctionsCall /\ InFunction => FunctionsCall'
<1> DEFINE e == [frames[1] EXCEPT !.own = 0]
           rest == [frames EXCEPT ![1] = e]
<1>1. e \in Frames /\ e.own = 0 /\ e.kind = frames[1].kind
  BY FramesFacts DEF Framed, Frames
<1>2. frames' = <<Frame(kind)>> \o rest
  BY DEF Enter
<1> HIDE DEF e
<1>3. /\ rest \in Seq(Frames) /\ Len(rest) = Len(frames)
      /\ \A j \in 1..Len(frames) : rest[j] = IF j = 1 THEN e ELSE frames[j]
  <2>1. frames \in Seq(Frames) /\ 1 \in 1..Len(frames)
    BY FramesFacts DEF TypeOK, Framed
  <2>2. QED
    BY <1>1, <2>1, ExceptSeq
<1> HIDE DEF rest
<1>4. /\ Frame(kind) \in Frames /\ Frame(kind).own = 0
      /\ Frame(kind).kind = kind
  BY DEF Frame, Frames
<1> DEFINE one == <<Frame(kind)>>
<1>5. /\ one \in Seq(Frames) /\ Len(one) = 1 /\ one[1] = Frame(kind)
  BY <1>4
<1> HIDE DEF one
<1>6. /\ frames' \in Seq(Frames) /\ Len(frames') = 1 + Len(frames)
      /\ \A i \in 1..1 + Len(frames) : frames'[i] =
            IF i <= 1 THEN one[i] ELSE rest[i - 1]
  <2>1. frames' = one \o rest
    BY <1>2 DEF one
  <2>2. one \in Seq(Frames) /\ rest \in Seq(Frames)
    BY <1>3, <1>5
  <2>3. /\ one \o rest \in Seq(Frames)
        /\ Len(one \o rest) = Len(one) + Len(rest)
        /\ \A i \in 1..Len(one) + Len(rest) : (one \o rest)[i] =
                IF i <= Len(one) THEN one[i] ELSE rest[i - Len(one)]
    BY <2>2, ConcatProperties
  <2>4. QED
    BY <1>3, <1>5, <2>1, <2>3
<1>7. Len(frames) \in Nat /\ Len(frames) >= 1
  BY FramesFacts DEF Framed
<1>8. frames'[1] = Frame(kind) /\ frames'[2] = e
  BY <1>3, <1>5, <1>6, <1>7
<1>9. \A i \in 3..Len(frames') : frames'[i] = frames[i - 1]
  <2> SUFFICES ASSUME NEW i \in 3..Len(frames')
               PROVE  frames'[i] = frames[i - 1]
    OBVIOUS
  <2>1. i \in 1..1 + Len(frames) /\ ~(i <= 1) /\ i - 1 \in 1..Len(frames)
        /\ i - 1 # 1
    BY <1>6, <1>7
  <2>2. frames'[i] = rest[i - 1] /\ rest[i - 1] = frames[i - 1]
    BY <1>3, <1>6, <2>1
  <2>3. QED
    BY <2>2
<1>10. own' = 0 /\ (InFunction' <=> kind = "function")
  BY <1>4, <1>8 DEF own, InFunction
<1>11. FunctionsCall /\ InFunction => FunctionsCall'
  <2> SUFFICES ASSUME FunctionsCall, InFunction, NEW i \in 2..Len(frames')
               PROVE  frames'[i].kind = "function"
    BY DEF FunctionsCall
  <2>1. CASE i = 2
    BY <1>1, <1>8, <2>1 DEF InFunction
  <2>2. CASE i # 2
    BY <1>6, <1>7, <1>9, <2>2 DEF FunctionsCall
  <2>3. QED
    BY <2>1, <2>2
<1>12. \A i \in 2..Len(frames') : frames'[i].own = 0
  <2> SUFFICES ASSUME NEW i \in 2..Len(frames') PROVE frames'[i].own = 0
    OBVIOUS
  <2>1. CASE i = 2
    BY <1>1, <1>8, <2>1
  <2>2. CASE i # 2
    BY <1>6, <1>7, <1>9, <2>2 DEF Framed
  <2>3. QED
    BY <2>1, <2>2
<1>13. frames'[Len(frames')].kind = "function"
  <2>1. CASE Len(frames) = 1
    BY <1>1, <1>6, <1>8, <2>1 DEF Framed
  <2>2. CASE Len(frames) # 1
    <3> DEFINE m == Len(frames)
               n == Len(frames')
    <3>1. n = 1 + m /\ m \in Nat /\ m >= 1 /\ m # 1
      BY <1>6, <1>7, <2>2
    <3> HIDE DEF m, n
    <3>2. n \in 3..n /\ n - 1 = m
      BY <3>1
    <3>3. frames'[n] = frames[n - 1]
      BY <1>9, <3>2 DEF n
    <3>4. QED
      BY <3>2, <3>3 DEF Framed, m, n
  <2>3. QED
    BY <2>1, <2>2
<1>14. Framed'
  BY <1>6, <1>7, <1>10, <1>12, <1>13 DEF Framed
<1>15. QED
  BY <1>6, <1>10, <1>11, <1>14

\* A return.
LEMMA TailFramed ==
    ASSUME TypeOK, Framed, Len(frames) > 1, frames' = Tail(frames),
           Len(SI'.stack_) \in Nat
    PROVE  /\ frames' \in Seq(Frames) /\ Framed' /\ own' = 0
           /\ InFunction' <=> frames[2].kind = "function"
           /\ FunctionsCall => FunctionsCall'
<1>1. Len(frames) \in Nat /\ frames \in Seq(Frames) /\ frames # <<>>
  BY FramesFacts, EmptySeq DEF TypeOK
<1>2. /\ frames' \in Seq(Frames) /\ Len(frames') = Len(frames) - 1
      /\ \A i \in 1..Len(frames') : frames'[i] = frames[i + 1]
  BY <1>1, HeadTailProperties
<1>3. frames'[1] = frames[2]
  BY <1>1, <1>2
<1>4. own' = 0 /\ (InFunction' <=> frames[2].kind = "function")
  BY <1>1, <1>3 DEF own, InFunction, Framed
<1>5. FunctionsCall => FunctionsCall'
  BY <1>1, <1>2 DEF FunctionsCall
<1>6. Framed'
  BY <1>1, <1>2, <1>4 DEF Framed
<1>7. QED
  BY <1>2, <1>4, <1>5, <1>6

(***************************************************************************)
(* The steps                                                               *)
(***************************************************************************)

\* What leaving the lowest k operands and putting e on them does.
LEMMA PutOnStack ==
    ASSUME TypeOK, input' = input, NEW k \in 0..Len(SI.stack_),
           NEW e \in Elems,
           SI'.stack_ = Append(SubSeq(SI.stack_, 1, k), e)
    PROVE  /\ Len(SI'.stack_) = k + 1 /\ SI'.stack_ # <<>>
           /\ Top(SI)' = e
           /\ ElemAgrees(e) /\ StackAgrees => StackAgrees'
<1> DEFINE s == SI.stack_
           t == SI'.stack_
<1>1. s \in Seq(Elems) /\ Len(s) \in Nat
  BY Operands DEF TypeOK
<1>2. /\ t \in Seq(Elems) /\ Len(t) = k + 1 /\ t[k + 1] = e
      /\ \A n \in 1..k : t[n] = s[n]
  BY <1>1, Put
<1>3. Top(SI)' = e
  BY <1>2 DEF Top
<1>4. t # <<>>
  <2>1. Len(<<>>) = 0 /\ k + 1 # 0
    BY <1>1
  <2>2. QED
    BY <1>2, <2>1
<1>5. ASSUME ElemAgrees(e), StackAgrees, NEW n \in 1..Len(t)
      PROVE  ElemAgrees(t[n])
  <2>1. CASE n = k + 1
    BY <1>2, <1>5, <2>1
  <2>2. CASE n # k + 1
    <3>1. n \in 1..k /\ n \in 1..Len(s)
      BY <1>1, <1>2, <1>5, <2>2
    <3>2. QED
      BY <1>2, <1>5, <3>1 DEF StackAgrees
  <2>3. QED
    BY <2>1, <2>2
<1>6. ElemAgrees(e) /\ StackAgrees => StackAgrees'
  BY <1>5 DEF StackAgrees, ElemAgrees
<1>7. QED
  BY <1>2, <1>3, <1>4, <1>6

\* An empty predicate register keeps no promise.
LEMMA NoPredicate ==
    ASSUME SI'.pred_ = Null
    PROVE  Register' /\ Standing' /\ PlainPredicateOnTop'
  BY DEF Register, Standing, PlainPredicateOnTop, PredicateOnTop, Null

\* The constraints only grow, with what holds in this run.
LEMMA ConstraintsKept ==
    ASSUME ConstraintsHold, input' = input, used \subseteq used',
           used' = {} => \A c \in SI'.constraints :
                            c \in SI.constraints \/ c[input]
    PROVE  ConstraintsHold'
  BY DEF ConstraintsHold

\* A node of an expression: its operands are replaced by its value.
LEMMA NodeStep ==
    ASSUME IInv, InFunction, NEW k \in 0..Len(SI.stack_), NEW e \in Elems,
           NEW n \in Nat, n = own + (k + 1) - Len(SI.stack_),
           SetOwn(n) \/ (n = own /\ UNCHANGED frames),
           UNCHANGED <<input, memory, aborted>>,
           used' \in SUBSET Features, used \subseteq used',
           SI' \in SIs,
           SI'.stack_ = Append(SubSeq(SI.stack_, 1, k), e),
           UNCHANGED <<SI.mem_, SI.return_value_, SI.constraints>>,
           Followed' /\ StackAgrees => ElemAgrees(e),
           SI'.pred_ # Null => e.expr = Null,
           used' = {} /\ SI'.pred_ # Null =>
                e.compared /\ \A p \in SI'.pred_ : p[input] = (e.value # 0)
    PROVE  IInv'
<1>1. TypeOK /\ Framed /\ Len(SI.stack_) \in Nat /\ own \in Nat
  <2>1. TypeOK /\ Framed
    BY DEF IInv
  <2>2. own \in Nat
    BY <2>1, InnermostFrame DEF own
  <2>3. QED
    BY <2>1, <2>2, Operands DEF TypeOK
<1>2. /\ Len(SI'.stack_) = k + 1 /\ SI'.stack_ # <<>>
      /\ Top(SI)' = e
      /\ ElemAgrees(e) /\ StackAgrees => StackAgrees'
  BY <1>1, PutOnStack
<1>3. n <= Len(SI'.stack_)
  <2> DEFINE L == Len(SI.stack_)
  <2>1. L \in Nat /\ own <= L /\ n = own + (k + 1) - L
    BY <1>1 DEF Framed
  <2>2. k \in Int
    BY <1>1
  <2> HIDE DEF L
  <2>3. n <= k + 1
    BY <1>1, <2>1, <2>2
  <2>4. QED
    BY <1>2, <2>3
<1>4. /\ frames' \in Seq(Frames) /\ Framed' /\ InFunction'
      /\ own' = n /\ (FunctionsCall => FunctionsCall')
  <2>1. CASE SetOwn(n)
    BY <1>1, <1>3, <2>1, SetOwnFramed
  <2>2. CASE n = own /\ UNCHANGED frames
    <3>1. InFunction' /\ own' = own /\ (FunctionsCall => FunctionsCall')
      BY <2>2 DEF InFunction, own, FunctionsCall
    <3>2. frames' \in Seq(Frames)
      BY <1>1, <2>2 DEF TypeOK
    <3>3. Framed'
      BY <1>1, <1>3, <2>2, <3>1 DEF Framed
    <3>4. QED
      BY <2>2, <3>1, <3>2, <3>3
  <2>3. QED
    BY <2>1, <2>2
<1>5. TypeOK'
  BY <1>1, <1>4 DEF TypeOK
<1>6. Register'
  BY <1>2 DEF Register
<1>7. Uncalled'
  <2>1. "callback" \notin used' => ~SI'.return_value_ /\ FunctionsCall'
    BY <1>4 DEF IInv, Uncalled
  <2>2. ASSUME Private' PROVE ~aborted' /\ Len(SI'.stack_) = own'
    <3>1. ~aborted /\ Len(SI.stack_) = own
      BY <2>2 DEF IInv, Uncalled, Private
    <3>2. QED
      BY <1>1, <1>2, <1>4, <3>1
  <2>3. QED
    BY <2>1, <2>2 DEF Uncalled
<1>8. Standing' /\ PlainPredicateOnTop'
  BY <1>2 DEF Standing, PlainPredicateOnTop, PredicateOnTop, Null
<1>9. (Followed => StackAgrees /\ MemoryAgrees)'
  <2>1. Followed' => Followed
    BY DEF Followed
  <2>2. MemoryAgrees => MemoryAgrees'
    BY DEF MemoryAgrees
  <2>3. QED
    BY <1>2, <2>1, <2>2 DEF IInv
<1>10. ConstraintsHold'
  BY ConstraintsKept DEF IInv
<1>11. QED
  BY <1>4, <1>5, <1>6, <1>7, <1>8, <1>9, <1>10 DEF IInv

\* A leaf of an expression.
LEMMA LeafStep ==
    ASSUME IInv, InFunction, NEW e \in Elems, SetOwn(own + 1),
           UNCHANGED <<input, memory, aborted, used>>,
           SI' \in SIs, SI'.stack_ = Append(SI.stack_, e), SI'.pred_ = Null,
           UNCHANGED <<SI.mem_, SI.return_value_, SI.constraints>>,
           Followed /\ MemoryAgrees => ElemAgrees(e)
    PROVE  IInv'
<1>1. TypeOK /\ Framed /\ SI \in SIs
  BY DEF IInv, TypeOK
<1> DEFINE k == Len(SI.stack_)
           n == own + 1
<1>2. k \in Nat /\ own \in Nat
  BY <1>1, Operands, InnermostFrame
<1>3. SI'.stack_ = Append(SubSeq(SI.stack_, 1, k), e)
  BY <1>1, Operands, SubSeqFull
<1>4. used \in SUBSET Features
  BY <1>1 DEF TypeOK
<1>5. Followed' /\ StackAgrees => ElemAgrees(e)
  BY DEF Followed, IInv
<1> HIDE DEF k
<1>6. k \in 0..k /\ n \in Nat /\ n = own + (k + 1) - k
  BY <1>2
<1> HIDE DEF n
<1>7. QED
  BY <1>3, <1>4, <1>5, <1>6, NodeStep DEF n, k, Null

LEMMA EvaluateStep ==
    ASSUME IInv, NEW addr \in Addrs, Evaluate(addr)
    PROVE  IInv'
<1> DEFINE v == memory[addr]
           e == Elem(SI.mem_[addr], v)
<1>1. SI \in SIs /\ v \in Int
  BY DEF IInv, TypeOK
<1>2. e \in Elems
  BY <1>1 DEF Elem, Elems, SIs
<1>3. SI' = Load(SI, addr, v)
  BY DEF Evaluate
<1>4. MemoryAgrees => ElemAgrees(e)
  BY DEF MemoryAgrees, ElemAgrees, Elem
<1> HIDE DEF v
<1>5. /\ SI' \in SIs /\ SI'.stack_ = Append(SI.stack_, e)
      /\ SI'.pred_ = Null
      /\ UNCHANGED <<SI.mem_, SI.return_value_, SI.constraints>>
  <2>1. SI' \in SIs
    BY <1>1, <1>3, LoadResult
  <2>2. SI'.stack_ = Append(SI.stack_, e)
    BY <1>1, <1>3, LoadResult
  <2>3. SI'.pred_ = Null
    BY <1>1, <1>3, LoadResult
  <2>4. UNCHANGED <<SI.mem_, SI.return_value_, SI.constraints>>
    BY <1>1, <1>3, LoadResult
  <2>5. QED BY <2>1, <2>2, <2>3, <2>4
<1> HIDE DEF e
<1>6. QED
  BY <1>2, <1>4, <1>5, LeafStep DEF Evaluate, Running

LEMMA EvaluateLiteralStep ==
    ASSUME IInv, NEW c \in Consts, EvaluateLiteral(c)
    PROVE  IInv'
<1>1. SI \in SIs /\ c \in Int
  BY InterpreterAssumption DEF IInv, TypeOK
<1> DEFINE e == Elem(Null, c)
<1>2. e \in Elems
  BY <1>1 DEF Elem, Elems, Null
<1>3. SI' = LoadConstant(SI, c)
  BY DEF EvaluateLiteral
<1>4. /\ SI' \in SIs /\ SI'.stack_ = Append(SI.stack_, e)
      /\ SI'.pred_ = Null
      /\ UNCHANGED <<SI.mem_, SI.return_value_, SI.constraints>>
  BY <1>1, <1>3, LoadConstantResult
<1>5. ElemAgrees(e)
  BY DEF ElemAgrees, Elem, Null
<1> HIDE DEF e
<1>6. QED
  BY <1>2, <1>4, <1>5, LeafStep DEF EvaluateLiteral, Running

\* With an operand evaluated there is one on the shadow stack.
LEMMA OwnOperands ==
    ASSUME IInv, NEW n \in {1, 2}, own >= n
    PROVE  /\ SI \in SIs /\ own \in Nat
           /\ Len(SI.stack_) >= n /\ Len(SI.stack_) - n \in 0..Len(SI.stack_)
           /\ SI.stack_ # <<>>
<1>1. SI \in SIs /\ own \in Nat /\ own <= Len(SI.stack_)
  BY InnermostFrame DEF IInv, TypeOK, Framed
<1> DEFINE L == Len(SI.stack_)
<1>2. L \in Nat
  BY <1>1, Operands
<1>3. Len(<<>>) = 0
  OBVIOUS
<1> HIDE DEF L
<1>4. L >= n /\ L - n \in 0..L /\ L # 0
  BY <1>1, <1>2 DEF L
<1>5. QED
  BY <1>1, <1>3, <1>4 DEF L

\* An operand on the stack agrees if the stack does.
LEMMA OperandAgrees ==
    ASSUME IInv, StackAgrees
    PROVE  /\ own >= 1 => ElemAgrees(Top(SI))
           /\ own >= 2 => ElemAgrees(Left(SI)) /\ ElemAgrees(Top(SI))
<1> DEFINE L == Len(SI.stack_)
<1>1. L \in Nat /\ own \in Nat /\ own <= L
  BY Operands, InnermostFrame DEF IInv, TypeOK, Framed
<1> HIDE DEF L
<1>2. (own >= 1 => L \in 1..L) /\ (own >= 2 => {L, L - 1} \subseteq 1..L)
  BY <1>1
<1>3. QED
  BY <1>2 DEF StackAgrees, Top, Left, L

LEMMA EvaluateUnaryStep ==
    ASSUME IInv, NEW op \in UnaryOps, EvaluateUnary(op)
    PROVE  IInv'
<1> DEFINE w == Unary(op, Top(SI).value)
           L == Len(SI.stack_)
<1>1. PICK v : /\ own >= 1 /\ InFunction
               /\ Use(Nesting(Top(SI)) \cup Overflow(w, v)) /\ InRange(v)
               /\ SI' = ApplyUnaryOp(SI, op, v)
  BY DEF EvaluateUnary
<1>2. /\ SI \in SIs /\ own \in Nat /\ L >= 1 /\ L - 1 \in 0..L
      /\ SI.stack_ # <<>>
  BY <1>1, OwnOperands
<1>3. v \in Int
  BY <1>1, InterpreterAssumption DEF InRange
<1>4. Followed' => v = w
  BY <1>1 DEF Followed, Use, Overflow
<1>5. Top(SI) \in Elems
  BY <1>2, Operands
<1>6. PICK e \in Elems : UnaryResult(SI, op, v, SI', e)
  BY <1>1, <1>2, <1>3, ApplyUnaryOpResult
<1>7. SI.pred_ # Null => ~IsSymbolic(Top(SI))
  BY DEF IInv, Register, IsSymbolic
<1>8. SI'.pred_ # Null => e.expr = Null /\ SI'.pred_ = SI.pred_
  BY <1>6, <1>7 DEF UnaryResult
<1>9. Followed' /\ ElemAgrees(Top(SI)) => ElemAgrees(e)
  <2> HAVE Followed' /\ ElemAgrees(Top(SI))
  <2>1. CASE op = "negate" /\ e.expr = {[x \in Values |-> -f[x]] :
                                            f \in Top(SI).expr}
    <3>1. v = -Top(SI).value
      BY <1>4, <2>1 DEF Unary
    <3>2. input \in Values
      BY DEF IInv, TypeOK
    <3>3. QED
      BY <1>6, <2>1, <3>1, <3>2 DEF ElemAgrees, UnaryResult
  <2>2. CASE e.expr = Null
    BY <1>6, <2>2 DEF UnaryResult, ElemAgrees, Null
  <2>3. CASE SI.pred_ # Null /\ e.expr = Top(SI).expr
    BY <1>6, <1>7, <2>3 DEF UnaryResult, IsSymbolic, ElemAgrees, Null
  <2>4. QED
    BY <1>6, <2>1, <2>2, <2>3 DEF UnaryResult
<1>10. Followed' /\ StackAgrees => ElemAgrees(e)
  BY <1>1, <1>9, OperandAgrees
<1>11. used' = {} => SI'.pred_ = Null
  <2> SUFFICES ASSUME used' = {}, SI'.pred_ # Null PROVE FALSE
    OBVIOUS
  <2>1. used = {} /\ ~Top(SI).compared
    BY <1>1 DEF Use, Nesting
  <2>2. QED
    BY <1>8, <2>1 DEF IInv, Standing
<1>12. used' \in SUBSET Features /\ used \subseteq used'
  BY <1>1 DEF Use, IInv, TypeOK
<1>13. UNCHANGED <<input, memory, frames, aborted>>
  BY DEF EvaluateUnary, Running
<1>14. L \in Nat
  BY <1>2, Operands
<1> HIDE DEF L
<1>15. own = own + ((L - 1) + 1) - L /\ L - 1 \in 0..L
  BY <1>2, <1>14
<1>16. QED
  BY <1>1, <1>2, <1>6, <1>8, <1>10, <1>11, <1>12, <1>13, <1>15, NodeStep
    DEF L, UnaryResult

\* A binary operator: two operands are replaced by the result.
LEMMA BinaryNode ==
    ASSUME IInv, InFunction, own >= 2, NEW e \in Elems, SetOwn(own - 1),
           NEW features, Use(features),
           UNCHANGED <<input, memory, aborted>>,
           SI' \in SIs,
           SI'.stack_ = Append(SubSeq(SI.stack_, 1, Len(SI.stack_) - 2), e),
           UNCHANGED <<SI.mem_, SI.return_value_, SI.constraints>>,
           Followed' /\ StackAgrees => ElemAgrees(e),
           SI'.pred_ # Null => e.expr = Null,
           used' = {} /\ SI'.pred_ # Null =>
                e.compared /\ \A p \in SI'.pred_ : p[input] = (e.value # 0)
    PROVE  IInv'
<1> DEFINE L == Len(SI.stack_)
           n == own - 1
<1>1. SI \in SIs /\ own \in Nat /\ L - 2 \in 0..L
  BY OwnOperands
<1>2. L \in Nat
  BY <1>1, Operands
<1>3. used' \in SUBSET Features /\ used \subseteq used'
  BY DEF Use, IInv, TypeOK
<1> HIDE DEF L
<1>4. n \in Nat /\ n = own + ((L - 2) + 1) - L
  BY <1>1, <1>2
<1> HIDE DEF n
<1>5. QED
  BY <1>1, <1>3, <1>4, NodeStep DEF L, n

LEMMA EvaluateBinaryStep ==
    ASSUME IInv, NEW op \in ArithmeticOps, EvaluateBinary(op)
    PROVE  IInv'
<1> DEFINE w == Arithmetic(op, Left(SI).value, Top(SI).value)
           features(x) == Nesting(Left(SI)) \cup Nesting(Top(SI))
                            \cup Overflow(w, x)
<1>1. PICK v : /\ Use(features(v)) /\ InRange(v)
               /\ SI' = ApplyBinaryOp(SI, op, v)
  BY DEF EvaluateBinary
<1>2. /\ InFunction /\ own >= 2 /\ SetOwn(own - 1)
      /\ UNCHANGED <<input, memory, aborted>>
      /\ op = "shift" => {Top(SI).value, Top(SI).concrete} \subseteq 0..MaxAbs
  BY DEF EvaluateBinary, Running
<1>3. SI \in SIs /\ Len(SI.stack_) >= 2
  BY <1>2, OwnOperands
<1>4. Left(SI) \in Elems /\ Top(SI) \in Elems /\ input \in Values
  BY <1>3, Operands DEF IInv, TypeOK
<1>5. v \in Int
  BY <1>1, InterpreterAssumption DEF InRange
<1>6. op = "shift" => Top(SI).concrete \in Nat
  BY <1>2, InterpreterAssumption
<1>7. Followed' => v = w
  BY <1>1 DEF Followed, Use, Overflow
<1>8. PICK e \in Elems : BinaryResult(SI, op, v, SI', e)
  BY <1>1, <1>3, <1>5, <1>6, ApplyBinaryOpResult
<1>9. Followed' /\ StackAgrees => ElemAgrees(e)
  <2> SUFFICES ASSUME Followed', StackAgrees PROVE ElemAgrees(e)
    OBVIOUS
  <2>1. ElemAgrees(Left(SI)) /\ ElemAgrees(Top(SI))
    BY <1>2, OperandAgrees
  <2>2. BinaryExpr(op, Left(SI), Top(SI))[input] = v
    BY <1>4, <1>6, <1>7, <2>1, BinaryExprTyped DEF ElemAgrees
  <2>3. QED
    BY <1>8, <2>2 DEF BinaryResult, ElemAgrees, Null
<1>10. QED
  BY <1>1, <1>2, <1>8, <1>9, BinaryNode DEF BinaryResult

LEMMA EvaluateOtherStep ==
    ASSUME IInv, NEW value \in Consts, EvaluateOther(value)
    PROVE  IInv'
<1>1. /\ InFunction /\ own >= 2 /\ SetOwn(own - 1)
      /\ Use(Nesting(Left(SI)) \cup Nesting(Top(SI)))
      /\ UNCHANGED <<input, memory, aborted>>
  BY DEF EvaluateOther, Running
<1>2. SI \in SIs /\ Len(SI.stack_) >= 2
  BY <1>1, OwnOperands
<1>3. SI' = ApplyBinaryOp(SI, "concrete", value)
  BY DEF EvaluateOther
<1>4. value \in Int
  BY InterpreterAssumption
<1>5. PICK e \in Elems : BinaryResult(SI, "concrete", value, SI', e)
  <2>1. "concrete" \in ArithmeticOps \cup {"concrete"}
    OBVIOUS
  <2>2. QED
    BY <1>2, <1>3, <1>4, <2>1, ApplyBinaryOpResult
<1>6. ElemAgrees(e)
  BY <1>5 DEF BinaryResult, ElemAgrees, Null, ArithmeticOps
<1>7. QED
  BY <1>1, <1>5, <1>6, BinaryNode DEF BinaryResult

\* The value of the operand changes, its expression does not.
LEMMA EvaluateCastStep ==
    ASSUME IInv, NEW m \in Moduli, NEW signed \in BOOLEAN,
           EvaluateCast(m, signed)
    PROVE  IInv'
<1> DEFINE v == Converted(Top(SI).value, m, signed)
           e == [Top(SI) EXCEPT !.value = v]
           L == Len(SI.stack_)
           stack == Append(Popped(SI), e)
<1>1. /\ InFunction /\ own >= 1 /\ Use({"cast"}) /\ InRange(v)
      /\ SI' = [SI EXCEPT !.stack_ = stack]
      /\ UNCHANGED <<input, memory, frames, aborted>>
  BY DEF EvaluateCast, Running
<1>2. SI \in SIs /\ own \in Nat /\ L >= 1 /\ L - 1 \in 0..L
  BY <1>1, OwnOperands
<1>3. v \in Int
  BY <1>1, InterpreterAssumption DEF InRange
<1> HIDE DEF v
<1>4. e \in Elems /\ e.expr = Top(SI).expr
  BY <1>2, <1>3, Operands DEF Elems
<1> HIDE DEF e
<1>5. /\ stack \in Seq(Elems)
      /\ stack = Append(SubSeq(SI.stack_, 1, L - 1), e)
  BY <1>2, <1>4, Operands, Put DEF Popped
<1> HIDE DEF stack
<1>6. /\ SI' \in SIs /\ SI'.stack_ = stack
      /\ UNCHANGED <<SI.pred_, SI.mem_, SI.return_value_, SI.constraints>>
  BY <1>1, <1>2, <1>5 DEF SIs
<1>7. used' \in SUBSET Features /\ used \subseteq used' /\ "cast" \in used'
  BY <1>1 DEF IInv, TypeOK, Use
<1>8. ~Followed' /\ used' # {}
  BY <1>7 DEF Followed
<1>9. SI'.pred_ # Null => e.expr = Null
  BY <1>4, <1>6 DEF IInv, Register
<1>10. L \in Nat
  BY <1>2, Operands
<1> HIDE DEF L
<1>11. own = own + ((L - 1) + 1) - L /\ L - 1 \in 0..L
  BY <1>2, <1>10
<1>12. QED
  BY <1>1, <1>2, <1>4, <1>5, <1>6, <1>7, <1>8, <1>9, <1>11, NodeStep DEF L

LEMMA EvaluatePointerOpStep ==
    ASSUME IInv, NEW value \in Consts, EvaluatePointerOp(value)
    PROVE  IInv'
<1> DEFINE features == {"pointer"} \cup Nesting(Left(SI)) \cup Nesting(Top(SI))
<1>1. /\ InFunction /\ own >= 2 /\ SetOwn(own - 1) /\ Use(features)
      /\ UNCHANGED <<input, memory, aborted>>
  BY DEF EvaluatePointerOp, Running
<1>2. SI \in SIs /\ Len(SI.stack_) >= 2
  BY <1>1, OwnOperands
<1>3. SI' = ApplyCompareOp(SI, PointerOp, value)
  BY DEF EvaluatePointerOp
<1>4. value \in Int
  BY InterpreterAssumption
<1>5. PICK e \in Elems : CompareResult(SI, PointerOp, value, SI', e)
  <2>1. PointerOp \in CompareOps \cup {PointerOp}
    OBVIOUS
  <2>2. QED
    BY <1>2, <1>3, <1>4, <2>1, ApplyCompareOpResult
<1>6. ElemAgrees(e)
  BY <1>5 DEF CompareResult, ElemAgrees, Null
<1>7. used' # {}
  BY <1>1 DEF Use
<1>8. QED
  BY <1>1, <1>5, <1>6, <1>7, BinaryNode DEF CompareResult

LEMMA EvaluateComparisonStep ==
    ASSUME IInv, NEW op \in CompareOps, EvaluateComparison(op)
    PROVE  IInv'
<1> DEFINE a == Left(SI).value
           b == Top(SI).value
           v == Truth(Compare(op, a, b))
<1>1. /\ InFunction /\ own >= 2 /\ SetOwn(own - 1)
      /\ Use(Nesting(Left(SI)) \cup Nesting(Top(SI)))
      /\ UNCHANGED <<input, memory, aborted>>
  BY DEF EvaluateComparison, Running
<1>2. SI \in SIs /\ Len(SI.stack_) >= 2
  BY <1>1, OwnOperands
<1>3. v \in Int
  BY DEF Truth
<1>4. SI' = ApplyCompareOp(SI, op, v)
  BY DEF EvaluateComparison
<1> HIDE DEF v
<1>5. PICK e \in Elems : CompareResult(SI, op, v, SI', e)
  BY <1>2, <1>3, <1>4, ApplyCompareOpResult
<1>6. ElemAgrees(e)
  BY <1>5 DEF CompareResult, ElemAgrees, Null
<1>7. used' = {} /\ SI'.pred_ # Null =>
        e.compared /\ \A p \in SI'.pred_ : p[input] = (e.value # 0)
  <2> SUFFICES ASSUME used' = {}, SI'.pred_ # Null
               PROVE  e.compared
                      /\ \A p \in SI'.pred_ : p[input] = (e.value # 0)
    OBVIOUS
  <2>1. used = {} /\ ~Top(SI).compared
    BY <1>1 DEF Use, Nesting
  <2>2. SI.pred_ = Null
    BY <2>1 DEF IInv, Standing
  <2>3. ElemAgrees(Left(SI)) /\ ElemAgrees(Top(SI))
    BY <1>1, <2>1, OperandAgrees DEF IInv, Followed
  <2>4. input \in Values
    BY DEF IInv, TypeOK
  <2>5. \A p \in SI'.pred_ : p[input] = Compare(op, a, b)
    BY <1>5, <2>2, <2>3, <2>4 DEF CompareResult, ElemAgrees
  <2>6. a \in Int /\ b \in Int
    BY <1>2, Operands DEF Elems
  <2> HIDE DEF a, b
  <2>7. Compare(op, a, b) = (v # 0)
    BY <2>6 DEF v, Truth, Compare
  <2>8. e.value = v /\ e.compared
    BY <1>5 DEF CompareResult, CompareOps, PointerOp
  <2>9. QED
    BY <2>5, <2>7, <2>8
<1>8. QED
  BY <1>1, <1>5, <1>6, <1>7, BinaryNode DEF CompareResult

\* Symbolic memory agrees with what the program stores.
LEMMA StoredMemory ==
    ASSUME IInv, NEW si \in SIs, NEW addr \in Addrs, NEW e \in Elems,
           NEW value \in Int,
           si.mem_ = SI.mem_,
           SI'.mem_ = [si.mem_ EXCEPT ![addr] = Varying(e)],
           memory' = [memory EXCEPT ![addr] = value],
           input' = input
    PROVE  /\ memory' \in [Addrs -> Int]
           /\ MemoryAgrees /\ ElemAgrees(e) /\ e.value = value
                => MemoryAgrees'
<1>1. memory \in [Addrs -> Int] /\ si.mem_ \in [Addrs -> SUBSET Exprs]
  BY DEF IInv, TypeOK, SIs
<1>2. memory' \in [Addrs -> Int]
  BY <1>1
<1>3. ASSUME MemoryAgrees, ElemAgrees(e), e.value = value, NEW a \in Addrs,
             NEW f \in SI'.mem_[a]
      PROVE  f[input] = memory'[a]
  <2>1. CASE a = addr
    <3>1. SI'.mem_[a] = Varying(e)
      BY <1>1, <2>1
    <3>2. f \in e.expr /\ memory'[a] = e.value
      BY <1>1, <1>3, <2>1, <3>1 DEF Varying
    <3>3. QED
      BY <1>3, <3>2 DEF ElemAgrees
  <2>2. CASE a # addr
    <3>1. SI'.mem_[a] = SI.mem_[a] /\ memory'[a] = memory[a]
      BY <1>1, <2>2
    <3>2. QED
      BY <1>3, <3>1 DEF MemoryAgrees
  <2>3. QED
    BY <2>1, <2>2
<1>4. QED
  BY <1>2, <1>3 DEF MemoryAgrees

\* Storing the function's only operand.
LEMMA StoreOperand ==
    ASSUME IInv, own = 1, NEW addr \in Addrs,
           SI' = Store(SI, addr),
           memory' = [memory EXCEPT ![addr] = Top(SI).value],
           input' = input
    PROVE  /\ SI' \in SIs /\ memory' \in [Addrs -> Int]
           /\ Len(SI'.stack_) = Len(SI.stack_) - 1 /\ Len(SI'.stack_) \in Nat
           /\ SI'.pred_ = Null
           /\ UNCHANGED <<SI.return_value_, SI.constraints>>
           /\ StackAgrees /\ MemoryAgrees => StackAgrees' /\ MemoryAgrees'
<1> DEFINE L == Len(SI.stack_)
           e == Top(SI)
<1>1. SI \in SIs /\ L >= 1 /\ e \in Elems
  BY OwnOperands, Operands
<1>2. Stored(SI, addr, SI')
  BY <1>1, StoreResult
<1>3. StackAgrees => ElemAgrees(e)
  BY OperandAgrees
<1>4. /\ SI' \in SIs
      /\ SI'.stack_ \in Seq(Elems) /\ Len(SI'.stack_) = L - 1
      /\ \A n \in 1..Len(SI'.stack_) : SI'.stack_[n] = SI.stack_[n]
  <2>1. SI' \in SIs /\ SI'.stack_ = Popped(SI)
    BY <1>2 DEF Stored
  <2>2. /\ Popped(SI) \in Seq(Elems) /\ Len(Popped(SI)) = L - 1
        /\ \A n \in 1..L - 1 : Popped(SI)[n] = SI.stack_[n]
    BY <1>1, PoppedKeeps
  <2>3. QED
    BY <2>1, <2>2
<1>5. SI'.mem_ = [SI.mem_ EXCEPT ![addr] = Varying(e)]
  BY <1>2 DEF Stored
<1>6. /\ SI'.pred_ = Null
      /\ UNCHANGED <<SI.return_value_, SI.constraints>>
  BY <1>2 DEF Stored
<1> HIDE DEF e
<1>7. /\ memory' \in [Addrs -> Int]
      /\ MemoryAgrees /\ ElemAgrees(e) => MemoryAgrees'
  <2>1. e.value \in Int
    BY <1>1 DEF Elems, e
  <2>2. QED
    BY <1>1, <1>5, <2>1, StoredMemory DEF e
<1>8. StackAgrees => StackAgrees'
  <2> SUFFICES ASSUME StackAgrees, NEW n \in 1..Len(SI'.stack_)
               PROVE  ElemAgrees(SI'.stack_[n])
    BY DEF StackAgrees, ElemAgrees
  <2>1. L \in Nat
    BY <1>1, Operands
  <2> HIDE DEF L
  <2>2. n \in 1..L
    BY <1>4, <2>1
  <2>3. QED
    BY <1>4, <2>2 DEF StackAgrees, L
<1>9. Len(SI'.stack_) \in Nat
  BY <1>4, LenProperties
<1>10. QED
  BY <1>3, <1>4, <1>6, <1>7, <1>8, <1>9

LEMMA AssignStep ==
    ASSUME IInv, NEW addr \in Addrs, Assign(addr)
    PROVE  IInv'
<1>1. /\ InFunction /\ own = 1 /\ SI' = Store(SI, addr)
      /\ memory' = [memory EXCEPT ![addr] = Top(SI).value]
      /\ SetOwn(0) /\ UNCHANGED <<input, aborted, used>>
  BY DEF Assign, Running
<1>2. /\ SI' \in SIs /\ memory' \in [Addrs -> Int]
      /\ Len(SI'.stack_) = Len(SI.stack_) - 1 /\ Len(SI'.stack_) \in Nat
      /\ SI'.pred_ = Null
      /\ UNCHANGED <<SI.return_value_, SI.constraints>>
      /\ StackAgrees /\ MemoryAgrees => StackAgrees' /\ MemoryAgrees'
  BY <1>1, StoreOperand
<1>3. /\ frames' \in Seq(Frames) /\ Framed' /\ InFunction'
      /\ own' = 0 /\ (FunctionsCall => FunctionsCall')
  <2>1. 0 \in Nat /\ 0 <= Len(SI'.stack_)
    BY <1>2
  <2>2. QED
    BY <1>1, <2>1, SetOwnFramed DEF IInv
<1>4. TypeOK'
  BY <1>1, <1>2, <1>3 DEF TypeOK, IInv
<1>5. Uncalled'
  BY <1>1, <1>2, <1>3 DEF Uncalled, Private, IInv
<1>6. Register' /\ Standing' /\ PlainPredicateOnTop'
  BY <1>2, NoPredicate
<1>7. (Followed => StackAgrees /\ MemoryAgrees)'
  BY <1>1, <1>2 DEF IInv, Followed
<1>8. ConstraintsHold'
  BY <1>1, <1>2, ConstraintsKept DEF IInv
<1>9. QED
  BY <1>3, <1>4, <1>5, <1>6, <1>7, <1>8 DEF IInv

LEMMA IfStep ==
    ASSUME IInv, If
    PROVE  IInv'
<1> DEFINE b == Top(SI).value # 0
<1>1. /\ InFunction /\ own = 1 /\ SI' = Branch(SI, b)
      /\ SetOwn(0) /\ UNCHANGED <<input, memory, aborted, used>>
  BY DEF If, Running
<1>2. SI \in SIs /\ input \in Values /\ b \in BOOLEAN
  BY DEF IInv, TypeOK
<1> HIDE DEF b
<1>3. /\ SI' \in SIs
      /\ SI'.stack_ = <<>> /\ SI'.pred_ = Null /\ SI'.mem_ = SI.mem_
      /\ SI'.return_value_ = SI.return_value_
  BY <1>1, <1>2, BranchResult
<1>4. \A c \in SI'.constraints :
        \/ c \in SI.constraints
        \/ \E p \in SI.pred_ : \A x \in Values : p[x] = b => c[x]
  BY <1>1, <1>2, BranchResult
<1>5. Len(SI'.stack_) = 0
  BY <1>3
<1>6. /\ frames' \in Seq(Frames) /\ Framed' /\ InFunction'
      /\ own' = 0 /\ (FunctionsCall => FunctionsCall')
  <2>1. 0 \in Nat /\ 0 <= Len(SI'.stack_)
    BY <1>5
  <2>2. QED
    BY <1>1, <2>1, SetOwnFramed DEF IInv
<1>7. TypeOK'
  BY <1>1, <1>3, <1>6 DEF TypeOK, IInv
<1>8. Uncalled'
  BY <1>1, <1>3, <1>5, <1>6 DEF Uncalled, Private, IInv
<1>9. Register' /\ Standing' /\ PlainPredicateOnTop'
  BY <1>3, NoPredicate
<1>10. (Followed => StackAgrees /\ MemoryAgrees)'
  <2>1. StackAgrees'
    BY <1>5 DEF StackAgrees
  <2>2. MemoryAgrees => MemoryAgrees'
    BY <1>1, <1>3 DEF MemoryAgrees
  <2>3. QED
    BY <1>1, <2>1, <2>2 DEF IInv, Followed
<1>11. ConstraintsHold'
  <2>1. ASSUME used' = {}, NEW c \in SI'.constraints
        PROVE  c \in SI.constraints \/ c[input]
    <3>1. \A p \in SI.pred_ : p[input] = b
      BY <1>1, <2>1 DEF IInv, PlainPredicateOnTop, PredicateOnTop, b
    <3>2. QED
      BY <1>2, <1>4, <3>1
  <2>2. QED
    BY <1>1, <2>1, ConstraintsKept DEF IInv
<1>12. QED
  BY <1>6, <1>7, <1>8, <1>9, <1>10, <1>11 DEF IInv

LEMMA CallFunctionStep ==
    ASSUME IInv, NEW addr \in Addrs, CallFunction(addr)
    PROVE  IInv'
<1>1. /\ InFunction /\ own <= 1 /\ Enter("function")
      /\ UNCHANGED <<input, aborted, used>>
      /\ \/ own = 0 /\ UNCHANGED <<SI, memory>>
         \/ /\ own # 0 /\ SI' = Store(SI, addr)
            /\ memory' = [memory EXCEPT ![addr] = Top(SI).value]
  BY DEF CallFunction, Running
<1>2. own \in Nat
  BY InnermostFrame DEF IInv
<1>3. /\ SI' \in SIs /\ memory' \in [Addrs -> Int] /\ Len(SI'.stack_) \in Nat
      /\ Len(SI'.stack_) = Len(SI.stack_) - own
      /\ UNCHANGED <<SI.return_value_, SI.constraints>>
      /\ Register' /\ Standing' /\ PlainPredicateOnTop'
      /\ StackAgrees /\ MemoryAgrees => StackAgrees' /\ MemoryAgrees'
  <2>1. CASE own = 0 /\ UNCHANGED <<SI, memory>>
    <3>1. /\ Len(SI'.stack_) \in Nat
          /\ Len(SI'.stack_) = Len(SI.stack_) - own
      BY <2>1, Operands DEF IInv, TypeOK
    <3>2. /\ Register' /\ Standing' /\ PlainPredicateOnTop'
          /\ StackAgrees /\ MemoryAgrees => StackAgrees' /\ MemoryAgrees'
      BY <1>1, <2>1 DEF IInv, Register, Standing, PlainPredicateOnTop,
         PredicateOnTop, Top, StackAgrees, MemoryAgrees, ElemAgrees
    <3>3. QED
      BY <2>1, <3>1, <3>2 DEF IInv, TypeOK
  <2>2. CASE /\ own # 0 /\ SI' = Store(SI, addr)
             /\ memory' = [memory EXCEPT ![addr] = Top(SI).value]
    <3>1. own = 1
      BY <1>1, <1>2, <2>2
    <3>2. /\ SI' \in SIs /\ memory' \in [Addrs -> Int]
          /\ Len(SI'.stack_) = Len(SI.stack_) - 1 /\ Len(SI'.stack_) \in Nat
          /\ SI'.pred_ = Null
          /\ UNCHANGED <<SI.return_value_, SI.constraints>>
          /\ StackAgrees /\ MemoryAgrees => StackAgrees' /\ MemoryAgrees'
      BY <1>1, <2>2, <3>1, StoreOperand
    <3>3. QED
      BY <3>1, <3>2, NoPredicate
  <2>3. QED
    BY <1>1, <2>1, <2>2
<1>4. /\ frames' \in Seq(Frames) /\ Framed' /\ own' = 0 /\ InFunction'
      /\ (FunctionsCall /\ InFunction => FunctionsCall')
  BY <1>1, <1>3, EnterFramed DEF IInv
<1>5. TypeOK'
  BY <1>1, <1>3, <1>4 DEF TypeOK, IInv
<1>6. Uncalled'
  <2>1. Len(SI.stack_) = own => Len(SI'.stack_) = 0
    BY <1>2, <1>3
  <2>2. QED
    BY <1>1, <1>3, <1>4, <2>1 DEF Uncalled, Private, IInv
<1>7. (Followed => StackAgrees /\ MemoryAgrees)'
  BY <1>1, <1>3 DEF IInv, Followed
<1>8. ConstraintsHold'
  BY <1>1, <1>3, ConstraintsKept DEF IInv
<1>9. QED
  BY <1>3, <1>4, <1>5, <1>6, <1>7, <1>8 DEF IInv

\* Entering a frame without touching the interpreter.
LEMMA EnterOnly ==
    ASSUME IInv, NEW kind \in {"function", "library"}, Enter(kind),
           UNCHANGED <<SI, input, aborted>>, memory' \in [Addrs -> Int],
           Followed' /\ MemoryAgrees => MemoryAgrees',
           used' \in SUBSET Features, used \subseteq used',
           \/ "callback" \in used'
           \/ InFunction /\ kind = "library"
           \/ InFunction /\ "variadic" \in used'
    PROVE  IInv'
<1>1. Len(SI'.stack_) \in Nat
  BY Operands DEF IInv, TypeOK
<1>2. /\ frames' \in Seq(Frames) /\ Framed'
      /\ InFunction' <=> kind = "function"
      /\ FunctionsCall /\ InFunction => FunctionsCall'
  BY <1>1, EnterFramed DEF IInv
<1>3. TypeOK'
  BY <1>2 DEF TypeOK, IInv
<1>4. Uncalled'
  BY <1>2 DEF Uncalled, Private, IInv
<1>5. Register' /\ Standing' /\ PlainPredicateOnTop'
  BY DEF IInv, Register, Standing, PlainPredicateOnTop, PredicateOnTop, Top
<1>6. (Followed => StackAgrees /\ MemoryAgrees)'
  <2>1. StackAgrees => StackAgrees'
    BY DEF StackAgrees, ElemAgrees
  <2>2. QED
    BY <2>1 DEF IInv, Followed
<1>7. ConstraintsHold'
  BY ConstraintsKept DEF IInv
<1>8. QED
  BY <1>2, <1>3, <1>4, <1>5, <1>6, <1>7 DEF IInv

LEMMA CallLibraryStep ==
    ASSUME IInv, CallLibrary
    PROVE  IInv'
<1>1. used \in SUBSET Features /\ memory \in [Addrs -> Int]
  BY DEF IInv, TypeOK
<1>2. UNCHANGED <<SI, memory, input>>
  BY DEF CallLibrary, Running
<1>3. MemoryAgrees => MemoryAgrees'
  BY <1>2 DEF MemoryAgrees
<1>4. QED
  BY <1>1, <1>2, <1>3, EnterOnly DEF CallLibrary, Running

LEMMA CallbackStep ==
    ASSUME IInv, Callback
    PROVE  IInv'
<1>1. used' \in SUBSET Features /\ used \subseteq used' /\ "callback" \in used'
  BY DEF IInv, TypeOK, Callback, Use
<1>2. UNCHANGED <<SI, memory, input>> /\ memory \in [Addrs -> Int]
  BY DEF IInv, TypeOK, Callback, Running
<1>3. MemoryAgrees => MemoryAgrees'
  BY <1>2 DEF MemoryAgrees
<1>4. QED
  BY <1>1, <1>2, <1>3, EnterOnly DEF Callback, Running

\* A variable that changes unseen is either not followed or an overwrite.
LEMMA WrittenMemory ==
    ASSUME IInv, NEW addr \in Addrs, NEW value \in Int,
           memory' = [memory EXCEPT ![addr] = value],
           Overwriting(addr) \subseteq used', used \subseteq used',
           SI'.mem_ = SI.mem_, input' = input
    PROVE  /\ memory' \in [Addrs -> Int]
           /\ Followed' /\ MemoryAgrees => MemoryAgrees'
<1>1. memory \in [Addrs -> Int]
  BY DEF IInv, TypeOK
<1>2. \A a \in Addrs : a # addr => memory'[a] = memory[a]
  BY <1>1
<1>3. ASSUME Followed', MemoryAgrees PROVE MemoryAgrees'
  <2>1. SI.mem_[addr] = Null
    BY <1>3 DEF Followed, Overwriting
  <2>2. QED
    BY <1>2, <1>3, <2>1 DEF MemoryAgrees, Null
<1>4. QED
  BY <1>1, <1>3

LEMMA WriteUnseenStep ==
    ASSUME IInv, NEW addr \in Addrs, NEW value \in Consts,
           WriteUnseen(addr, value), input' = input
    PROVE  IInv'
<1>1. /\ UNCHANGED <<SI, frames, aborted, input>>
      /\ Use(Overwriting(addr))
      /\ memory' = [memory EXCEPT ![addr] = value]
  BY DEF WriteUnseen
<1>2. used' \in SUBSET Features /\ used \subseteq used'
  BY <1>1 DEF Use, IInv, TypeOK
<1>3. TypeOK'
  <2>1. value \in Int
    BY InterpreterAssumption
  <2>2. QED
    BY <1>1, <1>2, <2>1 DEF TypeOK, IInv
<1>4. Framed' /\ Register' /\ (FunctionsCall => FunctionsCall')
  BY <1>1 DEF IInv, Framed, Register, FunctionsCall, InFunction, own, Top
<1>5. Uncalled'
  BY <1>1, <1>2, <1>4 DEF IInv, Uncalled, Private, InFunction, own
<1>6. Standing' /\ PlainPredicateOnTop'
  BY <1>1, <1>2
     DEF IInv, Standing, PlainPredicateOnTop, PredicateOnTop, Top
<1>7. (Followed => StackAgrees /\ MemoryAgrees)'
  <2>1. StackAgrees => StackAgrees'
    BY <1>1 DEF StackAgrees, ElemAgrees
  <2>2. Followed' => Followed
    BY <1>2 DEF Followed
  <2>3. Followed' /\ MemoryAgrees => MemoryAgrees'
    BY <1>1, <1>2, InterpreterAssumption, WrittenMemory DEF Use
  <2>4. QED
    BY <2>1, <2>2, <2>3 DEF IInv
<1>8. ConstraintsHold'
  BY <1>1, <1>2, ConstraintsKept DEF IInv
<1>9. QED
  BY <1>3, <1>4, <1>5, <1>6, <1>7, <1>8 DEF IInv

LEMMA LibraryWritesStep ==
    ASSUME IInv, NEW addr \in Addrs, NEW value \in Consts,
           LibraryWrites(addr, value)
    PROVE  IInv'
  BY WriteUnseenStep DEF LibraryWrites, Running

LEMMA AssignUnseenStep ==
    ASSUME IInv, NEW addr \in Addrs, NEW value \in Consts,
           AssignUnseen(addr, value)
    PROVE  IInv'
  BY WriteUnseenStep DEF AssignUnseen, Running

LEMMA CallVariadicStep ==
    ASSUME IInv, NEW addr \in Addrs, CallVariadic(addr)
    PROVE  IInv'
<1> DEFINE L == Len(SI.stack_)
           n == L - own + 1
           v == SI.stack_[n].value
<1>1. /\ InFunction /\ own >= 1 /\ Enter("function")
      /\ Use({"variadic"} \cup Overwriting(addr))
      /\ memory' = [memory EXCEPT ![addr] = v]
      /\ UNCHANGED <<SI, input, aborted>>
  BY DEF CallVariadic, Running
<1>2. v \in Int
  <2>1. L \in Nat /\ own \in Nat /\ own <= L
    BY Operands, InnermostFrame DEF IInv, TypeOK, Framed
  <2> HIDE DEF L
  <2>2. n \in 1..L
    BY <1>1, <2>1
  <2>3. SI.stack_[n] \in Elems
    BY <2>2, Operands DEF IInv, TypeOK, L
  <2>4. QED
    BY <2>3 DEF Elems
<1>3. /\ used' \in SUBSET Features /\ used \subseteq used'
      /\ "variadic" \in used' /\ Overwriting(addr) \subseteq used'
  BY <1>1 DEF IInv, TypeOK, Use
<1> HIDE DEF v
<1>4. /\ memory' \in [Addrs -> Int]
      /\ Followed' /\ MemoryAgrees => MemoryAgrees'
  BY <1>1, <1>2, <1>3, WrittenMemory
<1>5. QED
  BY <1>1, <1>3, <1>4, EnterOnly

\* Back in the caller, with an empty stack.
LEMMA BackStep ==
    ASSUME IInv, Len(frames) > 1, frames' = Tail(frames),
           SI' \in SIs, Len(SI'.stack_) = 0, ~SI'.return_value_,
           SI'.pred_ = Null, SI'.constraints = SI.constraints,
           memory' \in [Addrs -> Int],
           Followed /\ MemoryAgrees => MemoryAgrees',
           UNCHANGED <<input, used>>, aborted' = FALSE
    PROVE  IInv'
<1>1. /\ frames' \in Seq(Frames) /\ Framed' /\ own' = 0
      /\ FunctionsCall => FunctionsCall'
  <2>1. Len(SI'.stack_) \in Nat
    OBVIOUS
  <2>2. QED
    BY <2>1, TailFramed DEF IInv
<1>2. TypeOK'
  BY <1>1 DEF TypeOK, IInv
<1>3. Uncalled'
  BY <1>1 DEF Uncalled, Private, IInv
<1>4. Register' /\ Standing' /\ PlainPredicateOnTop'
  BY NoPredicate
<1>5. (Followed => StackAgrees /\ MemoryAgrees)'
  <2>1. StackAgrees'
    BY DEF StackAgrees
  <2>2. QED
    BY <2>1 DEF IInv, Followed
<1>6. ConstraintsHold'
  BY ConstraintsKept DEF IInv
<1>7. QED
  BY <1>1, <1>2, <1>3, <1>4, <1>5, <1>6 DEF IInv

LEMMA DiscardStep ==
    ASSUME IInv, Len(frames) > 1, frames' = Tail(frames),
           NEW si \in SIs, si.mem_ = SI.mem_, si.constraints = SI.constraints,
           DiscardResult(si), UNCHANGED <<input, used>>, aborted' = FALSE
    PROVE  IInv'
<1>1. SI' = ClearStack(si) /\ memory' = memory
  BY DEF DiscardResult
<1>2. /\ SI' \in SIs /\ SI'.stack_ = <<>> /\ SI'.mem_ = si.mem_
      /\ SI'.pred_ = Null
      /\ ~SI'.return_value_ /\ SI'.constraints = si.constraints
  BY <1>1, ClearStackResult
<1>3. Len(SI'.stack_) = 0
  BY <1>2
<1>4. memory' \in [Addrs -> Int] /\ (MemoryAgrees => MemoryAgrees')
  BY <1>1, <1>2 DEF IInv, TypeOK, MemoryAgrees
<1>5. QED
  BY <1>2, <1>3, <1>4, BackStep

\* The value stored is the callee's operand or a concrete one.
LEMMA AssignResultStep ==
    ASSUME IInv, Len(frames) > 1, frames' = Tail(frames),
           NEW si \in SIs, si.mem_ = SI.mem_, si.constraints = SI.constraints,
           HandleReturnAssert(si), NEW value \in Int, NEW addr \in Addrs,
           AssignResult(si, addr, value),
           si.return_value_ /\ Followed =>
                Top(si).value = value /\ ElemAgrees(Top(si)),
           UNCHANGED <<input, used>>, aborted' = FALSE
    PROVE  IInv'
<1> DEFINE h == HandleReturn(si, value)
           e == Top(h)
<1>1. /\ h \in SIs /\ Len(h.stack_) = 1 /\ ~h.return_value_
      /\ h.mem_ = SI.mem_ /\ h.constraints = SI.constraints
  <2>1. h \in SIs /\ Len(h.stack_) = 1 /\ ~h.return_value_
    BY HandleReturnResult
  <2>2. h.mem_ = si.mem_ /\ h.constraints = si.constraints
    BY HandleReturnResult
  <2>3. QED
    BY <2>1, <2>2
<1>2. h \in SIs /\ Len(h.stack_) >= 1 /\ e \in Elems
  <2> DEFINE n == Len(h.stack_)
  <2>1. n = 1 /\ h \in SIs
    BY <1>1
  <2> HIDE DEF n, h
  <2>2. n >= 1
    BY <2>1
  <2>3. QED
    BY <2>1, <2>2, Operands DEF n
<1>3. Followed => e.value = value /\ ElemAgrees(e)
  <2>1. CASE si.return_value_
    <3>1. e = Top(si)
      BY <2>1, HandleReturnResult
    <3>2. QED
      BY <2>1, <3>1
  <2>2. CASE ~si.return_value_
    <3>1. e = Elem(Null, value)
      BY <2>2, HandleReturnResult
    <3>2. QED
      BY <3>1 DEF Elem, ElemAgrees, Null
  <2>3. QED
    BY <2>1, <2>2 DEF SIs
<1>4. SI' = Store(h, addr) /\ memory' = [memory EXCEPT ![addr] = value]
  BY DEF AssignResult
<1> HIDE DEF h
<1>5. Stored(h, addr, SI')
  BY <1>2, <1>4, StoreResult
<1>6. /\ SI' \in SIs /\ ~SI'.return_value_
      /\ SI'.pred_ = Null /\ SI'.constraints = SI.constraints
  BY <1>1, <1>5 DEF Stored
<1>7. Len(SI'.stack_) = 0
  <2>1. SI'.stack_ = Popped(h) /\ Len(Popped(h)) = Len(h.stack_) - 1
    BY <1>2, <1>5, PoppedKeeps DEF Stored
  <2>2. QED
    BY <1>1, <2>1
<1>8. SI'.mem_ = [h.mem_ EXCEPT ![addr] = Varying(e)]
  BY <1>5 DEF Stored
<1> HIDE DEF e
<1>9. /\ memory' \in [Addrs -> Int]
      /\ Followed /\ MemoryAgrees => MemoryAgrees'
  BY <1>1, <1>2, <1>3, <1>4, <1>8, StoredMemory
<1>10. QED
  BY <1>6, <1>7, <1>9, BackStep

\* The assert fails only in a callback or over a variable argument.
LEMMA FailedStep ==
    ASSUME IInv, ~Private, aborted' \in BOOLEAN,
           UNCHANGED <<SI, memory, frames, input, used>>
    PROVE  IInv'
<1>1. TypeOK'
  BY DEF IInv, TypeOK
<1>2. Framed' /\ Register' /\ Standing'
  BY DEF IInv, Framed, Register, Standing, InFunction, own, Top
<1>3. Uncalled'
  BY DEF IInv, Uncalled, Private, FunctionsCall
<1>4. (Followed => StackAgrees /\ MemoryAgrees)'
  BY DEF IInv, Followed, StackAgrees, MemoryAgrees, ElemAgrees
<1>5. PlainPredicateOnTop' /\ ConstraintsHold'
  BY DEF Private, PlainPredicateOnTop, ConstraintsHold
<1>6. QED
  BY <1>1, <1>2, <1>3, <1>4, <1>5 DEF IInv

\* A call leaves a caller below: a function, unless there is a callback.
LEMMA Caller ==
    ASSUME IInv, Len(frames) > 1
    PROVE  "callback" \notin used => frames[2].kind = "function"
<1> DEFINE n == Len(frames)
<1>1. n \in Nat /\ n > 1
  BY FramesFacts DEF IInv
<1> HIDE DEF n
<1>2. 2 \in 2..n
  BY <1>1
<1>3. QED
  BY <1>2 DEF n, IInv, Uncalled, FunctionsCall

LEMMA FunctionReturnsStep ==
    ASSUME IInv, FunctionReturns
    PROVE  IInv'
<1> DEFINE si == Return(SI)
           Asserts == ReturnAssert(SI) /\ HandleReturnAssert(si)
<1>1. /\ InFunction /\ Len(frames) > 1 /\ own <= 1
      /\ UNCHANGED <<input, used>> /\ aborted' = ~Asserts
      /\ \/ ~Asserts /\ UNCHANGED <<SI, memory, frames>>
         \/ /\ Asserts /\ frames' = Tail(frames)
            /\ \/ frames[2].kind = "library" /\ SI' = si /\ UNCHANGED memory
               \/ DiscardResult(si)
               \/ own = 1 /\ \E addr \in Addrs :
                    AssignResult(si, addr, Top(SI).value)
  BY DEF FunctionReturns, Running
<1>2. /\ si \in SIs /\ si.stack_ = SI.stack_ /\ si.pred_ = SI.pred_
      /\ si.mem_ = SI.mem_ /\ si.constraints = SI.constraints
      /\ si.return_value_ <=> Len(SI.stack_) = 1
  BY ReturnResult DEF IInv, TypeOK
<1> HIDE DEF si
<1>3. CASE ~Asserts /\ UNCHANGED <<SI, memory, frames>>
  <2>1. HandleReturnAssert(si)
    BY <1>2 DEF HandleReturnAssert
  <2>2. ~Private
    BY <1>1, <1>3, <2>1 DEF IInv, Uncalled, ReturnAssert
  <2>3. aborted' \in BOOLEAN
    BY <1>1, <1>3
  <2>4. QED
    BY <1>1, <1>3, <2>2, <2>3, FailedStep
<1>4. CASE /\ Asserts /\ frames' = Tail(frames)
           /\ frames[2].kind = "library" /\ SI' = si /\ UNCHANGED memory
  <2>1. Len(SI'.stack_) \in Nat
    BY <1>2, <1>4, Operands
  <2>2. frames' \in Seq(Frames) /\ Framed'
    BY <1>1, <1>4, <2>1, TailFramed DEF IInv
  <2>3. aborted' = FALSE
    BY <1>1, <1>4
  <2>4. TypeOK'
    BY <1>1, <1>2, <1>4, <2>2, <2>3 DEF IInv, TypeOK
  <2>5. "callback" \in used
    BY <1>1, <1>4, Caller
  <2>6. Register'
    BY <1>2, <1>4 DEF IInv, Register, Top
  <2>7. /\ Uncalled' /\ ~Followed' /\ Standing'
        /\ PlainPredicateOnTop' /\ ConstraintsHold'
    BY <1>1, <2>5 DEF Uncalled, Private, Followed, Standing,
       PlainPredicateOnTop, ConstraintsHold
  <2>8. QED
    BY <2>2, <2>4, <2>6, <2>7 DEF IInv
<1>5. CASE Asserts /\ frames' = Tail(frames) /\ DiscardResult(si)
  <2>1. aborted' = FALSE
    BY <1>1, <1>5
  <2>2. QED
    BY <1>1, <1>2, <1>5, <2>1, DiscardStep
<1>6. ASSUME Asserts, frames' = Tail(frames), own = 1, NEW addr \in Addrs,
             AssignResult(si, addr, Top(SI).value)
      PROVE  IInv'
  <2>1. aborted' = FALSE
    BY <1>1, <1>6
  <2> DEFINE v == Top(SI).value
  <2>2. v \in Int
    <3>1. SI \in SIs /\ Len(SI.stack_) >= 1
      BY <1>6, OwnOperands
    <3>2. QED
      BY <3>1, Operands DEF Elems
  <2>3. Top(si) = Top(SI)
    BY <1>2 DEF Top
  <2>4. Followed => ElemAgrees(Top(si))
    BY <1>6, <2>3, OperandAgrees DEF IInv
  <2>5. Top(si).value = v
    BY <2>3
  <2> HIDE DEF v
  <2>6. AssignResult(si, addr, v)
    BY <1>6 DEF v
  <2>7. QED
    BY <1>1, <1>2, <1>6, <2>1, <2>2, <2>4, <2>5, <2>6, AssignResultStep
<1>7. QED
  BY <1>1, <1>3, <1>4, <1>5, <1>6

LEMMA LibraryReturnsStep ==
    ASSUME IInv, NEW value \in Consts, LibraryReturns(value)
    PROVE  IInv'
<1>1. /\ ~InFunction /\ UNCHANGED <<input, used>>
      /\ aborted' = ~HandleReturnAssert(SI)
      /\ \/ ~HandleReturnAssert(SI) /\ UNCHANGED <<SI, memory, frames>>
         \/ /\ HandleReturnAssert(SI) /\ frames' = Tail(frames)
            /\ \/ DiscardResult(SI)
               \/ \E addr \in Addrs : AssignResult(SI, addr, value)
  BY DEF LibraryReturns, Running
<1>2. Len(frames) > 1
  <2> DEFINE n == Len(frames)
  <2>1. n \in Nat /\ n >= 1
    BY FramesFacts DEF IInv, Framed
  <2>2. n # 1
    BY <1>1 DEF IInv, Framed, InFunction
  <2> HIDE DEF n
  <2>3. n > 1
    BY <2>1, <2>2
  <2>4. QED
    BY <2>3 DEF n
<1>3. SI \in SIs /\ value \in Int
  BY InterpreterAssumption DEF IInv, TypeOK
<1>4. SI.return_value_ => "callback" \in used
  BY DEF IInv, Uncalled
<1>5. CASE ~HandleReturnAssert(SI) /\ UNCHANGED <<SI, memory, frames>>
  <2>1. ~Private
    BY <1>4, <1>5 DEF HandleReturnAssert, Private
  <2>2. aborted' \in BOOLEAN
    BY <1>1, <1>5
  <2>3. QED
    BY <1>1, <1>5, <2>1, <2>2, FailedStep
<1>6. CASE /\ HandleReturnAssert(SI) /\ frames' = Tail(frames)
           /\ DiscardResult(SI)
  <2>1. aborted' = FALSE
    BY <1>1, <1>6
  <2>2. QED
    BY <1>1, <1>2, <1>3, <1>6, <2>1, DiscardStep
<1>7. ASSUME HandleReturnAssert(SI), frames' = Tail(frames),
             NEW addr \in Addrs, AssignResult(SI, addr, value)
      PROVE  IInv'
  <2>1. aborted' = FALSE
    BY <1>1, <1>7
  <2>2. SI.return_value_ => ~Followed
    BY <1>4 DEF Followed
  <2>3. QED
    BY <1>1, <1>2, <1>3, <1>7, <2>1, <2>2, AssignResultStep
<1>8. QED
  BY <1>1, <1>5, <1>6, <1>7

(***************************************************************************)
(* The theorems                                                            *)
(***************************************************************************)

LEMMA InitIInv == Init => IInv
<1> SUFFICES ASSUME Init PROVE IInv
  OBVIOUS
<1> DEFINE m == [a \in Addrs |->
                    IF a = Marked THEN {[x \in Values |-> x]} ELSE Null]
<1>1. /\ SI = [stack_ |-> <<>>, pred_ |-> Null, return_value_ |-> FALSE,
               mem_ |-> m, constraints |-> {}]
      /\ input \in Values /\ memory \in [Addrs -> Consts \cup {input}]
      /\ memory[Marked] = input /\ frames = <<Frame("function")>>
      /\ aborted = FALSE /\ used = {}
  BY DEF Init
<1>2. m \in [Addrs -> SUBSET Exprs]
  BY InterpreterAssumption DEF Exprs, Null
<1>3. memory \in [Addrs -> Int]
  BY <1>1, InterpreterAssumption
<1>4. \A a \in Addrs : \A f \in m[a] : a = Marked /\ f[input] = input
  BY <1>1 DEF Null
<1> HIDE DEF m
<1>5. /\ SI \in SIs
      /\ SI.stack_ = <<>> /\ SI.pred_ = Null /\ SI.return_value_ = FALSE
      /\ SI.mem_ = m /\ SI.constraints = {}
  BY <1>1, <1>2, EmptySeq DEF SIs, Null
<1>6. Len(SI.stack_) = 0
  BY <1>5
<1>7. /\ frames \in Seq(Frames) /\ Len(frames) = 1
      /\ frames[1].kind = "function" /\ frames[1].own = 0
  BY <1>1 DEF Frame, Frames
<1>8. TypeOK
  BY <1>1, <1>3, <1>5, <1>7 DEF TypeOK
<1>9. Framed /\ FunctionsCall /\ own = 0
  BY <1>6, <1>7 DEF Framed, FunctionsCall, InFunction, own
<1>10. Uncalled
  BY <1>1, <1>5, <1>6, <1>9 DEF Uncalled
<1>11. Register /\ Standing /\ PlainPredicateOnTop
  BY <1>5 DEF Register, Standing, PlainPredicateOnTop, PredicateOnTop, Null
<1>12. StackAgrees /\ MemoryAgrees
  BY <1>1, <1>4, <1>5, <1>6 DEF StackAgrees, MemoryAgrees
<1>13. ConstraintsHold
  BY <1>5 DEF ConstraintsHold
<1>14. QED
  BY <1>8, <1>9, <1>10, <1>11, <1>12, <1>13 DEF IInv

\* A step that changes nothing.
LEMMA IInvStutters ==
    ASSUME IInv, UNCHANGED vars
    PROVE  IInv'
<1>1. TypeOK' /\ Framed'
  BY DEF IInv, vars, TypeOK, Framed, InFunction, own
<1>2. Register' /\ Standing' /\ PlainPredicateOnTop' /\ ConstraintsHold'
  BY DEF IInv, vars, Register, Standing, PlainPredicateOnTop, PredicateOnTop,
         ConstraintsHold, Top
<1>3. Uncalled'
  BY DEF IInv, vars, Uncalled, Private, FunctionsCall, InFunction, own
<1>4. (Followed => StackAgrees /\ MemoryAgrees)'
  BY DEF IInv, vars, Followed, StackAgrees, MemoryAgrees, ElemAgrees
<1>5. QED
  BY <1>1, <1>2, <1>3, <1>4 DEF IInv

LEMMA NextIInv == IInv /\ [Next]_vars => IInv'
<1> SUFFICES ASSUME IInv, [Next]_vars PROVE IInv'
  OBVIOUS
<1>1. ASSUME NEW addr \in Addrs, Evaluate(addr) PROVE IInv'
  BY <1>1, EvaluateStep
<1>2. ASSUME NEW addr \in Addrs, Assign(addr) PROVE IInv'
  BY <1>2, AssignStep
<1>3. ASSUME NEW addr \in Addrs, CallFunction(addr) PROVE IInv'
  BY <1>3, CallFunctionStep
<1>4. ASSUME NEW addr \in Addrs, NEW c \in Consts, LibraryWrites(addr, c)
      PROVE  IInv'
  BY <1>4, LibraryWritesStep
<1>5. ASSUME NEW c \in Consts, EvaluateLiteral(c) PROVE IInv'
  BY <1>5, EvaluateLiteralStep
<1>6. ASSUME NEW c \in Consts, EvaluateOther(c) PROVE IInv'
  BY <1>6, EvaluateOtherStep
<1>7. ASSUME NEW c \in Consts, LibraryReturns(c) PROVE IInv'
  BY <1>7, LibraryReturnsStep
<1>8. ASSUME NEW op \in UnaryOps, EvaluateUnary(op) PROVE IInv'
  BY <1>8, EvaluateUnaryStep
<1>9. ASSUME NEW op \in ArithmeticOps, EvaluateBinary(op) PROVE IInv'
  BY <1>9, EvaluateBinaryStep
<1>10. ASSUME NEW op \in CompareOps, EvaluateComparison(op) PROVE IInv'
  BY <1>10, EvaluateComparisonStep
<1>11. CASE If
  BY <1>11, IfStep
<1>12. CASE CallLibrary
  BY <1>12, CallLibraryStep
<1>13. CASE Callback
  BY <1>13, CallbackStep
<1>14. CASE FunctionReturns
  BY <1>14, FunctionReturnsStep
<1>15. CASE UNCHANGED vars
  BY <1>15, IInvStutters
<1>16. ASSUME NEW addr \in Addrs, CallVariadic(addr) PROVE IInv'
  BY <1>16, CallVariadicStep
<1>17. ASSUME NEW addr \in Addrs, NEW c \in Consts, AssignUnseen(addr, c)
       PROVE  IInv'
  BY <1>17, AssignUnseenStep
<1>18. ASSUME NEW c \in Consts, EvaluatePointerOp(c) PROVE IInv'
  BY <1>18, EvaluatePointerOpStep
<1>19. ASSUME NEW m \in Moduli, NEW signed \in BOOLEAN,
              EvaluateCast(m, signed)
       PROVE  IInv'
  BY <1>19, EvaluateCastStep
<1>20. QED
  BY <1>1, <1>2, <1>3, <1>4, <1>5, <1>6, <1>7, <1>8, <1>9, <1>10, <1>11,
     <1>12, <1>13, <1>14, <1>15, <1>16, <1>17, <1>18, <1>19 DEF Next

\* Every run keeps the invariant.
THEOREM IInvHolds == Spec => []IInv
<1>1. Init => IInv
  BY InitIInv
<1>2. IInv /\ [Next]_vars => IInv'
  BY NextIInv
<1>3. QED
  BY <1>1, <1>2, PTL DEF Spec

\* Every register has its type in every run: an expression is always one over
\* the marked input, and the shadow stack and the frames are sequences.
THEOREM TypesHold == Spec => []TypeOK
<1>1. IInv => TypeOK
  BY DEF IInv
<1>2. QED
  BY <1>1, IInvHolds, PTL

\* Concrete and symbolic execution agree on every operand and every followed
\* variable, whatever the program does short of callbacks, of casts and
\* overflows that change a value, and of writing over a symbolic value unseen.
THEOREM ConcolicHolds == Spec => []ConcolicAgree
<1>1. IInv => ConcolicAgree
  <2> SUFFICES ASSUME IInv PROVE ConcolicAgree
    OBVIOUS
  <2>1. DOMAIN SI.stack_ = 1..Len(SI.stack_)
    BY Operands DEF IInv, TypeOK
  <2>2. QED
    BY <2>1 DEF IInv, Followed, StackAgrees, MemoryAgrees, ElemAgrees,
       ConcolicAgree
<1>2. QED
  BY <1>1, IInvHolds, PTL

\* In a plain program the predicate register speaks of the value on top of the
\* stack.
THEOREM PredicateHolds == Spec => []PlainPredicateOnTop
<1>1. IInv => PlainPredicateOnTop
  BY DEF IInv
<1>2. QED
  BY <1>1, IInvHolds, PTL

\* Every constraint such a program hands to the solver is true of its run.
THEOREM ConstraintsAreTrue == Spec => []ConstraintsHold
<1>1. IInv => ConstraintsHold
  BY DEF IInv
<1>2. QED
  BY <1>1, IInvHolds, PTL

\* Without callbacks and variable arguments the shadow stack is the operands of
\* the innermost function, however deep the calls are nested.
THEOREM StackHolds == Spec => []StackIsOwn
<1>1. IInv => StackIsOwn
  BY DEF IInv, Uncalled, Private, StackIsOwn
<1>2. QED
  BY <1>1, IInvHolds, PTL

\* Nor does then an assert of Return or HandleReturn fail.
THEOREM AssertsHold == Spec => []NeverAborts
<1>1. IInv => NeverAborts
  BY DEF IInv, Uncalled, Private, NeverAborts
<1>2. QED
  BY <1>1, IInvHolds, PTL

\* A logical not never meets a predicate it could negate: whenever the
\* register holds one, the operand on top is concrete, and ApplyUnaryOp then
\* leaves the register alone (symbolic_interpreter.cc:154-158).
THEOREM PredicateUnderConcrete == Spec => []Register
<1>1. IInv => Register
  BY DEF IInv
<1>2. QED
  BY <1>1, IInvHolds, PTL
=============================================================================
