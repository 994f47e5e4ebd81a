-------------------------------- MODULE AST ---------------------------------
(***************************************************************************)
(* The node kinds of the AST (AST.inl), the class families the layout      *)
(* reader, the meta emitter and the semantic check dispatch on (AST.hpp),  *)
(* and the compile-time predicates of ASTPredicate.hpp.                    *)
(*                                                                         *)
(* A tree is a record [k |-> kind, n |-> name, c |-> children].  Names are *)
(* the identifiers of named nodes; literals, operators and source ranges   *)
(* are left out: no reader step, scope rule or emitter step depends on     *)
(* them.                                                                   *)
(***************************************************************************)
EXTENDS Sequences, TLC

CONSTANT NoName      \* the name of a node that has none

(***************************************************************************)
(* The shape of children() per class: "none" when the class has no         *)
(* children() at all, "arrayN" when it returns a std::array of N, and     *)
(* "variadic" when it returns a vector, SmallVector, ArrayRef or Nullable  *)
(* whose size is not known statically.                                     *)
(***************************************************************************)
\* UnitASTNode keeps a std::vector of children (CompilationUnit, MetaUnit).
UnitShape == [CompilationUnit |-> "variadic", MetaUnit |-> "variadic"]

\* FunctionDecl: SmallVector of arguments, return type and body; MetaDecl:
\* std::array of the argument list and the contribution; GlobalConstantDecl:
\* std::array of its constant expression; argument declarations are leaves.
DeclShape ==
  [FunctionDecl |-> "variadic", ArgumentDeclList |-> "variadic",
   AnonymousArgumentDecl |-> "none", NamedArgumentDecl |-> "none",
   MetaDecl |-> "array2", GlobalConstantDecl |-> "array1", MetaContribution |-> "variadic"]

\* Compound statements and the two if statements hold a SmallVector or an
\* ArrayRef, a return its Nullable expression; the rest a std::array.
StmtShape ==
  [UnscopedCompoundStmt |-> "variadic", CompoundStmt |-> "variadic",
   ReturnStmt |-> "variadic", ExpressionStmt |-> "array1", DeclStmt |-> "array1",
   IfStmt |-> "variadic", MetaIfStmt |-> "variadic",
   MetaCalculationStmt |-> "array1"]

ExprShape ==
  [DeclRefExpr |-> "none", IntegerLiteralExpr |-> "none",
   BooleanLiteralExpr |-> "none", ErroneousExpr |-> "none",
   BinaryOperatorExpr |-> "array2", CallOperatorExpr |-> "variadic",
   MetaInstantiationExpr |-> "variadic"]

StmtKinds == DOMAIN StmtShape
ExprKinds == DOMAIN ExprShape
Kinds == DOMAIN UnitShape \cup DOMAIN DeclShape \cup StmtKinds \cup ExprKinds

ChildContainer(k) == (UnitShape @@ DeclShape @@ StmtShape @@ ExprShape)[k]

\* pred::isRequiringReduceMarker: the node has children() and their amount
\* is not known at compile time.
RequiresReduceMarker(k) == ChildContainer(k) = "variadic"

\* The classes deriving from TopLevelASTNode, NamedDeclContext,
\* ConstantExprASTNode and IntermediateNode.
TopLevelKinds == {"MetaUnit", "FunctionDecl", "MetaDecl", "GlobalConstantDecl"}
NamedDeclKinds ==
  {"FunctionDecl", "NamedArgumentDecl", "MetaDecl", "GlobalConstantDecl",
   "DeclStmt"}
ConstantKinds == {"IntegerLiteralExpr", "BooleanLiteralExpr"}
IntermediateKinds ==
  {"MetaUnit", "MetaDecl", "MetaContribution", "MetaIfStmt",
   "MetaCalculationStmt"}

\* AnonymousArgumentDeclASTNode::classof also accepts a named argument.
IsA(k, cls) ==
  CASE cls = "AnonymousArgumentDecl" -> k \in {cls, "NamedArgumentDecl"}
    [] cls = "Stmt" -> k \in StmtKinds
    [] cls = "Expr" -> k \in ExprKinds
    [] cls = "TopLevel" -> k \in TopLevelKinds
    [] cls = "Constant" -> k \in ConstantKinds
    [] cls = "Any" -> TRUE
    [] OTHER -> k = cls

Node(k, n, c) == [k |-> k, n |-> n, c |-> c]
Leaf(k, n) == Node(k, n, <<>>)
=============================================================================
