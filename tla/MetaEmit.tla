------------------------------ MODULE MetaEmit ------------------------------
(***************************************************************************)
(* The layout an instantiation writes (MetaCodegen.cpp, NodeContributor in *)
(* CodeExecutor.cpp, ASTCursor.cpp).  The emitter function that           *)
(* MetaCodegen compiles from a meta declaration calls back into the       *)
(* NodeContributor, which clones each contributed node into the layout    *)
(* writer, writes a reduce marker, or writes a constant declaration for   *)
(* an introduced value.  The JIT-run emitter is modelled by the sequence  *)
(* of callbacks it makes: a meta if takes the branch its (abstracted)     *)
(* condition selects, given as choice[p] for the MetaIfStmt p.            *)
(***************************************************************************)
EXTENDS ASTLayout

\* The element a failed llvm_unreachable leaves: no layout is produced.
Trap == [k |-> "unreachable", n |-> NoName, x |-> NoName]

(***************************************************************************)
(* NodeContributor::introduce, reached through introduceNodeCallback with *)
(* the cursor depth the emitter was compiled at: a DeclStmt inside a      *)
(* function, a GlobalConstantDecl at the top level, either followed by    *)
(* the IntegerLiteral of the value.                                       *)
(***************************************************************************)
Introduced(name, depth) ==
  << [k |-> IF depth = "InsideFunctionDecl" THEN "DeclStmt"
                                            ELSE "GlobalConstantDecl",
      n |-> name, x |-> NoName],
     [k |-> "IntegerLiteralExpr", n |-> NoName, x |-> NoName] >>

\* ASTCursor::descend: a FunctionDecl moves TopLevel -> InsideFunctionDecl.
Descend(depth, k) == IF k = "FunctionDecl" THEN "InsideFunctionDecl" ELSE depth

(***************************************************************************)
(* MetaCodegen::codegenMeta on node t at cursor depth: a contribution     *)
(* emits its children; a meta if the chosen branch; a meta calculation    *)
(* introduces every declaration its reading exported (exp, filled by the  *)
(* in-place scope's listener); a nested meta declaration is unreachable;  *)
(* any other node is contributed (createContributeNode), followed by its  *)
(* children and, when its children are variadic, a reduce marker.         *)
(***************************************************************************)
RECURSIVE Emit(_, _, _, _)
Emit(R, t, depth, choice) ==
  LET kids(d) == FlattenSeq([i \in 1..Len(t.c) |-> Emit(R, t.c[i], d, choice)])
  IN  CASE t.k = "MetaContribution" -> kids(depth)
        [] t.k = "MetaIfStmt" ->
             IF choice[t.p] THEN Emit(R, t.c[2], depth, choice)
             ELSE IF Len(t.c) = 3 THEN Emit(R, t.c[3], depth, choice)
             ELSE <<>>
        [] t.k = "MetaCalculationStmt" ->
             FlattenSeq([i \in 1..Len(R.exp[t.p]) |->
                           Introduced(NameOf(R, R.exp[t.p][i]), depth)])
        [] t.k = "MetaDecl" -> <<Trap>>
        [] OTHER ->
             <<Elem(t)>> \o kids(Descend(depth, t.k))
                         \o (IF RequiresReduceMarker(t.k) THEN <<Reduce>>
                                                          ELSE <<>>)

(***************************************************************************)
(* CodeExecutor::instantiate's layout for the meta declaration m: the     *)
(* MetaUnit written with scopedWrite, then what MetaCodegen::codegen      *)
(* makes the emitter call - an introduction of each named argument at the *)
(* top level, the contribution - then the MetaUnit's reduce marker.       *)
(***************************************************************************)
InstantiationLayout(R, m, choice) ==
  LET args == SelectSeq(m.c[1].c, LAMBDA a : a.k = "NamedArgumentDecl")
  IN  << [k |-> "MetaUnit", n |-> m.n, x |-> m.p] >>
      \o FlattenSeq([i \in 1..Len(args) |-> Introduced(args[i].n, "TopLevel")])
      \o Emit(R, m.c[2], "TopLevel", choice)
      \o <<Reduce>>

\* The meta if statements of a tree, whose conditions the emitter evaluates.
RECURSIVE MetaIfsOf(_)
MetaIfsOf(t) ==
  (IF t.k = "MetaIfStmt" THEN {t.p} ELSE {})
    \cup UNION {MetaIfsOf(t.c[i]) : i \in 1..Len(t.c)}
=============================================================================
