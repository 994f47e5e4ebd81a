-------------------------------- MODULE Sema --------------------------------
(***************************************************************************)
(* SemaAnalysis.cpp: the checks run over a read unit (the compilation unit *)
(* or a meta unit) before code generation.  The visitor walks every node,  *)
(* meta declarations and their templates included (ASTVisitor), keeping   *)
(* the path of nodes it is in (depth_) so that a check can look at the     *)
(* parent (behind(1)).                                                     *)
(*                                                                         *)
(* Sema(R, units, t) is the set of events of checking t: diagnostics       *)
(* [what, at] and the event NullDeref when a Nullable or a null pointer    *)
(* is dereferenced.  Declarations are looked up in the read units.         *)
(***************************************************************************)
EXTENDS ASTLayout

NullDeref == [what |-> "NullDeref", at |-> 0]

\* The subtree of the read units whose identity is p.
RECURSIVE FindIn(_, _)
FindIn(t, p) ==
  IF t.p = p THEN {t} ELSE UNION {FindIn(t.c[i], p) : i \in 1..Len(t.c)}
Sub(units, p) == CHOOSE s \in UNION {FindIn(units[i], p) : i \in DOMAIN units} : TRUE

\* isIdentifierReserved: the name of the one builtin type.
Reserved == <<"i", "n", "t">>

Diag(what, at) == {[what |-> what, at |-> at]}

(***************************************************************************)
(* visit(CallOperatorExpr): a resolved callee naming a function is checked *)
(* for a result used from a void function and for the argument count;     *)
(* any other resolved callee cannot be called (the exemption for meta     *)
(* declarations tests the callee expression, which is never one).        *)
(***************************************************************************)
CallChecks(R, units, t, parentKind) ==
  LET callee == t.c[1]
  IN  IF callee.k # "DeclRefExpr" \/ callee.p \notin DOMAIN R.res THEN {}
      ELSE LET d == R.res[callee.p] IN
           IF KindOf(R, d) = "FunctionDecl"
           THEN LET f == Sub(units, d) IN
                (IF Len(f.c) = 2 /\ parentKind # "ExpressionStmt"
                 THEN Diag("ErrorFunctionCallReturnsVoid", t.p) ELSE {})
                \cup (IF Len(t.c) - 1 # Len(f.c[1].c)
                      THEN Diag("ErrorFunctionCallArgCountMismatch", t.p)
                      ELSE {})
           ELSE Diag("ErrorCanOnlyCallFunctions", t.p)

(***************************************************************************)
(* visit(MetaInstantiationExpr): arguments must be integer literals; the  *)
(* declaration is read through node->getDecl()->getDecl(), a Nullable     *)
(* that is null for an unresolved reference; a non-meta declaration is    *)
(* diagnosed and then metaDecl->getName() is called on the null metaDecl; *)
(* else the argument count is compared.                                   *)
(***************************************************************************)
InstantiationChecks(R, units, t) ==
  LET ref == t.c[1]
      args == Tail(t.c)
  IN  (IF \E i \in DOMAIN args : args[i].k # "IntegerLiteralExpr"
       THEN Diag("ErrorIntegralForMetaDecl", t.p) ELSE {})
      \cup (IF ref.p \notin DOMAIN R.res THEN {NullDeref}
            ELSE IF KindOf(R, R.res[ref.p]) # "MetaDecl"
            THEN Diag("ErrorInstantiatedNonMetaDecl", t.p) \cup {NullDeref}
            ELSE IF Len(Sub(units, R.res[ref.p]).c[1].c) # Len(args)
            THEN Diag("ErrorInstantiationArgCountMismatch", t.p)
            ELSE {})

\* visit(FunctionDecl) and visit(MetaDecl): the name may not be reserved.
NameChecks(t) ==
  IF t.k \in {"FunctionDecl", "MetaDecl"} /\ t.n = Reserved
  THEN Diag(IF t.k = "FunctionDecl" THEN "ErrorFunctionNameReserved"
                                    ELSE "ErrorMetaNameReserved", t.p)
  ELSE {}

\* SemaAnalysis::checkAST: every node, parent before children.
RECURSIVE Sema(_, _, _, _)
Sema(R, units, t, parentKind) ==
  NameChecks(t)
    \cup (IF t.k = "CallOperatorExpr" THEN CallChecks(R, units, t, parentKind)
          ELSE {})
    \cup (IF t.k = "MetaInstantiationExpr" THEN InstantiationChecks(R, units, t)
          ELSE {})
    \cup UNION {Sema(R, units, t.c[i], t.k) : i \in 1..Len(t.c)}
=============================================================================
