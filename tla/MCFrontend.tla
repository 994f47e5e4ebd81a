----------------------------- MODULE MCFrontend -----------------------------
(***************************************************************************)
(* Programs for the front end: one meta declaration k<int n> with one of  *)
(* several contributions, and a function m using it in one of several     *)
(* ways.  Names are short character sequences so that edit distances are  *)
(* meaningful.                                                             *)
(***************************************************************************)
EXTENDS Frontend

K == <<"k">>       N == <<"n">>       X == <<"x">>
M == <<"m">>       Y == <<"y">>       KY == <<"k", "y">>
KYZ == <<"k", "y", "z">>

Ref(n) == Leaf("DeclRefExpr", n)
Lit == Leaf("IntegerLiteralExpr", NoName)
Args(as) == Node("ArgumentDeclList", NoName, as)
Ret(e) == Node("ReturnStmt", NoName, <<e>>)
Block(ss) == Node("CompoundStmt", NoName, ss)
Fn(n, as, body) ==
  Node("FunctionDecl", n, <<Args(as), Leaf("AnonymousArgumentDecl", NoName), body>>)
Inst(n, args) == Node("MetaInstantiationExpr", NoName, <<Ref(n)>> \o args)
Call(f, args) == Node("CallOperatorExpr", NoName, <<f>> \o args)
Decl(n, e) == Node("DeclStmt", n, <<e>>)
Calc(s) == Node("MetaCalculationStmt", NoName, <<s>>)
Contrib(cs) == Node("MetaContribution", NoName, cs)
Plus(a, b) == Node("BinaryOperatorExpr", NoName, <<a, b>>)

\* int k(int x) { return x + n; }
AddFn == Fn(K, <<Leaf("NamedArgumentDecl", X)>>, Block(<<Ret(Plus(Ref(X), Ref(N)))>>))
\* meta { int k = n + n; }: a GlobalConstantDecl k would be exported, but
\* the local k collides with the meta k while the unit is parsed
ConstCalc ==
  Calc(Node("UnscopedCompoundStmt", NoName, <<Decl(K, Plus(Ref(N), Ref(N)))>>))
\* meta { int y = n + n; }: exported as a GlobalConstantDecl y
YCalc ==
  Calc(Node("UnscopedCompoundStmt", NoName, <<Decl(Y, Plus(Ref(N), Ref(N)))>>))
\* int k() { return n; }
NFn == Fn(K, <<>>, Block(<<Ret(Ref(N))>>))
\* int k() { meta { int y = n + n; } return y; }: an in-place DeclStmt y
LocalCalc ==
  Fn(K, <<>>, Block(<<Calc(Decl(Y, Plus(Ref(N), Ref(N)))), Ret(Ref(Y))>>))

Contributions ==
  { <<AddFn>>,                                               \* S2
    <<ConstCalc>>,                                           \* S1
    <<YCalc, Fn(K, <<>>, Block(<<Ret(Ref(Y))>>))>>,          \* exported y
    <<Node("MetaIfStmt", NoName,
           <<Ref(N), Contrib(<<AddFn>>), Contrib(<<NFn>>)>>)>>,  \* S3
    <<LocalCalc>>,                                           \* S4
    <<Fn(X, <<>>, Block(<<Ret(Lit)>>))>>,                    \* no export
    <<AddFn, ConstCalc>>,                                    \* k twice
    <<Fn(K, <<>>, Block(<<Ret(Call(Ref(M), <<Lit>>))>>))>>,   \* calls m
    <<Calc(Block(<<Decl(K, Ref(N))>>))>> }                   \* k kept local

\* The body of m(int ky).
Uses ==
  { <<Ret(Call(Inst(K, <<Lit>>), <<Lit>>))>>,
    <<Ret(Inst(K, <<Lit>>))>>,
    <<Ret(Plus(Inst(K, <<Lit>>), Inst(K, <<Lit>>)))>>,
    <<Ret(Call(Ref(KYZ), <<>>))>>,                           \* S6
    <<Ret(Inst(K, <<Ref(KY)>>))>>,
    <<Decl(X, Inst(K, <<Lit>>)), Ret(Ref(X))>> }

MetaK(c) == Node("MetaDecl", K, <<Args(<<Leaf("NamedArgumentDecl", N)>>), Contrib(c)>>)

MCPrograms ==
  { Node("CompilationUnit", NoName,
         <<MetaK(c), Fn(M, <<Leaf("NamedArgumentDecl", KY)>>, Block(u))>>) :
      c \in Contributions, u \in Uses }

\* meta k<int n> { int k() { return k<1>(); } }: an instantiation inside a
\* template, whose reference the reader leaves unresolved.
TemplateInstPrograms ==
  { Node("CompilationUnit", NoName,
         <<MetaK(<<Fn(K, <<>>, Block(<<Ret(Inst(K, <<Lit>>))>>))>>),
           Fn(M, <<>>, Block(<<Ret(Lit)>>))>>) }

\* int m() { return m<1>(); }: an instantiation of a function.
NonMetaPrograms ==
  { Node("CompilationUnit", NoName,
         <<Fn(M, <<>>, Block(<<Ret(Inst(M, <<Lit>>))>>))>>) }


\* S1: meta k<int n> { int k = n; } int m() { return k<7>(); }
ConstantExportPrograms ==
  { Node("CompilationUnit", NoName,
         <<MetaK(<<Decl(K, Ref(N))>>), Fn(M, <<>>, Block(<<Ret(Inst(K, <<Lit>>))>>))>>) }

\* The programs whose front end crashes: Sema dereferences a null
\* declaration (the first two), or the reader hits llvm_unreachable (S1).
CrashPrograms ==
  TemplateInstPrograms \cup NonMetaPrograms \cup ConstantExportPrograms

\* int m() { int y = x; int x = 1; return y; }
ForwardLocalPrograms ==
  { Node("CompilationUnit", NoName,
         <<Fn(M, <<>>, Block(<<Decl(Y, Ref(X)), Decl(X, Lit), Ret(Ref(Y))>>))>>) }
=============================================================================
