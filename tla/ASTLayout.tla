------------------------------ MODULE ASTLayout ------------------------------
(***************************************************************************)
(* The AST layout (ASTLayout.cpp): the writer that flattens a tree into a  *)
(* sequence of nodes and reduce markers, and the reader that rebuilds the  *)
(* tree from it while it opens scopes, introduces declarations and        *)
(* resolves references through the scope builder (BasicASTBuilder.cpp).   *)
(*                                                                         *)
(* A layout element is a record [k, n, x]: the node's kind and name, and   *)
(* for a MetaUnit the identity of the meta declaration it instantiates.    *)
(* Nodes are identified by base + position: the reader of a layout that   *)
(* starts at base gives its i-th element the identity base + i.            *)
(*                                                                         *)
(* The reader is a function from a reader state R to the state after the   *)
(* consume call: R.out is the node (a record [k, n, p, c], p its identity) *)
(* or the node sequence the call returns.  Failed assertions are recorded  *)
(* in R.fails (a release build carries on past them); an out-of-range peek,*)
(* a failed llvm::cast, a reduce marker dereferenced as a node and         *)
(* llvm_unreachable set R.crash, after which nothing more happens.         *)
(***************************************************************************)
EXTENDS AST, ASTScope, SequencesExt

\* The nullptr that ASTLayoutWriter::markReduce appends.
Reduce == [k |-> "reduce", n |-> NoName, x |-> NoName]

Elem(t) == [k |-> t.k, n |-> t.n, x |-> NoName]

\* F applied to v: the steps of a consume method are chained through it,
\* each step naming the reader state it starts from.
With(v, F(_)) == F(v)

(***************************************************************************)
(* LocalScopeVisitor::contributeFromImpl, and the writer the meta code     *)
(* emits through: the node, its children, then a reduce marker when the   *)
(* node's children are not of a statically known number.                  *)
(***************************************************************************)
RECURSIVE Write(_)

\* Mutation: a marker after every node that has children.
WriteAllMarkers(t) ==
  <<Elem(t)>> \o FlattenSeq([i \in 1..Len(t.c) |-> Write(t.c[i])])
              \o (IF t.c # <<>> THEN <<Reduce>> ELSE <<>>)

Write(t) ==
  <<Elem(t)>> \o FlattenSeq([i \in 1..Len(t.c) |-> Write(t.c[i])])
              \o (IF RequiresReduceMarker(t.k) THEN <<Reduce>> ELSE <<>>)

---------------------------------------------------------------------------
(* Reader primitives *)

Fail(R, what) == [R EXCEPT !.fails = @ \cup {what}]
Check(R, what, cond) == IF cond THEN R ELSE Fail(R, what)
Crash(R) == [R EXCEPT !.crash = TRUE]
Done(R, node) == IF R.crash THEN R ELSE [R EXCEPT !.out = node]

AtEnd(R) == R.pos > Len(R.lay)
Peek(R) == R.lay[R.pos]
Here(R) == R.base + R.pos

\* ASTLayoutReader::shouldReduce; peek() past the end is undefined.
ShouldReduce(R) == Peek(R) = Reduce

\* shiftAs / scopedShiftAs: shift() and llvm::cast of the node shifted.
ShiftAs(R, cls) ==
  IF R.crash THEN R
  ELSE IF AtEnd(R) \/ ShouldReduce(R) \/ ~IsA(Peek(R).k, cls) THEN Crash(R)
  ELSE [R EXCEPT !.pos = @ + 1,
                 !.out = [k |-> Peek(R).k, n |-> Peek(R).n, p |-> Here(R),
                          c |-> <<>>]]

\* ASTLayoutReader::reduce, run when a ScopedShift is released: it asserts
\* the marker and shifts whatever is there.
ReduceMark(R) ==
  IF R.crash THEN R
  ELSE IF AtEnd(R) THEN Crash(R)
  ELSE [Check(R, "reduce", ShouldReduce(R)) EXCEPT !.pos = @ + 1]


---------------------------------------------------------------------------
(* The scope builder: BasicASTBuilder's scope stack and ScopedMode *)

\* The ScopedMode stack; an empty stack is Outside.
Mode(R) == IF R.modes = <<>> THEN "Outside" ELSE Last(R.modes)

\* enterTemporaryScope: a scope whose parent is the current one.
EnterTemporary(R) ==
  IF R.crash THEN R
  ELSE [Check(R, "inScope", R.cur # NoScope) EXCEPT
          !.sc = NewScope(@, FALSE, R.cur), !.cur = Len(R.sc) + 1]

\* Mutation: the consistent scope is created without its parent.
EnterConsistentOrphan(R, parent) ==
  IF R.crash THEN R
  ELSE [Check(R, "consistent", R.cur = NoScope \/ R.sc[R.cur].consistent)
          EXCEPT !.sc = NewScope(@, TRUE, NoScope), !.cur = Len(R.sc) + 1]

\* enterConsistentScope(parent): not on top of a temporary scope.
EnterConsistent(R, parent) ==
  IF R.crash THEN R
  ELSE [Check(R, "consistent", R.cur = NoScope \/ R.sc[R.cur].consistent)
          EXCEPT !.sc = NewScope(@, TRUE, parent), !.cur = Len(R.sc) + 1]

\* enterInplaceScope(listener); the meta calculation's exported list
\* starts empty.
EnterInplace(R, listener) ==
  IF R.crash THEN R
  ELSE [R EXCEPT !.sc = NewInplace(@, R.cur, listener),
                 !.cur = Len(R.sc) + 1,
                 !.exp = (listener :> <<>>) @@ @]

\* The recover action of a scope reference: back to the scope before.
LeaveTo(R, prev) == IF R.crash THEN R ELSE [R EXCEPT !.cur = prev]

\* enterMetaDeclMode / enterMetaComputationMode assert the mode they leave.
EnterMode(R, from, to) ==
  IF R.crash THEN R
  ELSE [Check(R, "mode", Mode(R) = from) EXCEPT !.modes = Append(@, to)]
LeaveMode(R) == IF R.crash THEN R ELSE [R EXCEPT !.modes = Front(@)]

\* isAllowedToIntroduceDecls and isAllowedToResolveDecls: not inside the
\* template part of a meta declaration.
MayIntroduce(R) == Mode(R) # "InsideMetaDecl"

NameOf(R, d) == R.nodes[d].n
KindOf(R, d) == R.nodes[d].k

\* Mutation: any declaration may shadow a meta declaration.
IsShadowingDeclFromExportedNodeAny(R, d, previous) ==
  KindOf(R, previous) = "MetaDecl"

\* isShadowingDeclFromExportedNode: the node exported by a meta unit may
\* shadow the meta declaration it was instantiated from.
IsShadowingDeclFromExportedNode(R, d, previous) ==
  /\ KindOf(R, previous) = "MetaDecl"
  /\ KindOf(R, d) \in TopLevelKinds
  /\ d \in DOMAIN R.unit
  /\ KindOf(R, R.unit[d]) = "MetaUnit"
  /\ R.nodes[R.unit[d]].x = previous
  /\ R.unit[d] \in DOMAIN R.exported
  /\ R.exported[R.unit[d]] = d

\* BasicASTBuilder::introduce: a name visible in the current scope or any
\* scope above it is an error unless the shadow rule allows it; otherwise
\* the declaration is inserted and the in-place listeners are told.
Introduce(R, d) ==
  IF R.crash \/ ~MayIntroduce(R) THEN R
  ELSE With(LookupIdentifier(R.sc, R.cur, NameOf(R, d)), LAMBDA previous :
         IF previous # NoDecl /\ ~IsShadowingDeclFromExportedNode(R, d, previous)
         THEN [Check(R, "introducedTwice", previous # d) EXCEPT
                 !.diags = @ \cup {[what |-> "ErrorNameTypeDeclaredAlready",
                                    at |-> d]}]
         ELSE With(Range(Listeners(R.sc, R.cur)), LAMBDA ls :
                [Check(R, "insert", ~InsertCollides(R.sc, R.cur, NameOf(R, d)))
                   EXCEPT !.sc = Insert(@, R.cur, NameOf(R, d), d),
                          !.exp = [m \in DOMAIN @ |->
                                     IF m \in ls THEN Append(@[m], d) ELSE @[m]]]))

\* consumeDeclRefExpr's lookup: an unknown name is diagnosed together with
\* the most similar visible declaration (NoteDidYouMean).
Resolve(R, r) ==
  IF R.crash \/ ~MayIntroduce(R) THEN R
  ELSE With(LookupIdentifier(R.sc, R.cur, NameOf(R, r)), LAMBDA d :
         IF d # NoDecl THEN [R EXCEPT !.res = (r :> d) @@ @]
         ELSE [R EXCEPT !.diags = @ \cup {[what |-> "ErrorDeclarationUnknown",
                                           at |-> r]},
                        !.similar = (r :> SimilarTo(R.sc, R.cur, NameOf(R, r))) @@ @])
---------------------------------------------------------------------------
(* introduceScope: the declarations of a unit are introduced before any   *)
(* of its children is consumed, so that they may refer to each other.     *)

\* crawlExpand: the position after the reduce marker that closes the node
\* before i; past the end the peek is undefined (Len + 2 stands for it).
RECURSIVE Expand(_, _)
Expand(lay, i) ==
  IF i > Len(lay) THEN Len(lay) + 2
  ELSE IF lay[i] = Reduce THEN i + 1
  ELSE IF RequiresReduceMarker(lay[i].k) THEN Expand(lay, Expand(lay, i + 1))
  ELSE Expand(lay, i + 1)

\* Mutation: the declaration is introduced before it is made the exported
\* node.
IntroduceChildLate(R, d, u) ==
  With(IF KindOf(R, d) \in TopLevelKinds
       THEN [R EXCEPT !.unit = (d :> u) @@ @] ELSE R, LAMBDA R1 :
  With(IF KindOf(R, d) \in NamedDeclKinds THEN Introduce(R1, d) ELSE R1, LAMBDA R2 :
    IF KindOf(R, u) = "MetaUnit" /\ NameOf(R, d) = NameOf(R, u)
         /\ KindOf(R, d) \in NamedDeclKinds
    THEN [R2 EXCEPT !.exported = (u :> d) @@ @] ELSE R2))

\* The consumer introduceScope passes to crawlCurrentScope, for the node d
\* directly below the unit u: its containing unit is set, then a named
\* declaration that bears the instantiated meta's name becomes the meta
\* unit's exported node (the last one wins), then it is introduced.
IntroduceChild(R, d, u) ==
  With(IF KindOf(R, d) \in TopLevelKinds
       THEN [R EXCEPT !.unit = (d :> u) @@ @] ELSE R, LAMBDA R1 :
  With(IF KindOf(R, u) = "MetaUnit" /\ NameOf(R, d) = NameOf(R, u)
       THEN [R1 EXCEPT !.exported = (u :> d) @@ @] ELSE R1, LAMBDA R2 :
    IF KindOf(R, d) \in NamedDeclKinds THEN Introduce(R2, d) ELSE R1))

\* crawlCurrentScope from position i; the reader's position is restored
\* afterwards (SaveAndRestore), so pos is left alone.
RECURSIVE Crawl(_, _, _)
Crawl(R, i, u) ==
  IF R.crash THEN R
  ELSE IF i > Len(R.lay) THEN Crash(R)
  ELSE IF R.lay[i] = Reduce THEN R
  ELSE Crawl(IntroduceChild(R, R.base + i, u),
             IF RequiresReduceMarker(R.lay[i].k) THEN Expand(R.lay, i + 1)
                                                 ELSE i + 1,
             u)

---------------------------------------------------------------------------
(* The consume methods.  Consume(R, cls) is consumeStmt, consumeExpr,     *)
(* consumeTopLevelDecl, consumeConstantExpr or consume(): it checks the   *)
(* next node against the class and dispatches on its kind.                *)

RECURSIVE Consume(_, _), ConsumeList(_, _, _), ConsumeOpt(_, _),
          ConsumeWithChildren(_, _, _), Fixed(_, _), Variadic(_, _, _, _),
          ConsumeFunctionDecl(_), ConsumeMetaDecl(_), ConsumeReturnStmt(_),
          ConsumeIfStmt(_), ConsumeMetaIfStmt(_),
          ConsumeMetaCalculationStmt(_), ConsumeDeclRefExpr(_)

\* while (!shouldReduce()) node->add(consume...()): the nodes in R.out.
ConsumeList(R, cls, acc) ==
  IF R.crash THEN R
  ELSE IF AtEnd(R) THEN Crash(R)
  ELSE IF ShouldReduce(R) THEN [R EXCEPT !.out = acc]
  ELSE With(Consume(R, cls), LAMBDA R1 : ConsumeList(R1, cls, Append(acc, R1.out)))

\* if (!shouldReduce()) node->set...(consume...()): zero or one node.
ConsumeOpt(R, cls) ==
  IF R.crash THEN R
  ELSE IF AtEnd(R) THEN Crash(R)
  ELSE IF ShouldReduce(R) THEN [R EXCEPT !.out = <<>>]
  ELSE With(Consume(R, cls), LAMBDA R1 : Done(R1, <<R1.out>>))

\* A node of a fixed number of children: shiftAs, then each child of the
\* classes cls in turn; a named declaration is introduced after them
\* (consumeGlobalConstantDecl, consumeExpressionStmt, consumeDeclStmt,
\* consumeNamedArgumentDecl, consumeBinaryOperatorExpr and the leaves).
ConsumeWithChildren(R, node, cls) ==
  IF cls = <<>> \/ R.crash THEN Done(R, node)
  ELSE With(Consume(R, Head(cls)), LAMBDA R1 :
         ConsumeWithChildren(R1, [node EXCEPT !.c = Append(@, R1.out)], Tail(cls)))

Fixed(R, cls) ==
  With(ShiftAs(R, Peek(R).k), LAMBDA R1 :
  With(ConsumeWithChildren(R1, R1.out, cls), LAMBDA R2 :
    IF R1.out.k \in {"DeclStmt", "NamedArgumentDecl"}
    THEN Done(Introduce(R2, R1.out.p), R2.out) ELSE R2))

\* A node whose children end at a reduce marker: scopedShiftAs, a temporary
\* scope when temp, the children of the classes first, the rest of class
\* cls until the marker; the scope is left before the marker is reduced
\* (consumeArgumentDeclList, consumeMetaContribution, the compound
\* statements, consumeCallOperatorExpr, consumeMetaInstantiationExpr).
Variadic(R, temp, first, cls) ==
  With(ShiftAs(R, Peek(R).k), LAMBDA R1 :
  With(ConsumeWithChildren(IF temp THEN EnterTemporary(R1) ELSE R1, R1.out, first),
       LAMBDA R3 :
  With(ConsumeList(R3, cls, <<>>), LAMBDA R4 :
    Done(ReduceMark(LeaveTo(R4, R1.cur)), [R3.out EXCEPT !.c = @ \o R4.out]))))

\* consumeFunctionDecl: arguments, a return type when an argument
\* declaration follows, the body, in a temporary scope.
ConsumeFunctionDecl(R) ==
  With(ShiftAs(R, "FunctionDecl"), LAMBDA R1 :
  With(Consume(EnterTemporary(R1), "ArgumentDeclList"), LAMBDA R2 :
  With(~R2.crash /\ ~AtEnd(R2) /\ ~ShouldReduce(R2), LAMBDA peekable :
  With(peekable /\ IsA(Peek(R2).k, "AnonymousArgumentDecl"), LAMBDA hasRet :
  With(CASE hasRet -> Consume(R2, "AnonymousArgumentDecl")
         [] peekable \/ R2.crash -> R2
         [] OTHER -> Crash(R2),   \* is<>() on the end or a marker
       LAMBDA R3 :
  With(Consume(R3, "Stmt"), LAMBDA R4 :
    Done(ReduceMark(LeaveTo(R4, R1.cur)),
         [R1.out EXCEPT !.c = <<R2.out>> \o (IF hasRet THEN <<R3.out>> ELSE <<>>)
                                \o <<R4.out>>])))))))

\* consumeMetaDecl: the arguments in a temporary scope, then the
\* contribution in InsideMetaDecl mode, where nothing is introduced or
\* resolved.
ConsumeMetaDecl(R) ==
  With(ShiftAs(R, "MetaDecl"), LAMBDA R1 :
  With(Consume(EnterTemporary(R1), "ArgumentDeclList"), LAMBDA R2 :
  With(Consume(EnterMode(R2, "Outside", "InsideMetaDecl"), "MetaContribution"),
       LAMBDA R3 :
    Done(LeaveTo(LeaveMode(R3), R1.cur), [R1.out EXCEPT !.c = <<R2.out, R3.out>>]))))

ConsumeReturnStmt(R) ==
  With(ShiftAs(R, "ReturnStmt"), LAMBDA R1 :
  With(ConsumeOpt(R1, "Expr"), LAMBDA R2 :
    Done(ReduceMark(R2), [R1.out EXCEPT !.c = R2.out])))

ConsumeIfStmt(R) ==
  With(ShiftAs(R, "IfStmt"), LAMBDA R1 :
  With(ConsumeWithChildren(R1, R1.out, <<"Expr", "Stmt">>), LAMBDA R2 :
  With(ConsumeOpt(R2, "Stmt"), LAMBDA R3 :
    Done(ReduceMark(R3), [R2.out EXCEPT !.c = @ \o R3.out]))))

\* consumeMetaIfStmt: only the condition is read in computation mode.
ConsumeMetaIfStmt(R) ==
  With(ShiftAs(R, "MetaIfStmt"), LAMBDA R1 :
  With(Consume(EnterMode(R1, "InsideMetaDecl", "InsideComputation"), "Expr"),
       LAMBDA R2 :
  With(Consume(LeaveMode(R2), "MetaContribution"), LAMBDA R3 :
  With(ConsumeOpt(R3, "MetaContribution"), LAMBDA R4 :
    Done(ReduceMark(R4), [R1.out EXCEPT !.c = <<R2.out, R3.out>> \o R4.out])))))

\* consumeMetaCalculationStmt: the statement is read in computation mode
\* through an in-place scope whose listener records every declaration
\* inserted through it as exported by this node.
ConsumeMetaCalculationStmt(R) ==
  With(ShiftAs(R, "MetaCalculationStmt"), LAMBDA R1 :
  With(Consume(EnterMode(EnterInplace(R1, R1.out.p),
                         "InsideMetaDecl", "InsideComputation"), "Stmt"),
       LAMBDA R3 :
    Done(LeaveTo(LeaveMode(R3), R1.cur), [R1.out EXCEPT !.c = <<R3.out>>])))

ConsumeDeclRefExpr(R) ==
  With(ShiftAs(R, "DeclRefExpr"), LAMBDA R1 : Done(Resolve(R1, R1.out.p), R1.out))

\* The dispatch of consume(), consumeStmt(), consumeExpr(),
\* consumeTopLevelDecl() and consumeConstantExpr(): a node of another class
\* fails the cast or reaches llvm_unreachable, and so does ErroneousExpr.
Consume(R, cls) ==
  IF R.crash THEN R
  ELSE IF AtEnd(R) \/ ShouldReduce(R) \/ ~IsA(Peek(R).k, cls) THEN Crash(R)
  ELSE LET k == Peek(R).k IN
  CASE k = "FunctionDecl" -> ConsumeFunctionDecl(R)
    [] k = "MetaDecl" -> ConsumeMetaDecl(R)
    [] k = "ReturnStmt" -> ConsumeReturnStmt(R)
    [] k = "IfStmt" -> ConsumeIfStmt(R)
    [] k = "MetaIfStmt" -> ConsumeMetaIfStmt(R)
    [] k = "MetaCalculationStmt" -> ConsumeMetaCalculationStmt(R)
    [] k = "DeclRefExpr" -> ConsumeDeclRefExpr(R)
    [] k = "ArgumentDeclList" -> Variadic(R, FALSE, <<>>, "AnonymousArgumentDecl")
    [] k = "MetaContribution" -> Variadic(R, FALSE, <<>>, "Any")
    [] k = "UnscopedCompoundStmt" -> Variadic(R, FALSE, <<>>, "Stmt")
    [] k = "CompoundStmt" -> Variadic(R, TRUE, <<>>, "Stmt")
    [] k = "CallOperatorExpr" -> Variadic(R, FALSE, <<"Expr">>, "Expr")
    [] k = "MetaInstantiationExpr" ->
          Variadic(R, FALSE, <<"DeclRefExpr">>, "Expr")
    [] k = "GlobalConstantDecl" -> Fixed(R, <<"Constant">>)
    [] k \in {"ExpressionStmt", "DeclStmt"} -> Fixed(R, <<"Expr">>)
    [] k = "BinaryOperatorExpr" -> Fixed(R, <<"Expr", "Expr">>)
    [] k \in {"AnonymousArgumentDecl", "NamedArgumentDecl",
              "IntegerLiteralExpr", "BooleanLiteralExpr"} -> Fixed(R, <<>>)
    [] OTHER -> Crash(R)   \* ErroneousExpr; a unit is never nested

---------------------------------------------------------------------------
(* The two entry points *)

\* A reader of the layout lay whose nodes get the identities base + i.
NewReader(R, lay, base) ==
  [R EXCEPT !.lay = lay, !.pos = 1, !.base = base, !.cur = NoScope,
            !.modes = <<>>,
            !.nodes = [i \in {base + j : j \in 1..Len(lay)} |-> lay[i - base]]
                      @@ @]

\* consumeCompilationUnit and consumeMetaUnit: a consistent scope, whose
\* parent is the scope of the unit declaring the instantiated meta, the
\* introduction of the unit's declarations, then its top-level children.
\* The builder asserts balanced scopes when the reader is destroyed.
ConsumeUnit(R, cls) ==
  With(ShiftAs(R, cls), LAMBDA R1 :
  With(R1.unit[R1.nodes[R1.out.p].x], LAMBDA cu :
  With(IF cls = "MetaUnit" THEN [R1 EXCEPT !.unit = (R1.out.p :> cu) @@ @]
       ELSE R1, LAMBDA R2 :
  With(EnterConsistent(R2, IF cls = "MetaUnit" THEN R2.unitScope[cu]
                                               ELSE NoScope), LAMBDA R3 :
  With(Crawl([R3 EXCEPT !.unitScope = (R1.out.p :> R3.cur) @@ @], R3.pos, R1.out.p),
       LAMBDA R4 :
  With(ConsumeList(R4, "TopLevel", <<>>), LAMBDA R5 :
  With(ReduceMark(LeaveTo(R5, R.cur)), LAMBDA R6 :
    Done(Check(R6, "balanced", R6.cur = NoScope),
         [R1.out EXCEPT !.c = R5.out]))))))))
=============================================================================
