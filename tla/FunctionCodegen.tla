-------------------------- MODULE FunctionCodegen --------------------------
(***************************************************************************)
(* Lowering of one runtime FunctionDecl to native IR (FunctionCodegen.cpp) *)
(* followed by the verifying function pass manager that CodegenInstance    *)
(* runs on the result (CodegenInstance.cpp, VerifyInput = true).           *)
(*                                                                         *)
(* Statements are records with a kind k named after the AST node class:   *)
(*   [k |-> "ReturnStmt", v |-> a value of Vals, or "void" for `return;`] *)
(*   [k |-> "ExpressionStmt"]  [k |-> "DeclStmt"], with a field i (the set *)
(*    of MetaInstantiationExpr nodes in the expression) when it has some   *)
(*   [k |-> "CompoundStmt" or "UnscopedCompoundStmt", c |-> <<stmt...>>]   *)
(*   [k |-> "IfStmt", cond |-> a condition of Conds, t |-> stmt,           *)
(*    f |-> <<>> or <<stmt>>]                                              *)
(* The body of a meta declaration is a tree of                            *)
(*   [k |-> "MetaContribution", c |-> <<node...>>]                         *)
(*   [k |-> "MetaIfStmt", cond, t |-> contribution, f |-> <<>> or <<..>>]  *)
(*   [k |-> "MetaCalculationStmt", s |-> stmt, ex |-> <<exported decl>>]   *)
(*   [k |-> "Node", id, c |-> <<node...>>, reduce |-> BOOLEAN]: a node    *)
(*    contributed to the layout (reduce: its container is variadic), with *)
(*    a field i when its own runtime code holds instantiations.           *)
(* An expression is abstracted to the one non-terminator instruction that *)
(* stands for its code; only the control flow of the IR is kept: blocks,  *)
(* terminators, branch targets and returned values.  Blocks are numbered  *)
(* in creation order; their layout position (createBlockBefore) is not    *)
(* observable by any property and is not kept.                            *)
(***************************************************************************)
EXTENDS Naturals, Sequences

CONSTANTS
    Decls,      \* the declarations reaching codegen:
                \* [kind |-> "FunctionDecl", ret |-> BOOLEAN, args |-> Nat,
                \*  body |-> stmt], or
                \* [kind |-> "MetaDecl", ret |-> FALSE, args |-> Nat,
                \*  body |-> a MetaContribution]
    Conds,      \* the conditions of if statements (opaque runtime values)
    Vals        \* the values returned by `return e;`

VARIABLES
    fn,         \* the FunctionDeclASTNode being generated
    asserts,    \* whether the build keeps assert() (no NDEBUG)
    ir,         \* the llvm::Function under construction
    phase       \* "start", "generated", "done" or "crashed"

vars == <<fn, asserts, ir, phase>>

\* F applied to v: the steps of a codegen method are chained through it.
With(v, F(_)) == F(v)

\* The MetaInstantiationExpr nodes held by the node t itself.
InstsAt(t) == IF "i" \in DOMAIN t THEN t.i ELSE {}

(* ---------------- the dependency walker (DependencyAnalysis) ------------ *)
\* children() of the node classes: an if (and a meta if, BasicIfStmt) has
\* its expression, true and optional false branch; conditions hold no
\* instantiation here, so only the branches are kept.
\* Mutation: the optional false branch is left out of an if's children.
ChildrenNoElse(t) ==
    CASE t.k \in {"CompoundStmt", "UnscopedCompoundStmt", "MetaContribution",
                  "Node"} -> {t.c[j] : j \in DOMAIN t.c}
      [] t.k \in {"IfStmt", "MetaIfStmt"} -> {t.t}
      [] t.k = "MetaCalculationStmt" -> {t.s}
      [] OTHER -> {}

Children(t) ==
    CASE t.k \in {"CompoundStmt", "UnscopedCompoundStmt", "MetaContribution",
                  "Node"} -> {t.c[j] : j \in DOMAIN t.c}
      [] t.k \in {"IfStmt", "MetaIfStmt"} -> {t.t} \cup {t.f[j] : j \in DOMAIN t.f}
      [] t.k = "MetaCalculationStmt" -> {t.s}
      [] OTHER -> {}

RECURSIVE ConsumeAll(_), ConsumeMeta(_), ConsumeAllMeta(_)
\* InstConsumer::consumeAll: the node if it is an instantiation, then all
\* of its children.  The consumer (lookupGlobal, instantiate) succeeds for
\* every instantiation here, so the walk never stops early and its order
\* is not kept.
ConsumeAll(t) == InstsAt(t) \cup UNION {ConsumeAll(ch) : ch \in Children(t)}

\* InstConsumer::consumeMeta: of a meta if only the expression, all of a
\* meta calculation, and of any other node its children as meta code.
ConsumeMeta(t) ==
    CASE t.k = "MetaIfStmt" -> {}
      [] t.k = "MetaCalculationStmt" -> ConsumeAll(t)
      [] OTHER -> ConsumeAllMeta(t)

\* Mutation: contributed runtime code is walked like a function body.
ConsumeAllMetaEager(t) ==
    UNION {IF ch.k = "MetaIfStmt" THEN {} ELSE ConsumeAll(ch) : ch \in Children(t)}

\* InstConsumer::consumeAllMeta: consumeMeta of every child, never the
\* node itself.
ConsumeAllMeta(t) == UNION {ConsumeMeta(ch) : ch \in Children(t)}

\* consumeMetaInstantiationsOf(FunctionDecl) and (MetaDecl): the
\* instantiations CodegenInstance::codegen(FunctionDecl) and
\* CodeExecutor::codegen(MetaDecl) instantiate before any lowering.
Consumed(d) ==
    IF d.kind = "MetaDecl" THEN ConsumeMeta(d.body) ELSE ConsumeAll(d.body)

(* ---------------------------- instructions ---------------------------- *)
\* The layout reader's scopes around a meta calculation's statement
\* (consumeMetaCalculationStmt): declarations inserted into its in-place
\* scope are exported, in order.  A CompoundStmt reads its statements in
\* a temporary scope of its own; an UnscopedCompoundStmt and an IfStmt
\* open none.
RECURSIVE ExportedDecls(_), ExportedSeq(_)
ExportedDecls(s) ==
    CASE s.k = "DeclStmt" -> <<s.n>>
      [] s.k = "UnscopedCompoundStmt" -> ExportedSeq(s.c)
      [] s.k = "IfStmt" -> ExportedDecls(s.t) \o ExportedSeq(s.f)
      [] OTHER -> <<>>
ExportedSeq(cs) ==
    IF cs = <<>> THEN <<>> ELSE ExportedDecls(Head(cs)) \o ExportedSeq(Tail(cs))

Inst == [op |-> "inst"]
Br(b) == [op |-> "br", to |-> b]
CondBr(c, t, f) == [op |-> "condbr", cond |-> c, t |-> t, f |-> f]
RetOf(v) == IF v = "void" THEN [op |-> "retvoid"] ELSE [op |-> "ret", v |-> v]
\* A call of a layout callback ("contribute", "reduce" or "introduce")
\* made by an emitter, with the node it passes.
Call(cb, n) == [op |-> "call", cb |-> cb, node |-> n]
Terminators == {"br", "condbr", "ret", "retvoid"}

(* --------------------------- the IR builder ---------------------------- *)
\* llvm::BasicBlock::Create: appends an empty block to the function.
CreateBlock(G) == [G EXCEPT !.blocks = Append(@, <<>>)]
NewBlock(G) == Len(G.blocks) + 1
SetInsertPoint(G, b) == [G EXCEPT !.ip = b]
\* Every builder_.Create* appends at the insert point.
Emit(G, i) == [G EXCEPT !.blocks[G.ip] = Append(@, i)]
Emits(G, is) == [G EXCEPT !.blocks[G.ip] = @ \o is]
\* assert, llvm_unreachable or a null dereference: the compiler dies.
Abort(G) == [G EXCEPT !.crash = TRUE]
\* codegenExpr and loadMemory: the loads, arithmetic, comparisons (with
\* their zext), calls and stores of an expression, none a terminator.
CodegenExpr(G) == Emit(G, Inst)
\* codegenExpr(MetaInstantiationExpr): lookupGlobal(expr, true) on each
\* instantiation; CodeExecutor::instantiate finds it cached, or asserts
\* !requiresCompleted and, without asserts, instantiates it there (late).
LookupInsts(G, is) ==
    IF is \subseteq G.cached THEN G
    ELSE With([G EXCEPT !.late = @ \cup (is \ G.cached)], LAMBDA H :
             IF G.asserts THEN Abort(H) ELSE H)

\* The ValueMap values_ (an llvm::ScopedHashTable): one set of declaration
\* names per open ValueMap::ScopeTy; DeclStmt's introduce inserts into the
\* innermost scope, and a scope's destructor drops its declarations.
OpenScope(G) == [G EXCEPT !.vals = Append(@, {})]
CloseScope(G) == [G EXCEPT !.vals = SubSeq(@, 1, Len(@) - 1)]
Introduce(G, x) == [G EXCEPT !.vals[Len(G.vals)] = @ \cup {x}]
\* lookupLocal asserts the value is present; without asserts the null
\* value reaches createIntroduceNode, whose CreatePointerCast dereferences
\* it: the compiler dies either way.
LookupLocal(G, xs) ==
    With({xs[i] : i \in {j \in 1 .. Len(xs) :
              \A k \in 1 .. Len(G.vals) : xs[j] \notin G.vals[k]}},
         LAMBDA miss :
    IF miss = {} THEN G ELSE Abort([G EXCEPT !.missing = @ \cup miss]))

\* Nullable<llvm::BasicBlock*> result of a codegenStmt; 0 is nullptr.
Res(G, b) == [g |-> G, r |-> b]

\* setUpStackFrame / createEntryBlock: the entry block holding one
\* alloca+store per argument, with the insert point in it.
\* cached: the instantiations the consume walk instantiated beforehand.
SetUpStackFrame(n, a, cached) ==
    [blocks |-> <<[i \in 1 .. n |-> Inst]>>, ip |-> 1, crash |-> FALSE,
     asserts |-> a, cached |-> cached, late |-> {}, vals |-> <<{}>>,
     missing |-> {}]

\* lazyGetContinueBlock: the continue block, created on first use.
LazyCont(G, cont) ==
    IF cont # 0 THEN [g |-> G, cont |-> cont]
    ELSE [g |-> CreateBlock(G), cont |-> NewBlock(G)]

\* builder_.CreateBr(lazyGetContinueBlock()) at the insert point.
BrToCont(G, cont) ==
    With(LazyCont(G, cont), LAMBDA L :
        [g |-> Emit(L.g, Br(L.cont)), cont |-> L.cont])

\* createRegionAfter: a new block, entered by a branch from the insert
\* point (block->moveAfter(block) changes nothing).
CreateRegionAfter(G) ==
    With(NewBlock(G), LAMBDA b :
        [g |-> SetInsertPoint(Emit(CreateBlock(G), Br(b)), b), b |-> b])

RECURSIVE CodegenStmt(_, _, _), CodegenSeq(_, _, _), CodegenIfStructure(_, _, _),
          CodegenArm(_, _, _), CodegenMeta(_, _, _), CodegenChildren(_, _, _)

\* Mutation: an UnscopedCompoundStmt opens a ValueMap scope like a
\* CompoundStmt.
CodegenStmtScopedUnscoped(G, blk, s) ==
    CASE s.k = "ReturnStmt" ->
            Res(Emit(IF s.v = "void" THEN G ELSE CodegenExpr(G), RetOf(s.v)), 0)
      [] s.k = "ExpressionStmt" -> Res(LookupInsts(CodegenExpr(G), InstsAt(s)), blk)
      [] s.k = "DeclStmt" ->
            Res(Introduce(LookupInsts(CodegenExpr(G), InstsAt(s)), s.n), blk)
      [] s.k \in {"CompoundStmt", "UnscopedCompoundStmt"} ->
            With(CodegenSeq(OpenScope(G), blk, s.c), LAMBDA X :
                 Res(CloseScope(X.g), X.r))
      [] s.k = "IfStmt" -> CodegenIfStructure(G, blk, s)
      [] s.k \in {"MetaIfStmt", "MetaCalculationStmt"} -> Res(Abort(G), 0)

\* The codegenStmt overloads, dispatched on the statement kind.
CodegenStmt(G, blk, s) ==
    CASE s.k = "ReturnStmt" ->
            Res(Emit(IF s.v = "void" THEN G ELSE CodegenExpr(G), RetOf(s.v)), 0)
      [] s.k = "ExpressionStmt" -> Res(LookupInsts(CodegenExpr(G), InstsAt(s)), blk)
      [] s.k = "DeclStmt" ->
            Res(Introduce(LookupInsts(CodegenExpr(G), InstsAt(s)), s.n), blk)
      [] s.k = "CompoundStmt" ->
            With(CodegenSeq(OpenScope(G), blk, s.c), LAMBDA X :
                 Res(CloseScope(X.g), X.r))
      [] s.k = "UnscopedCompoundStmt" -> CodegenSeq(G, blk, s.c)
      [] s.k = "IfStmt" -> CodegenIfStructure(G, blk, s)
      [] s.k \in {"MetaIfStmt", "MetaCalculationStmt"} -> Res(Abort(G), 0)

\* The child loop `current = codegenStmt(*current, child)`: *current is
\* requiresNonNull, an assert; without asserts the null block is passed on.
CodegenSeq(G, cur, cs) ==
    IF cs = <<>> \/ G.crash THEN Res(G, cur)
    ELSE IF cur = 0 /\ G.asserts THEN Res(Abort(G), 0)
    ELSE With(CodegenStmt(G, cur, Head(cs)), LAMBDA X :
             CodegenSeq(X.g, X.r, Tail(cs)))

\* The codegen supplier of an if arm: codegenStmt for an if statement of a
\* function, codegenMeta for the MetaContribution arm of a meta if.
CodegenArm(G, b, a) ==
    IF a.k = "MetaContribution" THEN CodegenMeta(G, b, a) ELSE CodegenStmt(G, b, a)

\* Mutation: a contributed node is contributed after its children.
CodegenMetaContributeLate(G, blk, n) ==
    CASE n.k = "MetaContribution" -> CodegenChildren(G, blk, n.c)
      [] n.k = "MetaIfStmt" -> CodegenIfStructure(G, blk, n)
      [] n.k = "MetaCalculationStmt" ->
            With(CreateRegionAfter(G), LAMBDA Rg :
            With(CodegenStmt(Rg.g, Rg.b, n.s), LAMBDA X :
            IF X.r = 0 /\ X.g.asserts THEN Res(Abort(X.g), 0)
            ELSE Res(Emits(LookupLocal(X.g, n.ex),
                           [i \in 1 .. Len(n.ex) |-> Call("introduce", n.ex[i])]),
                     X.r)))
      [] OTHER ->
            With(CodegenChildren(G, blk, n.c), LAMBDA X :
            With(Emit(X.g, Call("contribute", n.id)), LAMBDA G1 :
            Res(IF n.reduce THEN Emit(G1, Call("reduce", n.id)) ELSE G1, X.r)))

\* The codegenMeta overloads of MetaCodegen: a contribution's children, a
\* meta if as an if structure, a meta calculation as a region running its
\* statement and then introducing the exported declarations, and any other
\* node as contribute, its children and, for variadic nodes, reduce.
CodegenMeta(G, blk, n) ==
    CASE n.k = "MetaContribution" -> CodegenChildren(G, blk, n.c)
      [] n.k = "MetaIfStmt" -> CodegenIfStructure(G, blk, n)
      [] n.k = "MetaCalculationStmt" ->
            With(CreateRegionAfter(G), LAMBDA Rg :
            With(CodegenStmt(Rg.g, Rg.b, n.s), LAMBDA X :
            IF X.r = 0 /\ X.g.asserts THEN Res(Abort(X.g), 0)
            ELSE Res(Emits(LookupLocal(X.g, n.ex),
                           [i \in 1 .. Len(n.ex) |-> Call("introduce", n.ex[i])]),
                     X.r)))
      [] OTHER ->
            With(CodegenChildren(Emit(G, Call("contribute", n.id)), blk, n.c),
                 LAMBDA X :
            Res(IF n.reduce THEN Emit(X.g, Call("reduce", n.id)) ELSE X.g, X.r))

\* codegenChildrenContribution: `current = codegenMeta(*current, child)`.
CodegenChildren(G, cur, cs) ==
    IF cs = <<>> \/ G.crash THEN Res(G, cur)
    ELSE IF cur = 0 /\ G.asserts THEN Res(Abort(G), 0)
    ELSE With(CodegenMeta(G, cur, Head(cs)), LAMBDA X :
             CodegenChildren(X.g, X.r, Tail(cs)))

\* The false side of codegenIfStructure: the false block, created before
\* the continue block, or the (lazily created) continue block itself.
FalsePart(G, cont, s) ==
    IF s.f = <<>>
    THEN With(LazyCont(G, cont), LAMBDA L :
             [g |-> L.g, cont |-> L.cont, fb |-> L.cont])
    ELSE With(NewBlock(G), LAMBDA fb :
         With(CodegenArm(SetInsertPoint(CreateBlock(G), fb), fb, Head(s.f)),
              LAMBDA Y :
         IF Y.r = 0 THEN [g |-> Y.g, cont |-> cont, fb |-> fb]
         ELSE With(BrToCont(Y.g, cont), LAMBDA L :
                  [g |-> L.g, cont |-> L.cont, fb |-> fb])))

\* Mutation: the conditional branch has its targets swapped.
CodegenIfStructureSwapped(G, blk, s) ==
    IF blk = 0 THEN Res(Abort(G), 0)
    ELSE
    With(NewBlock(G), LAMBDA tb :
    With(CodegenArm(SetInsertPoint(CreateBlock(G), tb), tb, s.t), LAMBDA X :
    With(IF X.r = 0 THEN [g |-> X.g, cont |-> 0] ELSE BrToCont(X.g, 0),
         LAMBDA T :
    With(FalsePart(T.g, T.cont, s), LAMBDA F :
    With(Emit(CodegenExpr(SetInsertPoint(F.g, blk)), CondBr(s.cond, F.fb, tb)),
         LAMBDA H :
    IF F.cont # 0 THEN Res(SetInsertPoint(H, F.cont), F.cont)
    ELSE Res(H, 0))))))

\* Mutation: a true arm that falls through gets the continue block but no
\* branch to it.
CodegenIfStructureNoBr(G, blk, s) ==
    IF blk = 0 THEN Res(Abort(G), 0)
    ELSE
    With(NewBlock(G), LAMBDA tb :
    With(CodegenArm(SetInsertPoint(CreateBlock(G), tb), tb, s.t), LAMBDA X :
    With(IF X.r = 0 THEN [g |-> X.g, cont |-> 0] ELSE LazyCont(X.g, 0),
         LAMBDA T :
    With(FalsePart(T.g, T.cont, s), LAMBDA F :
    With(Emit(CodegenExpr(SetInsertPoint(F.g, blk)), CondBr(s.cond, tb, F.fb)),
         LAMBDA H :
    IF F.cont # 0 THEN Res(SetInsertPoint(H, F.cont), F.cont)
    ELSE Res(H, 0))))))

\* Mutation: the continue block is created even when the true arm returns.
CodegenIfStructureEager(G, blk, s) ==
    IF blk = 0 THEN Res(Abort(G), 0)
    ELSE
    With(NewBlock(G), LAMBDA tb :
    With(CodegenArm(SetInsertPoint(CreateBlock(G), tb), tb, s.t), LAMBDA X :
    With(IF X.r = 0 THEN LazyCont(X.g, 0) ELSE BrToCont(X.g, 0),
         LAMBDA T :
    With(FalsePart(T.g, T.cont, s), LAMBDA F :
    With(Emit(CodegenExpr(SetInsertPoint(F.g, blk)), CondBr(s.cond, tb, F.fb)),
         LAMBDA H :
    IF F.cont # 0 THEN Res(SetInsertPoint(H, F.cont), F.cont)
    ELSE Res(H, 0))))))

\* codegenIfStructure: true block, optional branch to the continue block,
\* false part, then the conditional branch at the end of `block`.
\* SetInsertPoint(nullptr), reached without asserts, dereferences null.
CodegenIfStructure(G, blk, s) ==
    IF blk = 0 THEN Res(Abort(G), 0)
    ELSE
    With(NewBlock(G), LAMBDA tb :
    With(CodegenArm(SetInsertPoint(CreateBlock(G), tb), tb, s.t), LAMBDA X :
    With(IF X.r = 0 THEN [g |-> X.g, cont |-> 0] ELSE BrToCont(X.g, 0),
         LAMBDA T :
    With(FalsePart(T.g, T.cont, s), LAMBDA F :
    With(Emit(CodegenExpr(SetInsertPoint(F.g, blk)), CondBr(s.cond, tb, F.fb)),
         LAMBDA H :
    IF F.cont # 0 THEN Res(SetInsertPoint(H, F.cont), F.cont)
    ELSE Res(H, 0))))))

\* FunctionCodegen::codegen: frame, body, and `ret void` when the body
\* can still continue.
Codegen(d, a) ==
    With(CodegenStmt(SetUpStackFrame(d.args, a, Consumed(d)), 1, d.body), LAMBDA X :
        IF X.r # 0 THEN Emit(X.g, RetOf("void")) ELSE X.g)

\* MetaCodegen::codegen(MetaDecl): the frame with the context argument, an
\* introduce call per instantiation parameter, the contribution, and ret
\* void after asserting that control still continues.
CodegenMetaDecl(d, a) ==
    With(Emits(SetUpStackFrame(d.args, a, Consumed(d)),
               [i \in 1 .. d.args |-> Call("introduce", i)]), LAMBDA G :
    With(CodegenMeta(G, 1, d.body), LAMBDA X :
    IF X.r = 0 /\ a THEN Abort(X.g) ELSE Emit(X.g, RetOf("void"))))

(* ------------------------- valid LLVM IR ------------------------------ *)
(* Not code of this repository: the rules of llvm::Verifier that the      *)
(* lowering above can break.  The compiler never runs them (see Optimize); *)
(* the properties use them to say which IR is valid.                      *)
BlockIds(bs) == 1 .. Len(bs)
WellTerminated(bs) ==
    \A b \in BlockIds(bs) :
        /\ Len(bs[b]) > 0
        /\ bs[b][Len(bs[b])].op \in Terminators
        /\ \A i \in 1 .. Len(bs[b]) - 1 : bs[b][i].op \notin Terminators
\* ret carries a value exactly when the function type has a result
\* (getFunctionType: i32 with a return type, void without).
ReturnsMatch(bs, hasRet) ==
    \A b \in BlockIds(bs) : \A i \in 1 .. Len(bs[b]) :
        /\ bs[b][i].op = "ret" => hasRet
        /\ bs[b][i].op = "retvoid" => ~hasRet
Verifies(bs, hasRet) == WellTerminated(bs) /\ ReturnsMatch(bs, hasRet)

(* ------------------------------- actions ------------------------------- *)
Init ==
    /\ fn \in Decls
    /\ asserts \in BOOLEAN
    /\ ir = [blocks |-> <<>>, ip |-> 0, crash |-> FALSE, asserts |-> FALSE,
             cached |-> {}, late |-> {}, vals |-> <<>>, missing |-> {}]
    /\ phase = "start"

\* CodegenInstance::codegen(FunctionDecl) running FunctionCodegen::codegen,
\* or CodeExecutor::codegen(MetaDecl) running MetaCodegen::codegen, each
\* after consumeMetaInstantiationsOf the declaration.
Generate ==
    /\ phase = "start"
    /\ \E G \in {IF fn.kind = "MetaDecl" THEN CodegenMetaDecl(fn, asserts)
                  ELSE Codegen(fn, asserts)} :
        /\ ir' = G
        /\ phase' = IF G.crash THEN "crashed" ELSE "generated"
    /\ UNCHANGED <<fn, asserts>>

\* optimizeFunction runs the function pass manager of
\* createFunctionPassManager.  At the default -O0 (OptLevel::Debug)
\* populateFunctionPassManager adds no pass, and VerifyInput only affects
\* LLVM's LTO pipeline, so the IR is left as generated and unchecked.  An
\* emitter never passes here; the JIT compiles its module as it is.
Optimize ==
    /\ phase = "generated"
    /\ phase' = "done"
    /\ UNCHANGED <<fn, asserts, ir>>

Next == Generate \/ Optimize

Spec == Init /\ [][Next]_vars


(* --------------------- the source-level reference --------------------- *)
Compounds == {"CompoundStmt", "UnscopedCompoundStmt"}

RECURSIVE Terminates(_), NoDeadCode(_), ReturnsIn(_)
\* Control never continues after s.
Terminates(s) ==
    CASE s.k = "ReturnStmt" -> TRUE
      [] s.k \in Compounds -> \E i \in 1 .. Len(s.c) : Terminates(s.c[i])
      [] s.k = "IfStmt" -> s.f # <<>> /\ Terminates(s.t) /\ Terminates(Head(s.f))
      [] OTHER -> FALSE
\* No statement of s follows one that terminates.
NoDeadCode(s) ==
    CASE s.k \in Compounds ->
            /\ \A i \in 1 .. Len(s.c) - 1 : ~Terminates(s.c[i])
            /\ \A i \in 1 .. Len(s.c) : NoDeadCode(s.c[i])
      [] s.k = "IfStmt" ->
            NoDeadCode(s.t) /\ \A i \in 1 .. Len(s.f) : NoDeadCode(s.f[i])
      [] OTHER -> TRUE
\* The values the return statements of s return ("void" for `return;`).
ReturnsIn(s) ==
    CASE s.k = "ReturnStmt" -> {s.v}
      [] s.k \in Compounds -> UNION {ReturnsIn(s.c[i]) : i \in 1 .. Len(s.c)}
      [] s.k = "IfStmt" ->
            ReturnsIn(s.t) \cup UNION {ReturnsIn(s.f[i]) : i \in 1 .. Len(s.f)}
      [] OTHER -> {}
RECURSIVE InstsIn(_)
\* The instantiations written in a statement, at any depth.
InstsIn(s) ==
    InstsAt(s) \cup
    CASE s.k \in Compounds -> UNION {InstsIn(s.c[j]) : j \in 1 .. Len(s.c)}
      [] s.k = "IfStmt" -> InstsIn(s.t) \cup UNION {InstsIn(s.f[j]) : j \in 1 .. Len(s.f)}
      [] OTHER -> {}

RECURSIVE CalcsOf(_)
\* The meta calculations of a contribution tree.
CalcsOf(n) ==
    CASE n.k = "MetaCalculationStmt" -> {n}
      [] n.k = "MetaIfStmt" ->
            CalcsOf(n.t) \cup UNION {CalcsOf(n.f[i]) : i \in 1 .. Len(n.f)}
      [] OTHER -> UNION {CalcsOf(n.c[i]) : i \in 1 .. Len(n.c)}

\* A function a C-like language accepts: no dead code, every return fits
\* the declared result, and a function with a result returns on all paths.
\* For a meta declaration (a void emitter): the statement of every meta
\* calculation is well formed and can continue.
WellFormed(d) ==
    IF d.kind = "MetaDecl"
    THEN \A c \in CalcsOf(d.body) :
            /\ NoDeadCode(c.s) /\ ~Terminates(c.s)
            /\ ReturnsIn(c.s) \subseteq {"void"}
    ELSE
    /\ NoDeadCode(d.body)
    /\ IF d.ret THEN Terminates(d.body) /\ "void" \notin ReturnsIn(d.body)
       ELSE ReturnsIn(d.body) \subseteq {"void"}

RECURSIVE ExecStmt(_, _), ExecSeq(_, _)
\* Running s with the conditions valued by val: [done, v] where done says
\* that a return with value v was executed.
ExecStmt(s, val) ==
    CASE s.k = "ReturnStmt" -> [done |-> TRUE, v |-> s.v]
      [] s.k \in Compounds -> ExecSeq(s.c, val)
      [] s.k = "IfStmt" /\ val[s.cond] -> ExecStmt(s.t, val)
      [] s.k = "IfStmt" /\ s.f # <<>> -> ExecStmt(Head(s.f), val)
      [] OTHER -> [done |-> FALSE, v |-> "void"]
ExecSeq(cs, val) ==
    IF cs = <<>> THEN [done |-> FALSE, v |-> "void"]
    ELSE With(ExecStmt(Head(cs), val), LAMBDA X :
             IF X.done THEN X ELSE ExecSeq(Tail(cs), val))

\* The value a call of the source function returns.
Expected(d, val) == ExecStmt(d.body, val).v

RECURSIVE Layout(_, _), LayoutSeq(_, _)
\* The callbacks an emitter makes when its meta ifs are decided by val:
\* the contributions, reduce markers and introductions the meta
\* declaration prescribes (what MetaEmit writes to the layout).
Layout(n, val) ==
    CASE n.k = "MetaContribution" -> LayoutSeq(n.c, val)
      [] n.k = "MetaIfStmt" /\ val[n.cond] -> Layout(n.t, val)
      [] n.k = "MetaIfStmt" ->
            IF n.f = <<>> THEN <<>> ELSE Layout(Head(n.f), val)
      [] n.k = "MetaCalculationStmt" ->
            [i \in 1 .. Len(n.ex) |-> Call("introduce", n.ex[i])]
      [] OTHER ->
            <<Call("contribute", n.id)>> \o LayoutSeq(n.c, val)
            \o (IF n.reduce THEN <<Call("reduce", n.id)>> ELSE <<>>)
LayoutSeq(cs, val) ==
    IF cs = <<>> THEN <<>> ELSE Layout(Head(cs), val) \o LayoutSeq(Tail(cs), val)
ExpectedLayout(d, val) ==
    [i \in 1 .. d.args |-> Call("introduce", i)] \o Layout(d.body, val)

RECURSIVE RunTrace(_, _, _, _)
\* The callbacks the IR makes when entered at block b.
RunTrace(bs, b, val, fuel) ==
    With(bs[b][Len(bs[b])], LAMBDA t :
        SelectSeq(bs[b], LAMBDA i : i.op = "call")
        \o CASE fuel = 0 -> <<>>
             [] t.op = "br" -> RunTrace(bs, t.to, val, fuel - 1)
             [] t.op = "condbr" ->
                   RunTrace(bs, IF val[t.cond] THEN t.t ELSE t.f, val, fuel - 1)
             [] OTHER -> <<>>)

RECURSIVE RunIR(_, _, _, _)
\* The value the IR returns when entered at block b; the blocks form a
\* DAG, so fuel = number of blocks bounds every path.
RunIR(bs, b, val, fuel) ==
    With(bs[b][Len(bs[b])], LAMBDA t :
        CASE fuel = 0 -> "diverges"
          [] t.op = "ret" -> t.v
          [] t.op = "retvoid" -> "void"
          [] t.op = "br" -> RunIR(bs, t.to, val, fuel - 1)
          [] t.op = "condbr" ->
                RunIR(bs, IF val[t.cond] THEN t.t ELSE t.f, val, fuel - 1))

BranchTargets(i) ==
    CASE i.op = "br" -> {i.to} [] i.op = "condbr" -> {i.t, i.f} [] OTHER -> {}

\* The instantiations a meta declaration evaluates at meta time: those in
\* its meta calculations, in every branch of its meta ifs (spec 4.6).
MetaTimeInsts(d) == UNION {InstsIn(c.s) : c \in CalcsOf(d.body)}

Finished == phase \in {"done", "crashed"}

(* ------------------------------ properties ----------------------------- *)
\* Verdict: code generation (FunctionCodegen::codegen or MetaCodegen::codegen)
\* of every well-formed declaration, in either build, finishes with IR the
\* LLVM verifier accepts: every block ends in exactly one terminator and
\* every return matches the function type.  Nothing in the compiler checks
\* this (Optimize runs no pass), so broken IR from nested ifs, their
\* continue blocks or the implicit ret void would go unnoticed.
Verdict ==
    Finished /\ WellFormed(fn) => phase = "done" /\ Verifies(ir.blocks, fn.ret)

\* SameReturn: for every outcome of the conditions, generated IR that is
\* valid returns the value the source function returns (codegenIfStructure's
\* diamond and the implicit `ret void` preserve the control flow).
SameReturn ==
    phase = "done" /\ fn.kind = "FunctionDecl" /\ Verifies(ir.blocks, fn.ret) =>
        \A val \in [Conds -> BOOLEAN] :
            RunIR(ir.blocks, 1, val, Len(ir.blocks)) = Expected(fn, val)

\* Meta calculations whose statements contain no return.
NoReturnInCalcs(d) == \A c \in CalcsOf(d.body) : ReturnsIn(c.s) = {}

\* An emitter, run with its meta ifs decided by val, makes exactly the
\* contribute, reduce and introduce calls of the branches taken, in order.
EmitsLayout(val) ==
    RunTrace(ir.blocks, 1, val, Len(ir.blocks)) = ExpectedLayout(fn, val)

\* EmitterFaithful: for every outcome of the meta if conditions, the
\* emitter MetaCodegen generated makes exactly the callbacks of the
\* branches taken (spec S3), when its meta calculations do not return: the
\* calculations' regions and the if structures never skip or repeat one.
EmitterFaithful ==
    phase = "done" /\ fn.kind = "MetaDecl" /\ NoReturnInCalcs(fn) =>
        \A val \in [Conds -> BOOLEAN] : EmitsLayout(val)

\* LazyContinueBlock: the continue block of an if is created only when an
\* arm falls through to it, so every block other than entry is the target
\* of a branch (no block is created and left without predecessors).
LazyContinueBlock ==
    phase \in {"generated", "done"} =>
        \A b \in BlockIds(ir.blocks) \ {1} :
            \E b2 \in BlockIds(ir.blocks) : \E i \in 1 .. Len(ir.blocks[b2]) :
                b \in BranchTargets(ir.blocks[b2][i])


\* CompiledAsWritten: errors in a program are accumulated as diagnostics
\* that gate the next phase (spec, error propagation policy), so code
\* generation of a declaration semantic analysis accepted never kills the
\* compiler (assert, null dereference) nor yields IR the LLVM verifier
\* rejects, which at -O0 nothing checks before the IR is used; and a meta
\* calculation's statement only has side effects at meta-evaluation time,
\* so an emitter makes the callbacks of every contribution its meta ifs
\* select (spec S3, S4).
CompiledAsWritten ==
    Finished =>
        /\ phase = "done"
        /\ Verifies(ir.blocks, fn.ret)
        /\ fn.kind = "MetaDecl" => \A val \in [Conds -> BOOLEAN] : EmitsLayout(val)

\* InstantiatedBeforeUse: every instantiation the lowering looks up with
\* requiresCompleted (codegenExpr of a MetaInstantiationExpr) was already
\* instantiated by the consume walk of CodegenInstance::codegen or
\* CodeExecutor::codegen(MetaDecl): the walker and the lowering agree on
\* which instantiations a declaration needs, whatever the nesting of
\* compounds, ifs, else arms, meta calculations and contributed nodes.
InstantiatedBeforeUse == ir.late = {}

\* WalkerOnlyMetaTime: the walk of a meta declaration instantiates only
\* what its meta code evaluates, never an instantiation in the runtime
\* code the emitter contributes (that one is instantiated when the
\* MetaUnit's functions are generated).
WalkerOnlyMetaTime ==
    fn.kind = "MetaDecl" => Consumed(fn) \subseteq MetaTimeInsts(fn)

\* ExportedLocalsPresent: every declaration the layout reader recorded as
\* exported by a meta calculation still has a value in the ValueMap when
\* codegenMeta looks it up after the calculation's statement, so that
\* lookupLocal's assert (or, without asserts, the null value's cast in
\* createIntroduceNode) is never hit: the emitter's scopes end exactly
\* where the reader's do.
ExportedLocalsPresent == ir.missing = {}

=============================================================================
