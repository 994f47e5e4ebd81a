------------------------------ MODULE Frontend ------------------------------
(***************************************************************************)
(* The front end and the instantiation path composed: ASTParser::parse    *)
(* writes the compilation unit's layout (LocalScopeVisitor) and reads it  *)
(* back (ASTLayoutReader::consumeCompilationUnit); CompilationUnit::      *)
(* translate runs SemaAnalysis and stops on errors; code generation then  *)
(* instantiates every meta instantiation whose reference resolved to a    *)
(* meta declaration (CodeExecutor::instantiate): the emitter writes the   *)
(* MetaUnit layout, a fresh reader reads it into the scope of the unit    *)
(* that declared the meta, SemaAnalysis checks the new unit and           *)
(* CodegenInstance::instantiate requires its exported node.               *)
(*                                                                         *)
(* The order in which code generation reaches the instantiations (and the *)
(* JIT, the cache and the jump pads) is MetaInstantiation's subject; here *)
(* any pending instantiation may go next.                                  *)
(***************************************************************************)
EXTENDS MetaEmit, Sema

CONSTANT Programs    \* the parse trees of the compilation units considered

VARIABLES
  prog,      \* the parse tree of the compilation unit being compiled
  phase,     \* parse, sema, codegen, then done, failed or crashed
  R,         \* the reader and builder state: scopes, nodes, resolutions
  units,     \* the read units: the compilation unit, then each MetaUnit
  layouts,   \* the layout each unit was read from
  done       \* the instantiation nodes that produced a MetaUnit

vars == <<prog, phase, R, units, layouts, done>>

\* The state of a builder that has read nothing.
EmptyWorld ==
  [lay |-> <<>>, pos |-> 1, base |-> 0, sc |-> <<>>, cur |-> NoScope,
   modes |-> <<>>, nodes |-> <<>>, res |-> <<>>, unit |-> <<>>,
   unitScope |-> <<>>, exported |-> <<>>, exp |-> <<>>, similar |-> <<>>,
   diags |-> {}, fails |-> {}, crash |-> FALSE, out |-> <<>>]

Terminal == {"done", "failed", "crashed"}

\* A read tree without the identities the reader gave its nodes.
RECURSIVE Strip(_)
Strip(t) == Node(t.k, t.n, [i \in 1..Len(t.c) |-> Strip(t.c[i])])

\* The meta instantiations of the read units (templates included).
RECURSIVE InstsOf(_)
InstsOf(t) ==
  (IF t.k = "MetaInstantiationExpr" THEN {t} ELSE {})
    \cup UNION {InstsOf(t.c[i]) : i \in 1..Len(t.c)}

\* The instantiations code generation reaches and has not yet done.
Pending ==
  {i \in UNION {InstsOf(units[j]) : j \in DOMAIN units} :
     /\ i.c[1].p \in DOMAIN R.res
     /\ KindOf(R, R.res[i.c[1].p]) = "MetaDecl"
     /\ i.p \notin done}

Init ==
  /\ prog \in Programs
  /\ phase = "parse"
  /\ R = EmptyWorld
  /\ units = <<>>
  /\ layouts = <<>>
  /\ done = {}

(***************************************************************************)
(* ASTParser::parse: the visitor writes the layout, the reader structures *)
(* it; canContinue() stops on any diagnostic of the reader.               *)
(***************************************************************************)
Parse ==
  /\ phase = "parse"
  /\ \E lay \in {Write(prog)} :
     \E R1 \in {ConsumeUnit(NewReader(R, lay, 0), "CompilationUnit")} :
         /\ R' = R1
         /\ phase' = CASE R1.crash -> "crashed"
                       [] R1.diags # {} -> "failed"
                       [] OTHER -> "sema"
         /\ units' = IF R1.crash THEN units ELSE <<R1.out>>
         /\ layouts' = <<lay>>
  /\ UNCHANGED <<prog, done>>

\* CompilationUnit::translate: SemaAnalysis on the compilation unit.
SemaCU ==
  /\ phase = "sema"
  /\ \E ev \in {Sema(R, units, units[1], "none")} :
         phase' = CASE NullDeref \in ev -> "crashed"
                    [] ev # {} -> "failed"
                    [] OTHER -> "codegen"
  /\ UNCHANGED <<prog, R, units, layouts, done>>

\* Mutation: a MetaUnit without exported node is accepted.
OutcomeLax(R0, R1, lay, ev) ==
  CASE Trap \in Range(lay) \/ R1.crash -> "crashed"
    [] R1.diags # R0.diags -> "failed"
    [] NullDeref \in ev -> "crashed"
    [] ev # {} -> "failed"
    [] OTHER -> "codegen"

\* CodegenInstance::lookupGlobal(inst) for the MetaUnit u: an exported
\* FunctionDecl is looked up in the amalgamation; any other node is
\* llvm::cast to a MetaInstantiationExpr, which asserts (and without
\* assertions reads the node as an instantiation).
ExportUsable(R1, u) == KindOf(R1, R1.exported[u]) = "FunctionDecl"

\* What follows the reading of a MetaUnit: CodeExecutor::instantiate stops
\* on the reader's or Sema's errors (canContinue), CodegenInstance::
\* instantiate on a unit without exported node (ErrorInstantiationNoExport).
Outcome(R0, R1, lay, ev) ==
  CASE Trap \in Range(lay) \/ R1.crash -> "crashed"
    [] R1.diags # R0.diags -> "failed"
    [] NullDeref \in ev -> "crashed"
    [] ev # {} -> "failed"
    [] R1.out.p \notin DOMAIN R1.exported -> "failed"
    [] OTHER -> "codegen"

(***************************************************************************)
(* CodeExecutor::instantiate and CodegenInstance::instantiate for the     *)
(* instantiation node i: emit, read the MetaUnit, check it, require the   *)
(* exported node.  choice is the value of each meta if's condition.       *)
(***************************************************************************)
Instantiate(i, choice) ==
  /\ phase = "codegen"
  /\ \E lay \in {InstantiationLayout(R, Sub(units, R.res[i.c[1].p]), choice)} :
     \E R1 \in {ConsumeUnit(NewReader(R, lay, R.base + Len(R.lay)), "MetaUnit")} :
     \E us \in {Append(units, R1.out)} :
     \E ev \in {IF R1.crash THEN {} ELSE Sema(R1, us, R1.out, "none")} :
      /\ R' = IF Trap \in Range(lay) THEN R ELSE R1
      /\ phase' = Outcome(R, R1, lay, ev)
      /\ units' = IF Trap \in Range(lay) \/ R1.crash THEN units ELSE us
      /\ layouts' = IF Trap \in Range(lay) THEN layouts ELSE Append(layouts, lay)
      /\ done' = done \cup {i.p}
      /\ UNCHANGED prog

\* Code generation ends when nothing is left to instantiate.
Finish ==
  /\ phase = "codegen"
  /\ Pending = {}
  /\ phase' = "done"
  /\ UNCHANGED <<prog, R, units, layouts, done>>

\* The compiler has exited.
Exited == phase \in Terminal /\ UNCHANGED vars

Next ==
  \/ Parse
  \/ SemaCU
  \/ \E i \in Pending :
       \E choice \in [MetaIfsOf(Sub(units, R.res[i.c[1].p])) -> BOOLEAN] :
         Instantiate(i, choice)
  \/ Finish
  \/ Exited

Spec == Init /\ [][Next]_vars /\ WF_vars(Next)

-----------------------------------------------------------------------------
(***************************************************************************)
(* A reference for name resolution (spec 4.2, 8.3, 8.6), written over the *)
(* read trees with an environment instead of the reader's scope store: a  *)
(* walk carries the names visible (env, name -> declaration), the          *)
(* references met with the declaration env gives them and the env they   *)
(* saw, and the declarations that collided with a visible name.  Nothing  *)
(* is introduced or resolved in the template part of a meta declaration. *)
(***************************************************************************)
Enabled(mode) == mode # "InsideMetaDecl"
Lookup(env, n) == IF n \in DOMAIN env THEN env[n] ELSE NoDecl

Declare(w, t, mode) ==
  CASE ~Enabled(mode) -> w
    [] t.n \in DOMAIN w.env -> [w EXCEPT !.dups = @ \cup {t.p}]
    [] OTHER -> [w EXCEPT !.env = (t.n :> t.p) @@ @]

\* A scope ends: the names it declared are no longer visible.
Restore(before, after) == [after EXCEPT !.env = before.env]

RECURSIVE Walk(_, _, _), WalkSeq(_, _, _)
WalkSeq(cs, w, mode) ==
  IF cs = <<>> THEN w ELSE WalkSeq(Tail(cs), Walk(Head(cs), w, mode), mode)
Walk(t, w, mode) ==
  CASE t.k = "DeclRefExpr" ->
         IF Enabled(mode)
         THEN [w EXCEPT !.refs = @ \cup {[r |-> t.p, d |-> Lookup(w.env, t.n),
                                          env |-> w.env]}]
         ELSE w
    [] t.k \in {"DeclStmt", "NamedArgumentDecl"} ->
         Declare(WalkSeq(t.c, w, mode), t, mode)
    [] t.k \in {"CompoundStmt", "FunctionDecl"} -> Restore(w, WalkSeq(t.c, w, mode))
    [] t.k = "MetaDecl" ->
         Restore(w, Walk(t.c[2], Walk(t.c[1], w, mode), "InsideMetaDecl"))
    [] t.k = "MetaIfStmt" ->
         WalkSeq(Tail(t.c), Walk(t.c[1], w, "InsideComputation"), mode)
    [] t.k = "MetaCalculationStmt" -> Walk(t.c[1], w, "InsideComputation")
    [] OTHER -> WalkSeq(t.c, w, mode)

\* Phase 1 of a unit: its named children in order; in a meta unit the last
\* child named like the meta is exported and replaces the meta declaration.
UnitDeclare(u, parentEnv) ==
  LET named == SelectSeq(u.c, LAMBDA c : c.k \in NamedDeclKinds)
      meta == IF u.k = "MetaUnit" THEN R.nodes[u.p].x ELSE NoDecl
      export == IF \E i \in DOMAIN named : named[i].n = u.n
                THEN named[CHOOSE i \in DOMAIN named :
                             named[i].n = u.n /\ \A j \in DOMAIN named :
                                                    named[j].n = u.n => j <= i].p
                ELSE NoDecl
      Step(w, c) ==
        IF c.k \in TopLevelKinds /\ c.p = export
             /\ Lookup(w.env, c.n) = meta /\ meta # NoDecl
        THEN [w EXCEPT !.env = (c.n :> c.p) @@ @]
        ELSE Declare(w, c, "Outside")
  IN  FoldLeft(Step, [refs |-> {}, env |-> parentEnv, dups |-> {}], named)

CUEnv == UnitDeclare(units[1], <<>>).env

UnitWalk(u) ==
  LET w == UnitDeclare(u, IF u.k = "MetaUnit" THEN CUEnv ELSE <<>>)
  IN  WalkSeq(u.c, w, "Outside")

RefWalks == {UnitWalk(units[j]) : j \in DOMAIN units}
Refs == UNION {w.refs : w \in RefWalks}
Dups == UNION {w.dups : w \in RefWalks}

-----------------------------------------------------------------------------
(* Properties *)

\* Every reference the reader resolved, and only those, resolves to the
\* declaration lexically visible under two-phase lookup (consumeDeclRefExpr
\* through BasicASTBuilder::lookup, the unit crawl of introduceScope, the
\* scopes opened by the consume methods and the parent scope of a MetaUnit).
ScopeCorrect ==
  ~R.crash =>
    /\ \A x \in Refs : IF x.d = NoDecl THEN x.r \notin DOMAIN R.res
                       ELSE x.r \in DOMAIN R.res /\ R.res[x.r] = x.d
    /\ DOMAIN R.res \subseteq {x.r : x \in Refs}

\* ErrorNameTypeDeclaredAlready is reported exactly for the declarations
\* that collide with a visible name, the exported node of a meta unit
\* replacing its meta declaration excepted (BasicASTBuilder::introduce,
\* isShadowingDeclFromExportedNode, introduceScope's exported node).
RedeclarationDiagnosed ==
  ~R.crash =>
    {g.at : g \in {g \in R.diags : g.what = "ErrorNameTypeDeclaredAlready"}}
      = Dups

\* The NoteDidYouMean candidate of an unknown name is a visible
\* declaration of least edit distance below the threshold, and there is
\* none only when no visible name is that close (ASTScope::similarTo and
\* myMostSimilarString over the chain of scopes).
SuggestionClosest ==
  \A x \in Refs : x.r \in DOMAIN R.similar =>
    LET str == NameOf(R, x.r)
        close == {n \in DOMAIN x.env : EditDistance(str, n) < THRESHOLD}
        best == {x.env[n] : n \in {n \in close : \A o \in close :
                                      EditDistance(str, n) <= EditDistance(str, o)}}
    IN  IF close = {} THEN R.similar[x.r] = {NoDecl}
        ELSE R.similar[x.r] \subseteq best

\* Reading a layout and writing the tree read yields the layout again
\* (spec 8.1), and no assertion of the reader or the builder fails on the
\* way (ASTLayoutReader, BasicASTBuilder; a release build skips them).
RoundTrip ==
  ~R.crash =>
    /\ \A j \in DOMAIN units : Tail(Write(Strip(units[j]))) = Tail(layouts[j])
    /\ R.fails = {}

\* While code generation goes on, every MetaUnit has an exported node named
\* like its meta declaration, that name finds it in the unit's scope, and
\* it is a function, the only node lookupGlobal(inst) can use
\* (CodegenInstance::instantiate and lookupGlobal, spec 8.5).  A constant
\* named like the meta could only come from a meta calculation's local,
\* which the redeclaration check rejects while the unit is parsed.
ExportContract ==
  phase \in {"codegen", "done"} =>
    \A j \in 2..Len(units) :
      LET u == units[j] IN
        /\ u.p \in DOMAIN R.exported
        /\ NameOf(R, R.exported[u.p]) = u.n
        /\ LookupIdentifier(R.sc, R.unitScope[u.p], u.n) = R.exported[u.p]
        /\ ExportUsable(R, u.p)
\* The compiler reports errors and stops; it never dereferences a null
\* pointer or reaches llvm_unreachable (spec 4.2: every failure is reported
\* to the diagnostic engine).  About SemaAnalysis::visit of a
\* MetaInstantiationExpr and ASTLayoutReader::consumeTopLevelDecl.
NoCrash == phase # "crashed"

\* The declarations of the body of a function, and whether p is in it.
RECURSIVE Within(_, _)
Within(t, p) == t.p = p \/ \E i \in 1..Len(t.c) : Within(t.c[i], p)
RECURSIVE DeclsIn(_)
DeclsIn(t) ==
  (IF t.k = "DeclStmt" THEN {t.n} ELSE {}) \cup UNION {DeclsIn(t.c[i]) : i \in 1..Len(t.c)}
FunctionsOf(t) ==
  IF t.k = "FunctionDecl" THEN {t} ELSE {c \in Range(t.c) : c.k = "FunctionDecl"}

\* A reference to a variable declared further down in the same function
\* body resolves (spec 8.3: forward references are permitted at the top
\* level and within a function body).  About consumeDeclStmt introducing a
\* declaration only once it has been read.
ForwardLocalsResolve ==
  \A x \in Refs : x.d = NoDecl =>
    ~\E j \in DOMAIN units : \E f \in FunctionsOf(units[j]) :
       Within(f.c[Len(f.c)], x.r) /\ NameOf(R, x.r) \in DeclsIn(f.c[Len(f.c)])
=============================================================================
