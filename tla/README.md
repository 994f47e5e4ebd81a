# TLA+ models of the swy compiler

This directory holds TLA+ models of the compiler in `src/src/`. They cover the
part of the compiler that is hard to test: the reentrant protocol that generates
meta declarations and ships them to a JIT. It also evaluates their
instantiations at compile time and feeds the produced code back into the
compilation. Everything here is checked with TLC.

## 1. The system

The compiler translates one source file (a *compilation unit*) as follows:
lexer/parser, then a flat *layout*, then the layout *reader*, then the AST,
then semantic analysis, then code generation into one LLVM module, the
*amalgamation*. A `meta` declaration is a code template. When the compiler
meets an instantiation `m<args>`, it does these steps:

1. It generates `m` as an *emitter* function into a pending JIT module, the
   *shipment*.
2. It adds a *jump pad* that calls the emitter with the arguments.
3. It resolves every function the shipment calls but the JIT lacks, by
   generating it in the amalgamation and *pulling* (cloning) it into the
   shipment.
4. It ships the module to the JIT and invokes the pad.
5. The emitter calls back into a layout writer. The layout is read back into
   a `MetaUnit`, analysed and cached. The unit's *exported* declaration (the
   one named like `m`) is what the instantiation stands for.

Generating a function may need an instantiation, which may need functions,
which may need instantiations. This all runs on one thread as mutual
recursion.

### Components, their state and operations

| Component | Sources | State | Operations |
|---|---|---|---|
| CodegenInstance | `Codegen/CodegenInstance.cpp/.hpp` | `dependencies_` (functions still to generate, `unordered_set`); the amalgamation module (which functions have bodies); `functionSource_`; `currentGeneration_` | `codegen(CompilationUnit)` worklist loop; `codegen(FunctionDecl)`; `lookupGlobal(function)` and `lookupGlobal(inst)`; `instantiate` with the export check; `resolveGlobal` |
| CodeExecutor | `Codegen/CodeExecutor.cpp/.hpp` | `availableSymbols_`; `unresolvedDependencies_` (an `unordered_set` of a `PointerUnion`: the same function can be present as AST node and as `llvm::Function`); `shipment_`; the execution engine; `instantiations_` (cache keyed by node) | `instantiate`; `codegen(MetaDecl)`; `createJumpPadTo`; `shipToJIT`; `resolveDependencies`; `pull` with its value materializer; the contribute/reduce/introduce callbacks |
| Dependency walker | `Sema/DependencyAnalysis.cpp` | none (a pure traversal) | `consumeMetaInstantiationsOf(function)` visits every instantiation. For a meta decl it visits those in meta-if conditions and meta calculations, but not in meta-if branches |
| MetaCodegen / FunctionCodegen | `Codegen/MetaCodegen.cpp`, `Codegen/FunctionCodegen.cpp`, `Codegen/CodegenBase.cpp` | the function being built | lower a meta decl to an emitter (contribute, reduce, introduce calls; meta-if and meta calculation as real code); lower function bodies; look up callees and instantiations |
| Layout writer/reader | `Parse/ASTLayout.cpp/.hpp` | writer: layout sequence, reduce markers. Reader: position, scope stack | `write`, `scopedWrite`, `markReduce`; `consume*` per node kind; `crawlCurrentScope`; `introduceScope` (sets the exported node) |
| Scopes and builder | `AST/ASTScope.cpp`, `Parse/BasicASTBuilder.cpp`, `AST/ASTCursor.cpp` | scope chain, builder mode stack, cursor depth | `introduce`, `lookup` with similarity hint, shadow rule, enter/leave modes |
| Parser, Sema, AST, diagnostics, frontend, tooling | the rest of `src/src/` | per-pass data | grammar-driven translation, sequential checks, printing |

### Interactions and hard behaviours

- **Reentrancy.** `CodegenInstance::codegen(function)` consumes the
  function's instantiations, which calls `CodeExecutor::instantiate`, then
  `codegen(MetaDecl)`, then `shipToJIT`, then `resolveDependencies`, which
  calls `resolveGlobal` and in turn `CodegenInstance::codegen(function)`
  again. State read before one of these calls (the shared `shipment_`, the
  unresolved set) is used after it.
- **Unordered iteration.** Both worklists are `unordered_set`s of pointers.
  Their order is unspecified and differs between runs.
- **Debug assertions.** Several invariants are only `assert`ed:
  - `setGlobalAsResolved` asserts the symbol is not yet resolved;
  - `cacheInstantiationOf` asserts the node is not yet cached;
  - `instantiate` asserts `!requiresCompleted`;
  - `pull` asserts it clones a defined function.

  A release build runs past a failed assertion.
- **Failure paths.**
  - Diagnosed errors (`canContinue()`) unwind every frame with an empty
    result.
  - JIT link errors and null dereferences end the process.

## 2. Modules

### `MetaInstantiation.tla`: CodegenInstance with CodeExecutor

**The program.** The program under compilation is an input, `prog`, chosen by
`Init` from `Programs`. It says:
- which functions each function's body references (`calls`);
- which instantiations a body contains (`finsts`);
- which functions the meta code (meta-if conditions, meta calculations) of
  each meta declaration calls (`mcalls`);
- which instantiations the walker visits in a meta declaration (`minsts`),
  and which sit in meta calculations inside meta-if branches (`binsts`);
- what each instantiation instantiates (`decl`), exports (`export`) and
  passes (`args`);
- which units the reader or Sema reject (`rejected`).

**Variables.** They are the fields of the two classes:
- `deps` is `dependencies_`;
- `avail` is `availableSymbols_`;
- `unresolved` is `unresolvedDependencies_`, a set of `<<"ast", f>>` and
  `<<"llvm", f>>` entries;
- `shipment` is the symbols defined in `shipment_`;
- `cache` is `instantiations_`;
- `errors` is `hasErrors()`.

The model adds these:
- `defined`: amalgamation functions with a body;
- `engine`: the modules added to the JIT, each a set of symbols;
- `emitted`: the modules the JIT has linked;
- `incomplete`: emitters MetaCodegen has not finished;
- `asserts`: assertions that failed;
- `outcome`: running, ok, failed, or how the process died.

**The call stack.** The C++ call stack is `stack`, a sequence of frames
`[proc, arg, pc, todo, rc, exec]`. This is the way procedures are translated
to TLA+. One action covers the code between two calls that can reenter:

| Action | Code |
|---|---|
| `CUNext`, `CUAfter`, `CUDone` | `CodegenInstance::codegen(CompilationUnit)` loop, any element first |
| `FnStart`, `FnConsume`, `FnGen` | `CodegenInstance::codegen(FunctionDecl)`: already generated, consume walk, body generation with its `lookupGlobal`s |
| `LookupCall`, `LookupExport` | `CodegenInstance::lookupGlobal(inst)` and `instantiate` (export check). With `exec`, also `CodeExecutor::lookupGlobal(inst)`, which records the export as unresolved |
| `InstStart`, `InstShip`, `InstInvoke` | `CodeExecutor::instantiate`: cache, `codegen(meta)`, jump pad and `shipToJIT`, `getFunctionAddress`, then the reader, Sema and `cacheInstantiationOf` |
| `MetaStart`, `MetaConsume`, `MetaBegin`, `MetaEmit`, `MetaEmitted` | `CodeExecutor::codegen(MetaDecl)` and `MetaCodegen`: the consume walk; marking resolved; each function or instantiation looked up by meta code, in any source order |
| `ShipAdd`, `ShipResolve`, `ShipPull` | `shipToJIT`, `resolveDependencies`, `pull` with the materializer |
| `Unwind` | every `if (!x) return {};` and `if (!canContinue()) return {};` |

The bookkeeping calls these actions share are helpers, each translating one
method:
- `LookupGlobal` is `CodegenInstance::lookupGlobal(function)`;
- `SetUnresolved` is the executor's `isGlobalResolved` / `setGlobalAsUnresolved`;
- `SetGlobalAsResolved` carries its assertion into both callers, `codegen(MetaDecl)` and `pull`;
- `Cached` and `CacheInstantiationOf` are the instantiation cache;
- `ResolveGlobal` is `CodegenInstance::resolveGlobal`.

**The JIT.** It is modelled the way `OrcMCJITReplacement` links.
`getFunctionAddress` emits the pad's module and every not-yet-emitted module
it needs, transitively. A symbol no added module defines is a fatal link
error (`LinkFails`).

**Failed assertions.** They are recorded in `asserts`, and the model goes on
as a release build would.

### `Instantiation.tla`: what instantiation promises

An abstract specification with four variables: the program (fixed),
`generated` (functions with a body), `cached` (instantiations evaluated to
a MetaUnit) and `status` (`running`, `ok`, `failed`, `crashed`). Its actions:
- `Instantiate(i)`: once per instantiation, and only for a unit that the
  reader and Sema accept;
- `Generate(f)`: only after every instantiation in `f` is evaluated, and
  for a function exported by a MetaUnit only after that unit is cached;
- `Succeed`: only when every function the unit reaches (`Needed`) has a
  body with its instantiations evaluated;
- `Fail`: only if some instantiation is rejected or exports nothing;
- `Crash`: at any time.

`MetaInstantiation` maps onto it (`Abs == INSTANCE Instantiation WITH ...`):
- `generated` is `defined`;
- `cached` is the set of non-empty cache slots;
- every death (`overflow`, `linkerror`, `nullderef`, `brokenir`) is
  `crashed`.

`ASafety` is the abstract safety specification, and `ASpec` adds weak
fairness of finishing. The `instantiation` run checks `Abs!ASafety` as
`ImplementsInstantiation`. It checks the liveness half, `AEnds`, in its
concrete form `Termination`: checking the fairness conjunct through the
mapping costs as much again as the rest of the run.

### `MCMetaInstantiation.tla`: program families

The family is small:
- the unit declares `main`, `f`, `g` and the meta declarations `m1`, `m2`;
- `main` instantiates `m1` (site `i1`, exporting `u1`);
- a second instantiation `i2` sits in `f`, `g` or `u1`, in a meta
  calculation of `m1`, or in a meta-if branch of `m1`;
- `i2` instantiates `m1` or `m2`, and exports `u2`, nothing, or a unit that is
  rejected;
- calls between the functions, and from meta code, vary over subsets.

Site `u1` puts an instantiation inside a template. Today Sema crashes on
such a program before code generation (the `frontend_crash` finding at
SemaAnalysis.cpp:127). The site is kept because the engine's code handles
it: it is what the engine meets once Sema skips templates.

`Acyclic` computes the compile-time dependency relation: a function needs its
instantiations, an instantiation needs its meta and every function the meta
code runs, transitively. `AcyclicPrograms` is the subset without a cycle, where
any crash is a defect. `CyclicPrograms` has `m1` instantiating itself.
`SameArgPrograms` has two sites of `m1<1>`.

### The front end: `AST`, `ASTScope`, `ASTLayout`, `MetaEmit`, `Sema`, `Frontend`

These modules model the path a program takes before and during
instantiation, as functions over trees and a reader record. `Frontend`
composes them into a state machine.

- **`AST.tla`.** The node kinds of `AST.inl` and the child shape of each
  class in `AST.hpp`: a fixed array of N children, or a variadic list. Also
  the class predicates of `ASTPredicate.hpp` (`IsA`, `RequiresReduceMarker`).
  A tree is a record `[k, n, c]`: kind, name (a short character sequence) and
  children.
- **`ASTScope.tla`.** The scope store of `ASTScope.cpp`, with these scopes:
  - temporary and consistent scopes (a map and an optional parent);
  - in-place scopes (forward to a wrapped scope and call a listener).

  Operations: `Insert`, `LookupIdentifier` and `similarTo`. `Levenshtein`
  is a RECURSIVE reference of `edit_distance`. `MyMostSimilar` returns the
  set of candidates any `unordered_map` iteration order can give.
- **`ASTLayout.tla`.**
  - The writer (`Write`): `LocalScopeVisitor` and `ASTLayoutWriter`, with
    reduce markers after nodes with variadic children.
  - The reader: each `consume*` method of `ASTLayout.cpp`, with the same
    calls in the same order:
    - `shiftAs` and `scopedShiftAs` (a failed `llvm::cast` is a crash);
    - `reduce` (an assert, recorded in `fails`);
    - the crawl of `introduceScope`, which sets the exported node and then
      introduces;
    - the scopes and modes of `BasicASTBuilder`;
    - `introduce` with the shadow rule, and lookup with the similarity note.

  The reader state `R` holds the layout, the position, the scope store, the
  mode stack, the nodes and what they resolve to, the diagnostics, and a
  crash flag. After a crash nothing more happens.
- **`MetaEmit.tla`.** The layout an instantiation writes: `MetaCodegen`'s
  `codegenMeta` per node kind and `NodeContributor`'s callbacks.
  - A meta calculation introduces the declarations its in-place scope
    exported, as a `DeclStmt` or a `GlobalConstantDecl` depending on the
    `ASTCursor` depth.
  - A meta if contributes the branch its condition selects.
  - A nested meta declaration is `llvm_unreachable`.
- **`Sema.tla`.** The error checks of `SemaAnalysis` on every node, templates
  included. The result is a set of diagnostics, plus `NullDeref` where the
  code dereferences a null pointer.
- **`Frontend.tla`.** The actions:
  - `Parse`: write, read, stop on reader diagnostics;
  - `SemaCU`;
  - `Instantiate(i, choice)`: `CodeExecutor::instantiate` plus the export
    check of `CodegenInstance::instantiate`, for any pending instantiation
    and any values of its meta-if conditions;
  - `Finish` and `Exited`.

  A reference lookup (`Walk`, `UnitDeclare`) states two-phase lexical
  scoping over the read trees, independently of the scope store. The
  properties compare the reader against it.
- **`MCFrontend.tla`.** Programs of a meta `k<int n>` and a function `m`:
  - nine contributions: a function; a meta calculation exporting a
    constant; a meta if (S3); an in-place local (S4); no export; `k`
    declared twice; a call back to `m`; a calculation kept local;
  - six uses: a call of `k<1>`, a use of the exported constant, two
    instantiations, an unknown name close to `ky` (S6), a non-literal
    argument, and a local initialised from `k<1>`.

  Four one-program families give the violation runs. `frontend_crash`
  checks three of them at once, and each one alone also violates `NoCrash`.

### `FunctionCodegen.tla`: lowering function bodies and emitters

`FunctionCodegen` translates `FunctionCodegen.cpp`. The IR is a record of
blocks (sequences of instructions, numbered in creation order), the
builder's insert point and a crash flag. The record also holds whether the
build keeps `assert`s, because `requiresNonNull` behaves differently in the
two builds. Each `codegenStmt` overload, `codegenIfStructure` (with
`lazyGetContinueBlock` as `LazyCont` and the false arm as `FalsePart`) and
`FunctionCodegen::codegen` is an operator from IR to IR plus the
`Nullable` block it returns (0 is nullptr). The operators are chained with
`With`, like the reader steps.

`MetaCodegen` lowers a meta declaration to its emitter with the same
builder, and the model handles it the same way. `CodegenMeta` covers the
`codegenMeta` overloads:
- a meta if goes through `codegenIfStructure`, whose arms use `CodegenArm`;
- a meta calculation becomes a `createRegionAfter` region that runs its
  statement with `CodegenStmt` and then calls `introduce`;
- any other node becomes a `contribute` call, its children, and a `reduce`
  call when the node is variadic.

`CodegenMetaDecl` is `MetaCodegen::codegen`: the introduce calls for the
parameters, the contribution, and `ret void` after `assert(current)`.

There are two actions:
- `Generate` is `CodegenInstance::codegen(FunctionDecl)` or
  `CodeExecutor::codegen(MetaDecl)`.
- `Optimize` is `optimizeFunction`. Its pass manager is built by
  `createFunctionPassManager`, which at the default `-O0`
  (`OptLevel::Debug`) adds no pass. `VerifyInput` only affects LLVM's LTO
  pipeline. So `Optimize` leaves the IR as generated, and nothing in the
  compiler checks it. An emitter never goes through `optimizeFunction`.

`Verifies` is not code of the compiler. It states the two `llvm::Verifier`
rules that lowering can break:
- every block ends in exactly one terminator;
- `ret` carries a value exactly when `getFunctionType` gave an `i32` result.

The properties use it to say which IR is valid.

**The dependency walker.** `ConsumeAll`, `ConsumeMeta` and `ConsumeAllMeta`
translate `InstConsumer` of `DependencyAnalysis.cpp` over the same trees.
`Children` is `children()`, and an if's false branch is optional. The
consumer never fails here, so the walk's order and early stop are left
out. Statements and contributed nodes carry the instantiations they hold
in a field `i`. `Generate` stores the walk's result (`Consumed`) in the
frame as `cached` before lowering. `LookupInsts` is
`codegenExpr(MetaInstantiationExpr)`: a lookup with `requiresCompleted`
finds the instantiation cached. Otherwise `CodeExecutor::instantiate`
asserts, and a release build instantiates it on the spot, which is recorded
in `late`.

**The value map.** `vals` in the IR is `values_`, the
`ScopedHashTable` from declarations to their allocas. It holds one set of
declarations per open `ValueMap::ScopeTy`. `FunctionCodegen::codegen`,
`MetaCodegen::codegen` and every `CompoundStmt` open a scope, and
`UnscopedCompoundStmt` and `IfStmt` do not. A `DeclStmt` is `introduce`d
into the innermost scope. After a meta calculation's statement,
`CodegenMeta` looks up each exported declaration (`LookupLocal`). A
missing one kills the compiler in both builds: the `lookupLocal` assert,
or `CreatePointerCast` of the null value. The set of missing declarations
is recorded in `missing`. The export list of a calculation is the layout
reader's (`ExportedDecls`): the declarations inserted into its in-place
scope, that is, those not under a `CompoundStmt` of its own.

An expression becomes one non-terminator instruction (`CodegenExpr`).
Reference definitions give the source-level meaning the properties compare
against:
- `ExecStmt` for the value a body returns;
- `WellFormed` for what a C compiler accepts;
- `Layout` for the callbacks the branches taken prescribe;
- `RunIR` and `RunTrace` for running the IR.

`MCFunctionCodegen` builds 610 bodies: every statement kind (among them an
expression statement instantiating `i1`), ifs with and without else nested
two deep in either arm, and statements after ifs and returns. Each is generated with and without a result type, and in debug and
release builds.

It also builds 1773 meta declarations with one parameter. Their items are:
- contributed nodes, including a variadic one with children and one whose
  runtime code instantiates `i3`;
- a meta calculation using the instantiation `i2`, at the top level and
  inside a contributed node;
- meta ifs with and without else;
- meta calculations whose statement declares an exported local (unscoped
  as in spec S4, or after an if that declares a local in its own
  compound), declares a local in a compound (not exported), is empty,
  returns, or returns a value under a condition.

Two shapes are left to `codegen_miscompile`: a `return;` under a condition
in a meta calculation, and a calculation using `i2` inside a meta-if branch
(`ArmCalcDecls`).

## 3. Runs

| Run | cfg | Expect | What it shows |
|---|---|---|---|
| `instantiation` | `MCMetaInstantiation.cfg` | pass | see the properties below; about 3.2M states, 3 minutes |
| `jumppad_linked` | `MCJumpPadLinked.cfg` | violation | **code bug**: fatal JIT link error on an acyclic program |
| `resolved_once` | `MCResolvedOnce.cfg` | violation | **code bug**: the same function is pulled twice |
| `effective_instantiations` | `MCEffectiveInsts.cfg` | violation | the walker skips meta-if branches (spec 4.6 says it includes them) |
| `instantiation_cycle` | `MCInstantiationCycle.cfg` | violation | no cycle diagnosis (spec 4.5): the recursion overflows the stack |
| `cache_by_value` | `MCCacheByValue.cfg` | violation | cache keyed by node, not by declaration and arguments (spec 8.4) |
| `missing_export` | `MCMissingExport.cfg` | violation | a missing export used from meta code is a null dereference, not a diagnostic (spec 8.5) |

| `frontend` | `MCFrontend.cfg` | pass | name resolution, diagnostics, round trip and export contract over 54 programs; 207 states, 2 s |
| `frontend_crash` | `MCFrontendCrash.cfg` | violation | **code bugs**, three programs, each crashing on its own: Sema dereferences the unresolved reference of an instantiation inside a meta template (SemaAnalysis.cpp:127); after diagnosing `m<1>` for a function it calls `getName()` on the null meta decl (SemaAnalysis.cpp:135); spec example S1 (`meta k<int n>{ int k = n; }`) is a redeclaration error and then `llvm_unreachable` in `consumeTopLevelDecl` |
| `forward_local` | `MCForwardLocal.cfg` | violation | a local used before its declaration in a function body is unknown; spec 8.3 permits it |

| `function_codegen` | `MCFunctionCodegen.cfg` | pass | lowering of 1220 functions (610 bodies) and 1773 meta declarations, and the walker run before it; 17301 states, 4 s |
| `codegen_miscompile` | `MCCodegenMiscompile.cfg` | violation | **code bugs**, four declarations Sema accepts, each failing `CompiledAsWritten` on its own: an `int` function that can fall off its end gets `ret void`, invalid IR that nothing checks at `-O0` (FunctionCodegen.cpp:55); a statement after an if whose arms both return asserts in `requiresNonNull` (FunctionCodegen.cpp:155); a `return` under a condition in a meta calculation returns from the emitter and drops the later contributions (MetaCodegen.cpp:113); the walker skips a meta-if branch (DependencyAnalysis.cpp:58), so a calculation there looks up an uninstantiated `i2` and a debug build asserts |

The passing run checks these properties:
- **ReferencesTracked.** While no error is diagnosed, every reference made by
  finished JIT code (shipped or pending) meets one of three conditions: the
  symbol is available, it is still in the unresolved set, or it is being
  generated by some `resolveDependencies` frame on the stack. This is the
  invariant the three-way bookkeeping of `lookupGlobal`, the materializer and
  the shipping loop must keep across nested shipments. It holds. The link
  error of `jumppad_linked` happens exactly in the third case, a reference in
  flight.
- **NoFailedResolution.** `resolveDependencies` never returns false in the
  middle of its loop (CodeExecutor.cpp:437). That path would leave entries
  in `unresolvedDependencies_` and a partly filled shipment behind. A
  function that the loop resolves can fail only through a nested
  instantiation. The nested instantiation ships the shared shipment, and
  that shipment still calls the function being resolved. So its jump pad
  dies of the link error of `jumppad_linked` before the nested unit can be
  diagnosed. The partial failure is masked by that bug, not excluded by
  design. A cached instantiation never fails there, because the cache is
  keyed by node and each node sits at one place.
- **Termination.** `<>(outcome # "running")`: each program ends, by success,
  error or crash, cyclic ones included (by stack overflow).
- **ImplementsInstantiation.** Every step of the reentrant
  instantiate / shipToJIT / codegen recursion is a step of the abstract
  `Instantiation` specification, or leaves its variables alone. In
  particular, no function body is generated before the instantiations it
  uses are cached. Exported unit functions are generated only after their
  unit is cached. A node is never cached for a rejected unit. Caching a
  node a second time would be an abstract stutter, so the refinement does
  not check that a node is cached only once. What prevents it is
  `instantiate`'s cache check on entry (CodeExecutor.cpp:296). A nested
  `instantiate` of the same node could only come from a cycle, and a cycle
  overflows the stack. That success means every reachable function is
  generated is the guard of the abstract `Succeed`, and it is checked as
  part of the refinement.
- **TypeOK.**

Each property has a mutant in `PROJECT.json` that breaks it:
- an unerased worklist entry breaks Termination;
- a missing `setGlobalAsUnresolved` breaks ReferencesTracked;
- `LinkFailsLazy`, a JIT that links only what the jump pad itself calls,
  lets a nested unit be diagnosed under the loop, which breaks
  NoFailedResolution;
- `FnGenEager` starts FunctionCodegen before the consume walk has finished.
  It generates a body whose instantiations are not yet cached, which breaks
  ImplementsInstantiation.

The `frontend` run checks these properties:
- **ScopeCorrect.** Every reference the reader resolved goes to the
  declaration two-phase lexical lookup makes visible, and every unresolved
  reference has none. This holds across the unit crawl, the temporary scopes
  of functions and blocks, the in-place scope of a meta calculation, and the
  parent scope of a `MetaUnit`.
- **RedeclarationDiagnosed.** `ErrorNameTypeDeclaredAlready` is reported
  for exactly the declarations that collide with a visible name. The
  exported node replacing its meta declaration is the one exception.
- **SuggestionClosest.** The `NoteDidYouMean` candidate is a visible
  declaration of least edit distance under the threshold, whatever the
  hash order. It is empty only when no name is close.
- **RoundTrip.** Writing each read unit gives back its layout (spec 8.1),
  and no reader or builder assertion fails.
- **ExportContract.** While code generation goes on, every `MetaUnit` has an
  exported node named like its meta, and that name finds it in the unit's
  scope. The node is a function (`ExportUsable`). `lookupGlobal(inst)`
  casts any other exported node to a `MetaInstantiationExpr`
  (CodegenInstance.cpp:145). The emitter writes a `GlobalConstantDecl` for
  every top-level local of a meta calculation. Only the redeclaration
  check made while the compilation unit is parsed stops such a local from
  bearing the meta's name.

Their mutants, in order:
- a consistent scope without its parent;
- the exported node set after it is introduced;
- a parent search restarting from the threshold;
- a reduce marker after every node with children;
- an outcome without the export check, and a shadow rule that lets any
  declaration shadow a meta declaration (it lets a constant be exported).

The `function_codegen` run checks these properties:
- **Verdict.** Every well-formed declaration finishes code generation, in
  debug and in release builds, with IR the LLVM verifier accepts. Well formed
  means no statement follows one that terminates, every return fits the
  declared result, and a function with a result returns on every path.
  Nothing in the compiler verifies the IR at `-O0`, so this is the only
  place where a broken branch structure would show. Declarations that are
  not well formed are the business of `codegen_miscompile`.
- **SameReturn.** For every outcome of the conditions, running the IR from
  the entry block returns the value that running the source returns. This
  covers ifs nested in either arm, the lazily created continue block and the
  implicit `ret void`.
- **LazyContinueBlock.** Every block except the entry block is the target
  of some branch. The continue block exists only when an arm falls through
  to it (spec 4.3).
- **EmitterFaithful.** For every outcome of the conditions, running an
  emitter whose meta calculations contain no return makes exactly the
  contribute, reduce and introduce calls of the meta-if branches taken, in
  order (spec S3). A meta calculation is a separate region; a runtime if
  inside it moves the following callbacks into its continue block.
- **InstantiatedBeforeUse.** Every instantiation the lowering looks up with
  `requiresCompleted` was instantiated by the consume walk first. The walker
  and the lowering are two separate traversals, and they must agree on
  every compound, if arm, meta calculation and contributed node.
- **WalkerOnlyMetaTime.** The walk of a meta declaration instantiates only
  what its meta calculations evaluate (`MetaTimeInsts`). It never
  instantiates the runtime code the emitter contributes, such as `i3`.
- **ExportedLocalsPresent.** Every declaration that the layout reader
  records as exported by a meta calculation is still in the value map when
  `codegenMeta` introduces it. The reader's in-place scope and the
  emitter's `ScopeTy`s are two separate scope disciplines, and they must
  end at the same statements.

The first three mutants change `CodegenIfStructure`, the fourth changes
`CodegenMeta`, the next two change the walker, and the last changes `CodegenStmt`. In order:
- a missing `CreateBr` after a true arm that falls through;
- swapped targets of the conditional branch;
- a continue block created even when the true arm returns;
- a node contributed after its children;
- `children()` without the false branch, which leaves `i1` in an else arm
  uncached;
- `consumeMeta` walking contributed code like a function body;
- an `UnscopedCompoundStmt` that opens a value-map scope
  (`CodegenStmtScopedUnscoped`), which drops spec S4's exported `x`.

### Traces worth reading

- `jumppad_linked`: `main` uses `m1<1>`; `m1`'s meta calculation calls `g`;
  `g` uses `m2<2>`. The steps are:
  1. Generating `m1` records `g` as unresolved.
  2. Shipping for `m1<1>` generates `g`, which instantiates `m2`.
  3. The nested ship adds the one shared `shipment_`, which holds `m1`, the
     `m1` pad, `m2` and the `m2` pad.
  4. Linking the `m2` pad needs `m1`'s call to `g`, which is in no module.

  If `dependencies_` happens to generate `g` before `main`, the program
  compiles. Spec 4.5 claims the shipment loop handles such dependencies.
- `resolved_once`: `m1`'s meta code calls `f` and `g`, and `f` calls `g`.
  Pulling `f` first makes the materializer add `g` as `llvm::Function`, while
  `g` is also pending as AST node. Both entries are pulled.

## 4. Bounds, fairness, abstractions

- **Program family.** Two meta declarations and two instantiations are enough
  for each interaction:
  - a meta calling a function that instantiates (link error);
  - one function pending under two keys (double pull);
  - an instantiation in a meta-if branch;
  - self-instantiation;
  - two equal sites.

  Adding a third instantiation multiplies the state space without adding a
  new kind of interaction.
- **`MaxDepth` = 14** frames stands for the C++ stack limit. The deepest
  acyclic program of the family needs fewer frames. Only the cyclic programs
  reach it, and they would recurse forever.
- **Fairness.** `WF_vars(Next)`. The compiler is a single thread that always
  takes its next step, so weak fairness of the whole next-state relation is
  exactly what the code guarantees. `Terminated` stutters after the end, so a
  deadlock TLC reports is a real stuck state.
- **Abstractions.**
  - Functions, metas, pads and instantiations are names; mangling is not
    modelled.
  - IR lowering is reduced to the set of symbols the code references.
  - The reader and Sema are reduced to accept or reject (`rejected`).
- **A branch left out.** The check in `codegen(MetaDecl)` for a meta resolved
  during its own consume walk (CodeExecutor.cpp:485) is not an action. Only
  that function resolves a meta, and re-entering it for the same meta never
  returns.

- **Front-end family.** One meta declaration and one user function are
  enough for every scoping situation the reader distinguishes:
  - unit-level forward references;
  - function, block and in-place scopes;
  - the meta unit's parent scope;
  - the shadow rule;
  - the similarity search over two scope levels.

  Names of one to three characters make edit distances 1 and 2 occur.
  Meta-if conditions are free choices, so both branches are explored.
- **Meta bodies.** Two contributions, one level of meta-if and one nesting
  of a node are enough. A callback can then follow a meta if, a region, or a
  region's continue block, and each of them can be inside a contributed
  node whose reduce marker comes after them.
- **Function bodies.** Two levels of if nesting are enough for an arm's
  branch to the continue block to be emitted from a nested continue block,
  and for a false block to be created after a continue block exists. Two
  conditions and two return values let a swapped or misdirected branch
  change the returned value. There is a single pass to the end, so no
  fairness is needed. Deadlock is not checked, because the compiler stops
  after `optimizeFunction`.
- **Coverage profiling.** Reader steps are chained with
  `With(v, LAMBDA R1 : ...)` and actions bind with `\E x \in {e}`. This
  keeps TLC's coverage cost tree linear. Repeated references to a LET
  definition would each expand it.

## 5. Not modelled (yet) and why

- The ANTLR grammar and lexer are generated code; programs are given as
  parse trees. Diagnostics rendering, frontend options and the dumpers are
  pure I/O. Sema's `WarningDidYouMeanEquals` is a warning that does not
  change control and binary operators are not told apart.
- `Frontend` lets any pending instantiation go next and does not model the
  JIT; `MetaInstantiation` models that order. The two are not composed.
  `MetaInstantiation` takes what each unit's layout yields, its export and
  whether the reader or Sema rejects it, as the input `prog`. Running the
  reader inside every `InstInvoke` would multiply a state space that already
  takes about two minutes to check.
- Name mangling (`NameMangeling.cpp`) is a pure string function. Its one
  property is that distinct symbols get distinct names. That holds because
  identifiers and printed pointers never contain the `@` separator. The
  models name every symbol by its AST node, which is what mangling by node
  pointer achieves.
- The body of the jump pad (`codegenJumpPad`) is straight-line code: an
  entry block, one call with the context and the literal arguments, and
  `ret void`. Its argument count matches the meta function's type through
  Sema's arity check. `MetaInstantiation` keeps the pad's one effect that
  matters, its reference to the meta function (`CodeRefs`).

## 6. Plan for the following steps

1. Check the fairness half of the refinement (`Abs!ASpec`) directly, once
   the family or the run time allows.
2. If the link error of `jumppad_linked` is fixed, the partial failure
   of `resolveDependencies` becomes reachable (see NoFailedResolution).
   What its leftovers do then needs checking against the fixed design.
   A nested instantiate of the node that an outer instantiate is working on
   cannot finish first: only a cycle can reach it, and a cycle never
   returns. So the `cacheInstantiationOf` assert is not listed as a hazard.
3. The dominance of an exported
   alloca over its `introduce` call. That would matter only if the
   grammar (not in the repository) lets an if arm be a bare declaration.
