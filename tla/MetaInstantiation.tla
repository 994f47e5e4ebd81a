-------------------------- MODULE MetaInstantiation --------------------------
(***************************************************************************)
(* The meta-instantiation engine of the compiler: CodegenInstance, which   *)
(* generates the amalgamation module, and CodeExecutor, which generates    *)
(* meta declarations into a JIT shipment, resolves their dependencies by   *)
(* pulling amalgamation functions, ships the module to the JIT and invokes *)
(* a jump pad.  The two call each other reentrantly on one thread, so the  *)
(* model keeps an explicit call stack of frames; each action is one piece  *)
(* of a C++ function between two such calls.                               *)
(*                                                                         *)
(* The program under compilation is the input prog, chosen by Init:        *)
(*   calls[f]   functions referenced by the body of function f             *)
(*   finsts[f]  meta instantiations in the body of function f              *)
(*   mcalls[m]  functions called by meta-if conditions and meta            *)
(*              calculations of meta declaration m                         *)
(*   minsts[m]  instantiations the dependency walker visits in m           *)
(*   binsts[m]  instantiations in meta calculations inside meta-if         *)
(*              branches of m, which the walker does not visit             *)
(*   decl[i]    the meta declaration instantiated by i                     *)
(*   export[i]  the function the MetaUnit of i exports, or NoExport        *)
(*   args[i]    the argument values of i                                   *)
(*   rejected   instantiations whose MetaUnit the reader or Sema rejects   *)
(* Symbols of the JIT are functions, meta declarations and jump pads; the  *)
(* jump pad of instantiation i is named by i itself.                       *)
(***************************************************************************)
EXTENDS Naturals, Sequences, FiniteSets

CONSTANTS
    CUFuncs,     \* functions declared in the compilation unit
    UnitFuncs,   \* functions exported from MetaUnits
    Metas,       \* meta declarations
    Insts,       \* meta instantiation expressions (AST nodes)
    NoExport,    \* export[i] when the MetaUnit exports no function
    None,        \* an empty cache slot or frame argument
    Programs,    \* the programs Init may choose
    MaxDepth     \* frames on the C++ stack before it overflows

Funcs == CUFuncs \cup UnitFuncs
Symbols == Funcs \cup Metas \cup Insts

VARIABLES
    prog,        \* the program under compilation
    stack,       \* call stack, top frame first
    ret,         \* value returned by the last frame popped
    deps,        \* CodegenInstance::dependencies_
    defined,     \* amalgamation functions that have a body
    avail,       \* CodeExecutor::availableSymbols_
    unresolved,  \* CodeExecutor::unresolvedDependencies_
    shipment,    \* symbols defined in CodeExecutor::shipment_
    engine,      \* modules added to the JIT, each a set of symbols
    emitted,     \* modules the JIT has linked and emitted
    incomplete,  \* meta functions whose MetaCodegen has not finished
    cache,       \* CodeExecutor::instantiations_: node -> unit's node
    errors,      \* DiagnosticEngine::hasErrors()
    asserts,     \* assert()s that failed (a release build runs on)
    outcome      \* "running", "ok", "failed" or how the process died

vars == <<prog, stack, ret, deps, defined, avail, unresolved, shipment,
          engine, emitted, incomplete, cache, errors, asserts, outcome>>

-----------------------------------------------------------------------------
(* References of generated code.                                          *)

\* Callees of the amalgamation function f: FunctionCodegen looks up every
\* referenced function and the export of every instantiation in the body.
Refs(f) == (prog.calls[f] \cup {prog.export[i] : i \in prog.finsts[f]})
             \ {NoExport}

\* Callees of the meta function of m generated by MetaCodegen.
EmitRefs(m) == (prog.mcalls[m]
                \cup {prog.export[i] : i \in prog.minsts[m] \cup prog.binsts[m]})
                \ {NoExport}

\* Symbols referenced by the JIT code of symbol s; a jump pad calls its meta.
CodeRefs(s) == IF s \in Funcs THEN Refs(s)
               ELSE IF s \in Metas THEN EmitRefs(s)
               ELSE {prog.decl[s]}

ModRefs(M) == UNION {CodeRefs(s) : s \in M}

\* Engine modules not emitted yet that the JIT must emit to link S.
RECURSIVE LinkSet(_)
LinkSet(S) ==
    LET T == S \cup {N \in engine \ emitted :
                       \E r \in ModRefs(UNION S) : r \in N}
    IN IF T = S THEN S ELSE LinkSet(T)

\* getFunctionAddress of jump pad i emits its module and every module that
\* module needs; a symbol no engine module defines is a fatal link error.
PadLinkSet(i) == LinkSet({M \in engine \ emitted : i \in M})
\* Mutation: linking resolves only what the jump pad itself calls, as a
\* lazily compiling JIT would, not the rest of the modules it needs.
LinkFailsLazy(i) == \E r \in CodeRefs(i) : \A M \in engine : r \notin M
LinkFails(i) == \E r \in ModRefs(UNION PadLinkSet(i)) :
                    \A M \in engine : r \notin M

-----------------------------------------------------------------------------
(* Frames of the call stack.                                              *)

Procs == {"cu", "fn", "lookup", "inst", "meta", "ship"}
PCs == {"loop", "after", "start", "consume", "call", "export", "meta",
        "invoke", "emit", "emitted", "pull"}

Frame(p, a, l) == [proc |-> p, arg |-> a, pc |-> l, todo |-> {},
                   rc |-> FALSE, exec |-> FALSE]
FnFrame(f) == Frame("fn", f, "start")
InstFrame(i, rc) == [Frame("inst", i, "start") EXCEPT !.rc = rc]
LookupFrame(i, rc, exec) ==
    [Frame("lookup", i, "call") EXCEPT !.rc = rc, !.exec = exec]
MetaFrame(m) == Frame("meta", m, "start")
ShipFrame == Frame("ship", None, "loop")

Top == stack[1]

\* Replace the top frame by caller and push callee; beyond MaxDepth frames
\* the unbounded recursion has overflowed the C++ stack.
Call(caller, callee) ==
    \/ /\ Len(stack) < MaxDepth
       /\ stack' = <<callee, caller>> \o Tail(stack)
       /\ UNCHANGED outcome
    \/ /\ Len(stack) = MaxDepth
       /\ outcome' = "overflow"
       /\ UNCHANGED stack

Goto(l) == stack' = [stack EXCEPT ![1].pc = l]

Return(v) == stack' = Tail(stack) /\ ret' = v

Dies(how) == outcome' = how /\ UNCHANGED <<stack, ret>>

Check(name, cond) == asserts' = IF cond THEN asserts ELSE asserts \cup {name}

-----------------------------------------------------------------------------
(* The bookkeeping calls of CodegenInstance and CodeExecutor.              *)

\* CodegenInstance::lookupGlobal(function) for the functions G: a function
\* that is still a mere declaration goes into dependencies_.
LookupGlobal(G) == deps' = deps \cup {g \in G : g \notin defined}

\* The executor's isGlobalResolved / setGlobalAsUnresolved: a function of G
\* not available in the JIT is recorded as unresolved, by its AST node
\* ("ast") or by its llvm::Function ("llvm").
SetUnresolved(kind, G) == unresolved \cup {<<kind, g>> : g \in G \ avail}

\* setGlobalAsResolved asserts that the symbol is not available yet.
SetGlobalAsResolved(s) ==
    /\ Check("resolvedOnce", s \notin avail)
    /\ avail' = avail \cup {s}

\* getCachedInstantiationOf finds a unit for the node.
Cached(i) == cache[i] # None

\* cacheInstantiationOf asserts that the node has no unit yet.
CacheInstantiationOf(i) ==
    /\ Check("cacheOnce", ~Cached(i))
    /\ cache' = [cache EXCEPT ![i] = i]

\* CodegenInstance::resolveGlobal of an unresolved entry: an llvm::Function
\* goes back to its FunctionDecl through functionSource_, and both resolve
\* to codegen of the function.
ResolveGlobal(u) == FnFrame(u[2])

-----------------------------------------------------------------------------
Init ==
    /\ prog \in Programs
    /\ stack = <<Frame("cu", None, "loop")>>
    /\ ret = TRUE
    \* codegen(CompilationUnit) inserts every top-level declaration
    /\ deps = CUFuncs \cup Metas
    /\ defined = {}
    /\ avail = {}
    /\ unresolved = {}
    /\ shipment = {}
    /\ engine = {}
    /\ emitted = {}
    /\ incomplete = {}
    /\ cache = [i \in Insts |-> None]
    /\ errors = FALSE
    /\ asserts = {}
    /\ outcome = "running"

-----------------------------------------------------------------------------
(* CodegenInstance::codegen(CompilationUnit): pop any dependency in the   *)
(* unspecified order of the unordered_set and generate it.                *)

CUNext ==
    /\ Top.proc = "cu" /\ Top.pc = "loop"
    /\ \E d \in deps :
         /\ deps' = deps \ {d}
         /\ \/ /\ d \in Funcs
               /\ Call([Top EXCEPT !.pc = "after"], FnFrame(d))
               /\ UNCHANGED ret
            \/ /\ d \in Metas     \* codegen of a top-level meta decl: a no-op
               /\ UNCHANGED <<stack, ret, outcome>>
    /\ UNCHANGED <<prog, defined, avail, unresolved, shipment, engine,
                   emitted, incomplete, cache, errors, asserts>>

CUAfter ==
    /\ Top.proc = "cu" /\ Top.pc = "after"
    /\ \/ ret /\ Goto("loop") /\ UNCHANGED outcome
       \/ ~ret /\ outcome' = "failed" /\ stack' = <<>>
    /\ UNCHANGED <<prog, ret, deps, defined, avail, unresolved, shipment,
                   engine, emitted, incomplete, cache, errors, asserts>>

CUDone ==
    /\ Top.proc = "cu" /\ Top.pc = "loop"
    /\ deps = {}
    /\ outcome' = "ok" /\ stack' = <<>>
    /\ UNCHANGED <<prog, ret, deps, defined, avail, unresolved, shipment,
                   engine, emitted, incomplete, cache, errors, asserts>>

-----------------------------------------------------------------------------
(* CodegenInstance::codegen(FunctionDecl).                                *)

\* lookupGlobal(f) inserts a mere prototype into dependencies_; an already
\* generated function returns at once.
FnStart ==
    /\ Top.proc = "fn" /\ Top.pc = "start"
    /\ \/ /\ Top.arg \in defined
          /\ Return(TRUE)
          /\ UNCHANGED deps
       \/ /\ Top.arg \notin defined
          /\ LookupGlobal({Top.arg})
          /\ stack' = [stack EXCEPT ![1].pc = "consume",
                                    ![1].todo = prog.finsts[Top.arg]]
          /\ UNCHANGED ret
    /\ UNCHANGED <<prog, defined, avail, unresolved, shipment, engine,
                   emitted, incomplete, cache, errors, asserts, outcome>>

\* consumeMetaInstantiationsOf(node, lookupGlobal(inst)): the walk stops at
\* the first instantiation that fails, which has diagnosed an error.
FnConsume ==
    /\ Top.proc = "fn" /\ Top.pc = "consume"
    /\ ~errors
    /\ \E i \in Top.todo :
         Call([Top EXCEPT !.todo = @ \ {i}], LookupFrame(i, FALSE, FALSE))
    /\ UNCHANGED <<prog, ret, deps, defined, avail, unresolved, shipment,
                   engine, emitted, incomplete, cache, errors, asserts>>

\* canContinue(), then FunctionCodegen: it looks up every callee (a
\* declaration goes into dependencies_) and every instantiation with
\* requiresCompleted, which must hit the cache.
\* Mutant: code generation starts before the consume walk has finished.
FnGenEager ==
    /\ Top.proc = "fn" /\ Top.pc = "consume"
    /\ ~errors
    /\ Check("requiresCompleted",
              \A i \in prog.finsts[Top.arg] : Cached(i))
    /\ LookupGlobal(Refs(Top.arg))
    /\ defined' = defined \cup {Top.arg}
    /\ Return(TRUE)
    /\ UNCHANGED <<prog, avail, unresolved, shipment, engine, emitted,
                   incomplete, cache, errors, outcome>>

FnGen ==
    /\ Top.proc = "fn" /\ Top.pc = "consume"
    /\ ~errors /\ Top.todo = {}
    /\ Check("requiresCompleted",
              \A i \in prog.finsts[Top.arg] : Cached(i))
    /\ LookupGlobal(Refs(Top.arg))
    /\ defined' = defined \cup {Top.arg}
    /\ Return(TRUE)
    /\ UNCHANGED <<prog, avail, unresolved, shipment, engine, emitted,
                   incomplete, cache, errors, outcome>>

-----------------------------------------------------------------------------
(* CodegenInstance::lookupGlobal(inst) via CodegenInstance::instantiate,  *)
(* and with exec the CodeExecutor::lookupGlobal(inst, requiresCompleted)  *)
(* that MetaCodegen reaches through CodegenBase.                          *)

LookupCall ==
    /\ Top.proc = "lookup" /\ Top.pc = "call"
    /\ Call([Top EXCEPT !.pc = "export"], InstFrame(Top.arg, Top.rc))
    /\ UNCHANGED <<prog, ret, deps, defined, avail, unresolved, shipment,
                   engine, emitted, incomplete, cache, errors, asserts>>

\* A unit without an exported node is ErrorInstantiationNoExport; an
\* exported function is looked up in the amalgamation and, from the
\* executor, recorded as unresolved unless it is available already.
\* Mutant: CodeExecutor::lookupGlobal(inst) forgets setGlobalAsUnresolved.
LookupExportUntracked ==
    /\ Top.proc = "lookup" /\ Top.pc = "export"
    /\ LET e == prog.export[Top.arg] IN
       \/ /\ ret /\ e = NoExport
          /\ errors' = TRUE
          /\ Return(FALSE)
          /\ UNCHANGED deps
       \/ /\ ret /\ e # NoExport
          /\ LookupGlobal({e})
          /\ Return(TRUE)
          /\ UNCHANGED errors
    /\ UNCHANGED <<prog, defined, avail, unresolved, shipment, engine,
                   emitted, incomplete, cache, asserts, outcome>>

LookupExport ==
    /\ Top.proc = "lookup" /\ Top.pc = "export"
    /\ LET e == prog.export[Top.arg] IN
       \/ /\ ret /\ e = NoExport
          /\ errors' = TRUE
          /\ Return(FALSE)
          /\ UNCHANGED <<deps, unresolved>>
       \/ /\ ret /\ e # NoExport
          /\ LookupGlobal({e})
          /\ unresolved' = IF Top.exec THEN SetUnresolved("llvm", {e})
                                       ELSE unresolved
          /\ Return(TRUE)
          /\ UNCHANGED errors
    /\ UNCHANGED <<prog, defined, avail, shipment, engine, emitted,
                   incomplete, cache, asserts, outcome>>

-----------------------------------------------------------------------------
(* CodeExecutor::instantiate: the cache, codegen of the meta declaration, *)
(* the jump pad, shipToJIT, invocation of the pad and caching the unit.   *)

InstStart ==
    /\ Top.proc = "inst" /\ Top.pc = "start"
    /\ \/ /\ Cached(Top.arg)
          /\ Return(TRUE)
          /\ UNCHANGED <<asserts, outcome>>
       \/ /\ ~Cached(Top.arg)
          /\ Check("requiresCompleted", ~Top.rc)
          /\ Call([Top EXCEPT !.pc = "meta"], MetaFrame(prog.decl[Top.arg]))
          /\ UNCHANGED ret
    /\ UNCHANGED <<prog, deps, defined, avail, unresolved, shipment, engine,
                   emitted, incomplete, cache, errors>>

\* createJumpPadTo writes the pad into the shipment, then shipToJIT.
InstShip ==
    /\ Top.proc = "inst" /\ Top.pc = "meta"
    /\ ret
    /\ shipment' = shipment \cup {Top.arg}
    /\ Call([Top EXCEPT !.pc = "invoke"], ShipFrame)
    /\ UNCHANGED ret
    /\ UNCHANGED <<prog, deps, defined, avail, unresolved, engine, emitted,
                   incomplete, cache, errors, asserts>>

\* getFunctionAddress links the pad; the contributor builds the MetaUnit,
\* which is read, analysed and stored by cacheInstantiationOf.
InstInvoke ==
    /\ Top.proc = "inst" /\ Top.pc = "invoke"
    /\ ret
    /\ \/ /\ LinkFails(Top.arg)
          /\ Dies("linkerror")
          /\ UNCHANGED <<emitted, cache, errors, asserts>>
       \/ /\ ~LinkFails(Top.arg)
          /\ emitted' = emitted \cup PadLinkSet(Top.arg)
          /\ UNCHANGED outcome
          /\ \/ /\ Top.arg \in prog.rejected   \* reader or Sema diagnose
                /\ errors' = TRUE
                /\ Return(FALSE)
                /\ UNCHANGED <<cache, asserts>>
             \/ /\ Top.arg \notin prog.rejected
                /\ CacheInstantiationOf(Top.arg)
                /\ Return(TRUE)
                /\ UNCHANGED errors
    /\ UNCHANGED <<prog, deps, defined, avail, unresolved, shipment, engine,
                   incomplete>>

-----------------------------------------------------------------------------
(* CodeExecutor::codegen(MetaDeclASTNode) and MetaCodegen::codegen.       *)

MetaStart ==
    /\ Top.proc = "meta" /\ Top.pc = "start"
    /\ \/ /\ Top.arg \in avail
          /\ Return(TRUE)
       \/ /\ Top.arg \notin avail
          /\ stack' = [stack EXCEPT ![1].pc = "consume",
                                    ![1].todo = prog.minsts[Top.arg]]
          /\ UNCHANGED ret
    /\ UNCHANGED <<prog, deps, defined, avail, unresolved, shipment, engine,
                   emitted, incomplete, cache, errors, asserts, outcome>>

\* consumeMetaInstantiationsOf(node, instantiate) calls the executor's own
\* instantiate, without the export check of CodegenInstance.
MetaConsume ==
    /\ Top.proc = "meta" /\ Top.pc = "consume"
    /\ ~errors
    /\ \E i \in Top.todo :
         Call([Top EXCEPT !.todo = @ \ {i}], InstFrame(i, FALSE))
    /\ UNCHANGED <<prog, ret, deps, defined, avail, unresolved, shipment,
                   engine, emitted, incomplete, cache, errors, asserts>>

\* canContinue(); the prototype is created and the meta function marked
\* resolved, and MetaCodegen starts writing its body into the shipment.
\* The check whether it got resolved during the consume walk cannot hold:
\* only this step resolves a meta declaration, and a nested codegen of the
\* same declaration walks the same instantiations again and never returns.
MetaBegin ==
    /\ Top.proc = "meta" /\ Top.pc = "consume"
    /\ ~errors /\ Top.todo = {}
    /\ SetGlobalAsResolved(Top.arg)
    /\ shipment' = shipment \cup {Top.arg}
    /\ incomplete' = incomplete \cup {Top.arg}
    /\ LET m == Top.arg IN
       stack' = [stack EXCEPT ![1].pc = "emit",
                   ![1].todo = prog.mcalls[m] \cup prog.minsts[m]
                                 \cup prog.binsts[m]]
    /\ UNCHANGED ret
    /\ UNCHANGED <<prog, deps, defined, unresolved, engine, emitted, cache,
                   errors, outcome>>

\* MetaCodegen reaches the references of meta-if conditions and meta
\* calculations in source order: a function through lookupGlobal(function),
\* an instantiation through lookupGlobal(inst, true).
MetaEmit ==
    /\ Top.proc = "meta" /\ Top.pc = "emit"
    /\ \/ \E g \in Top.todo \cap Funcs :
            /\ unresolved' = SetUnresolved("ast", {g})
            /\ stack' = [stack EXCEPT ![1].todo = @ \ {g}]
            /\ UNCHANGED <<ret, incomplete, outcome>>
       \/ \E i \in Top.todo \cap Insts :
            /\ Call([Top EXCEPT !.todo = @ \ {i}, !.pc = "emitted"],
                    LookupFrame(i, TRUE, TRUE))
            /\ UNCHANGED <<ret, unresolved, incomplete>>
       \/ /\ Top.todo = {}
          /\ incomplete' = incomplete \ {Top.arg}
          /\ Return(TRUE)
          /\ UNCHANGED <<unresolved, outcome>>
    /\ UNCHANGED <<prog, deps, defined, avail, shipment, engine, emitted,
                   cache, errors, asserts>>

\* FunctionCodegen dereferences the looked-up instantiation (*global): an
\* empty result is a null dereference.
MetaEmitted ==
    /\ Top.proc = "meta" /\ Top.pc = "emitted"
    /\ \/ ret /\ Goto("emit") /\ UNCHANGED <<ret, outcome>>
       \/ ~ret /\ Dies("nullderef")
    /\ UNCHANGED <<prog, deps, defined, avail, unresolved, shipment, engine,
                   emitted, incomplete, cache, errors, asserts>>

-----------------------------------------------------------------------------
(* CodeExecutor::shipToJIT and resolveDependencies with pull.             *)

\* Nothing unresolved: the shipment is added to the JIT.  A meta function
\* whose body is still being written has an unterminated block, which the
\* JIT's code generator is not made for: whether an LLVM verifier rejects
\* the module fatally or code generation runs into the open block, the
\* compiler cannot go on, and the run ends there.
ShipAdd ==
    /\ Top.proc = "ship" /\ Top.pc = "loop"
    /\ unresolved = {}
    /\ \/ /\ shipment \cap incomplete = {}
          /\ engine' = engine \cup {shipment}
          /\ shipment' = {}
          /\ Return(TRUE)
          /\ UNCHANGED outcome
       \/ /\ shipment \cap incomplete # {}
          /\ Dies("brokenir")
          /\ UNCHANGED <<engine, shipment>>
    /\ UNCHANGED <<prog, deps, defined, avail, unresolved, emitted,
                   incomplete, cache, errors, asserts>>

\* Take any unresolved entry, erase it and resolveGlobal it, which for an
\* AST node and for an llvm::Function alike is codegen of the function.
\* Mutant: the entry taken from the unresolved set is not erased.
ShipResolveUnerased ==
    /\ Top.proc = "ship" /\ Top.pc = "loop"
    /\ \E u \in unresolved :
         Call([Top EXCEPT !.pc = "pull", !.arg = u[2]], ResolveGlobal(u))
    /\ UNCHANGED <<prog, ret, deps, defined, avail, unresolved, shipment,
                   engine, emitted, incomplete, cache, errors, asserts>>

\* Mutant: the PointerUnion entry itself is pulled instead of the function
\* it resolved to.
ShipResolveEntry ==
    /\ Top.proc = "ship" /\ Top.pc = "loop"
    /\ \E u \in unresolved :
         /\ unresolved' = unresolved \ {u}
         /\ Call([Top EXCEPT !.pc = "pull", !.arg = u], ResolveGlobal(u))
    /\ UNCHANGED <<prog, ret, deps, defined, avail, shipment, engine,
                   emitted, incomplete, cache, errors, asserts>>

ShipResolve ==
    /\ Top.proc = "ship" /\ Top.pc = "loop"
    /\ \E u \in unresolved :
         /\ unresolved' = unresolved \ {u}
         /\ Call([Top EXCEPT !.pc = "pull", !.arg = u[2]], ResolveGlobal(u))
    /\ UNCHANGED <<prog, ret, deps, defined, avail, shipment, engine,
                   emitted, incomplete, cache, errors, asserts>>

\* pull: setGlobalAsResolved, then the materializer records every callee
\* that is not resolved yet and the body is cloned into the shipment.
ShipPull ==
    /\ Top.proc = "ship" /\ Top.pc = "pull"
    /\ ret
    /\ SetGlobalAsResolved(Top.arg)
    /\ shipment' = shipment \cup {Top.arg}
    /\ unresolved' = unresolved \cup
                       {<<"llvm", g>> : g \in Refs(Top.arg) \ avail'}
    /\ Goto("loop")
    /\ UNCHANGED ret
    /\ UNCHANGED <<prog, deps, defined, engine, emitted, incomplete, cache,
                   errors, outcome>>

-----------------------------------------------------------------------------
\* if (!callee) return {}; after an instantiation, a meta function, a
\* shipment or a resolved dependency that failed, and if (!canContinue())
\* return {}; after a consume walk that diagnosed an error.
Unwind ==
    /\ \/ Top.pc \in {"export", "meta", "invoke", "pull"} /\ ~ret
       \/ Top.pc = "consume" /\ errors
    /\ Return(FALSE)
    /\ UNCHANGED <<prog, deps, defined, avail, unresolved, shipment, engine,
                   emitted, incomplete, cache, errors, asserts, outcome>>

-----------------------------------------------------------------------------
\* The compiler stops: compilation finished or the process died.
Terminated ==
    /\ outcome # "running"
    /\ UNCHANGED vars

Step ==
    \/ CUNext \/ CUAfter \/ CUDone
    \/ FnStart \/ FnConsume \/ FnGen
    \/ LookupCall \/ LookupExport
    \/ InstStart \/ InstShip \/ InstInvoke
    \/ MetaStart \/ MetaConsume \/ MetaBegin \/ MetaEmit \/ MetaEmitted
    \/ ShipAdd \/ ShipResolve \/ ShipPull
    \/ Unwind

Next == (outcome = "running" /\ Step) \/ Terminated

\* One thread runs the compiler; it always takes its next step.
Spec == Init /\ [][Next]_vars /\ WF_vars(Next)

-----------------------------------------------------------------------------
(* Properties.                                                            *)

Outcomes == {"running", "ok", "failed", "overflow", "linkerror",
             "brokenir", "nullderef"}
Frames == [proc : Procs, arg : Symbols \cup {None}, pc : PCs,
           todo : SUBSET (Funcs \cup Insts), rc : BOOLEAN, exec : BOOLEAN]

TypeOK ==
    /\ stack \in Seq(Frames) /\ Len(stack) <= MaxDepth
    /\ ret \in BOOLEAN
    /\ deps \subseteq Funcs \cup Metas
    /\ defined \subseteq Funcs
    /\ avail \subseteq Funcs \cup Metas
    /\ unresolved \subseteq {"ast", "llvm"} \X Funcs
    /\ shipment \subseteq Symbols
    /\ engine \subseteq SUBSET Symbols /\ emitted \subseteq engine
    /\ incomplete \subseteq Metas
    /\ cache \in [Insts -> Insts \cup {None}]
    /\ errors \in BOOLEAN
    /\ asserts \subseteq {"requiresCompleted", "cacheOnce", "resolvedOnce"}
    /\ outcome \in Outcomes

\* The functions a resolveDependencies loop has erased from the unresolved
\* set and is generating before it pulls them.
InFlight == {stack[k].arg : k \in {k \in 1 .. Len(stack) :
                                    stack[k].proc = "ship"
                                    /\ stack[k].pc = "pull"}}

\* The bookkeeping of availableSymbols_ and unresolvedDependencies_: while
\* no error is diagnosed, every symbol that finished JIT code (shipped or
\* pending) calls is available, still unresolved, or being generated by a
\* resolveDependencies loop.  lookupGlobal, the pull materializer and the
\* shipping loop must all keep this, across nested shipments.
ReferencesTracked ==
    ~errors =>
      \A s \in (shipment \cup UNION engine) \ incomplete :
        \A r \in CodeRefs(s) :
          r \in avail \/ r \in {u[2] : u \in unresolved} \/ r \in InFlight

\* Compilation ends: the reentrant recursion of instantiate, shipToJIT and
\* codegen reaches no endless loop.
Termination == <>(outcome # "running")

\* Invoking a jump pad never hits a symbol the JIT cannot resolve.
JumpPadLinked == outcome # "linkerror"

\* setGlobalAsResolved asserts that pull never resolves a symbol twice.
ResolvedOnce == "resolvedOnce" \notin asserts

\* CodeExecutor::instantiate asserts that MetaCodegen only looks up
\* instantiations that the dependency walker instantiated before.
EffectiveInstantiationsConsumed == "requiresCompleted" \notin asserts

\* resolveDependencies never returns false in the middle of its loop
\* (CodeExecutor.cpp:437, leaving entries in unresolvedDependencies_ and a
\* partly filled shipment_): a function it resolves can fail only through
\* a nested instantiation, and that one ships the shared shipment, which
\* still calls the function being resolved, so the jump pad dies of a
\* link error before the nested unit is diagnosed.
NoFailedResolution ==
    stack # <<>> /\ Top.proc = "ship" /\ Top.pc = "pull" => ret

\* Spec: an instantiation whose unit exports nothing is diagnosed as
\* ErrorInstantiationNoExport, also when meta code uses it.
MissingExportDiagnosed == outcome # "nullderef"

\* Spec: a meta instantiation that is reached again while it is being
\* instantiated is diagnosed as a cycle, so no node is instantiated by two
\* frames at once.
NoReentrantInstantiation ==
    \A j, k \in 1 .. Len(stack) :
      /\ j < k /\ stack[j].proc = "inst" /\ stack[k].proc = "inst"
      => stack[j].arg # stack[k].arg

\* Spec: instantiations of the same declaration with the same arguments
\* yield the same cached MetaUnit.
CacheByValue ==
    \A i, j \in Insts :
      /\ cache[i] # None /\ cache[j] # None
      /\ prog.decl[i] = prog.decl[j] /\ prog.args[i] = prog.args[j]
      => cache[i] = cache[j]

-----------------------------------------------------------------------------
(* Refinement: the detailed engine implements the abstract Instantiation  *)
(* specification.  A cache slot that holds a unit is an evaluated         *)
(* instantiation, an amalgamation function with a body is generated, and  *)
(* every way the process dies is one abstract crash.                      *)

Abs == INSTANCE Instantiation
         WITH generated <- defined,
              cached <- {i \in Insts : cache[i] # None},
              status <- IF outcome \in {"running", "ok", "failed"}
                        THEN outcome ELSE "crashed"

\* The reentrant instantiate / shipToJIT / codegen recursion of
\* CodeExecutor and CodegenInstance, with its worklists, behaves as the
\* abstract compilation: FnGen runs only after the consume walk evaluated
\* every instantiation of the body, exported unit functions get bodies only
\* after their unit is cached, cacheInstantiationOf runs once per node and
\* never for a rejected unit, "ok" only with every reachable function
\* generated, and "failed" only after a diagnosed instantiation.  The
\* liveness half of Abs!ASpec, that the compilation ends, is Termination.
ImplementsInstantiation == Abs!ASafety


=============================================================================
