--------------------------- MODULE Instantiation ---------------------------
(***************************************************************************)
(* What compiling a unit with meta instantiations promises, without the   *)
(* reentrant call stack, the JIT or the dependency worklists that          *)
(* MetaInstantiation models.  A compilation evaluates meta instantiations *)
(* into MetaUnits and generates function bodies, then ends:               *)
(*   - an instantiation is evaluated at most once, and only when its       *)
(*     MetaUnit is accepted (spec: the result is cached by the node);      *)
(*   - a function gets its body only after every instantiation in it is    *)
(*     evaluated, and a function exported by a MetaUnit only after that    *)
(*     unit exists;                                                        *)
(*   - success means every function the unit reaches has a body;           *)
(*   - failure is a diagnosed error, which needs a rejected unit or one    *)
(*     that exports nothing; the process may also die;                     *)
(*   - the compilation ends.                                               *)
(***************************************************************************)
EXTENDS FiniteSets

CONSTANTS CUFuncs, UnitFuncs, Insts, NoExport, Programs

VARIABLES
    prog,        \* the program under compilation (fixed)
    generated,   \* functions that have a body
    cached,      \* instantiations evaluated to a MetaUnit
    status       \* "running", "ok", "failed" or "crashed"

avars == <<prog, generated, cached, status>>

Funcs == CUFuncs \cup UnitFuncs

\* Functions a function needs: its callees and the exports of the
\* instantiations in its body.
Needs(f) == (prog.calls[f] \cup {prog.export[i] : i \in prog.finsts[f]})
              \ {NoExport}

RECURSIVE Needed(_)
Needed(S) == IF UNION {Needs(f) : f \in S} \subseteq S THEN S
             ELSE Needed(S \cup UNION {Needs(f) : f \in S})

AInit ==
    /\ prog \in Programs
    /\ generated = {}
    /\ cached = {}
    /\ status = "running"

Instantiate(i) ==
    /\ i \notin cached
    /\ i \notin prog.rejected
    /\ cached' = cached \cup {i}
    /\ UNCHANGED <<prog, generated, status>>

Generate(f) ==
    /\ prog.finsts[f] \subseteq cached
    /\ f \in UnitFuncs => \E i \in cached : prog.export[i] = f
    /\ generated' = generated \cup {f}
    /\ UNCHANGED <<prog, cached, status>>

Succeed ==
    /\ \A f \in Needed(CUFuncs) : f \in generated /\ prog.finsts[f] \subseteq cached
    /\ status' = "ok"
    /\ UNCHANGED <<prog, generated, cached>>

Fail ==
    /\ \E i \in Insts : i \in prog.rejected \/ prog.export[i] = NoExport
    /\ status' = "failed"
    /\ UNCHANGED <<prog, generated, cached>>

Crash ==
    /\ status' = "crashed"
    /\ UNCHANGED <<prog, generated, cached>>

Finish == Succeed \/ Fail \/ Crash

ANext ==
    /\ status = "running"
    /\ \/ \E i \in Insts : Instantiate(i)
       \/ \E f \in Funcs : Generate(f)
       \/ Finish

\* The safety part, and the whole specification: a compilation that is
\* running always can finish (crash at worst), and weak fairness makes it.
ASafety == AInit /\ [][ANext]_avars

ASpec == ASafety /\ WF_avars(status = "running" /\ Finish)

\* What ASpec promises over time: the compilation ends.
AEnds == <>(status # "running")

=============================================================================
