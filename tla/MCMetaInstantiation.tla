------------------------- MODULE MCMetaInstantiation -------------------------
(***************************************************************************)
(* Program families for MetaInstantiation.  The compilation unit declares  *)
(* main, f and g and two meta declarations m1 and m2.  main's body         *)
(* instantiates m1 (site i1, exporting u1); a second instantiation i2 of   *)
(* m2 (exporting u2, or nothing) sits in the body of f, g or u1, in a meta *)
(* calculation of m1, or in a meta calculation inside a meta-if branch of  *)
(* m1.  Calls between the functions and from m1's meta code vary over all *)
(* subsets that respect the order main, f, g.                              *)
(***************************************************************************)
EXTENDS MetaInstantiation, TLC

MCCUFuncs == {"main", "f", "g"}
MCUnitFuncs == {"u1", "u2"}
MCMetas == {"m1", "m2"}
MCInsts == {"i1", "i2"}

Sites == {"f", "g", "u1", "m1calc", "m1branch"}

\* A program: who calls whom, where i2 sits, what it instantiates and
\* exports, and the argument value of i2 (i1 passes 1).
Program(mainC, fC, u1C, u2C, m1C, m2C, site, decl2, exp2, arg2, rej) ==
  [calls  |-> [x \in Funcs |->
                 CASE x = "main" -> mainC [] x = "f" -> fC
                   [] x = "u1" -> u1C [] x = "u2" -> u2C [] OTHER -> {}],
   finsts |-> [x \in Funcs |-> (IF x = "main" THEN {"i1"} ELSE {})
                                 \cup (IF x = site THEN {"i2"} ELSE {})],
   mcalls |-> [m \in Metas |-> IF m = "m1" THEN m1C ELSE m2C],
   minsts |-> [m \in Metas |-> IF m = "m1" /\ site = "m1calc"
                                 THEN {"i2"} ELSE {}],
   binsts |-> [m \in Metas |-> IF m = "m1" /\ site = "m1branch"
                                 THEN {"i2"} ELSE {}],
   decl   |-> [i \in Insts |-> IF i = "i1" THEN "m1" ELSE decl2],
   export |-> [i \in Insts |-> IF i = "i1" THEN "u1" ELSE exp2],
   args   |-> [i \in Insts |-> IF i = "i1" THEN 1 ELSE arg2],
   rejected |-> rej]

(* The compile-time dependencies of a program: a function needs the        *)
(* instantiations in its body and, if exported, the one exporting it; an   *)
(* instantiation needs its meta declaration and every function the meta    *)
(* code runs; a meta declaration needs the instantiations in its meta code. *)
PRefs(p, f) == (p.calls[f] \cup {p.export[i] : i \in p.finsts[f]})
                 \ {NoExport}
RECURSIVE PRun(_, _)
PRun(p, S) == LET T == S \cup UNION {PRefs(p, f) : f \in S}
              IN IF T = S THEN S ELSE PRun(p, T)
RunFuncs(p, m) ==
    PRun(p, (p.mcalls[m] \cup {p.export[i] : i \in p.minsts[m] \cup p.binsts[m]})
              \ {NoExport})
Needs(p, x) ==
    IF x \in Funcs THEN p.finsts[x] \cup {i \in Insts : p.export[i] = x}
    ELSE IF x \in Insts THEN {p.decl[x]} \cup RunFuncs(p, p.decl[x])
    ELSE p.minsts[x] \cup p.binsts[x]
RECURSIVE NeedClosure(_, _)
NeedClosure(p, S) == LET T == S \cup UNION {Needs(p, x) : x \in S}
                     IN IF T = S THEN S ELSE NeedClosure(p, T)
Acyclic(p) == \A x \in Symbols : x \notin NeedClosure(p, Needs(p, x))

\* The unit of i2 exports u2, exports nothing, or is rejected by the reader
\* or Sema.
Units == {<<"u2", {}>>, <<NoExport, {}>>, <<"u2", {"i2"}>>}

AllPrograms(Site, Decl2, Arg2) ==
  {Program(a, b, c, d, e, h, s, dm, x[1], v, x[2]) :
     a \in {{}, {"f", "g"}}, b \in SUBSET {"g"}, c \in {{}, {"f"}},
     d \in {{}}, e \in SUBSET {"f", "g"}, h \in SUBSET {"g"},
     s \in Site, dm \in Decl2, x \in Units, v \in Arg2}

\* Every program of the family, cyclic ones included: the passing run.
MCPrograms == AllPrograms(Sites, {"m1", "m2"}, {2})

\* Acyclic programs: a crash on them is a defect of the compiler.
AcyclicPrograms == {p \in MCPrograms : Acyclic(p)}

\* Programs where m1's meta code instantiates m1 itself.
CyclicPrograms ==
  {p \in AllPrograms({"m1calc"}, {"m1"}, {2}) : ~Acyclic(p)}

\* Two instantiations m1<1> in main and in f.
SameArgPrograms ==
  {p \in AllPrograms({"f"}, {"m1"}, {1}) : Acyclic(p) /\ p.export["i2"] = "u2"}

MCMaxDepth == 14
=============================================================================
