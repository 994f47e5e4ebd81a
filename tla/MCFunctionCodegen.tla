------------------------- MODULE MCFunctionCodegen -------------------------
(***************************************************************************)
(* Function bodies for checking FunctionCodegen: every statement kind of  *)
(* a runtime function, ifs with and without else nested two deep (in the *)
(* true and in the false arm), statements after an if and after a return, *)
(* functions with and without a result type, built with and without       *)
(* asserts.                                                                *)
(***************************************************************************)
EXTENDS FunctionCodegen

MCConds == {"c1", "c2"}
MCVals == {"v1", "v2"}

E == [k |-> "ExpressionStmt"]
D == [k |-> "DeclStmt", n |-> "x"]
R(v) == [k |-> "ReturnStmt", v |-> v]
Comp(cs) == [k |-> "CompoundStmt", c |-> cs]
If(c, t, f) == [k |-> "IfStmt", cond |-> c, t |-> t, f |-> f]

\* an expression statement instantiating i1
EI == [k |-> "ExpressionStmt", i |-> {"i1"}]
Leaf == {E, EI, D, R("v1"), R("v2"), R("void")}
Block1 == {Comp(<<>>)} \cup {Comp(<<l>>) : l \in Leaf}
Else1 == {<<>>} \cup {<<b>> : b \in Block1}
If1(c) == {If(c, t, f) : t \in Block1, f \in Else1}
\* an if nested in the true arm, and one nested in the else arm
If2 == {If("c2", Comp(<<i>>), f) : i \in If1("c1"), f \in {<<>>, <<Comp(<<R("v2")>>)>>}}
       \cup {If("c2", Comp(<<R("v1")>>), <<Comp(<<i>>)>>) : i \in If1("c1")}
Stmt == Leaf \cup If1("c1")
        \cup {[k |-> "UnscopedCompoundStmt", c |-> <<D, R("v1")>>]}
Bodies == {Comp(<<>>)}
          \cup {Comp(<<s>>) : s \in Stmt \cup If2}
          \cup {Comp(<<s, l>>) : s \in Stmt, l \in Leaf}

MCFunctionDecls == [kind : {"FunctionDecl"}, ret : BOOLEAN, args : {1}, body : Bodies]

\* Meta declarations k<int n>: contributed nodes (one variadic, with a
\* reduce marker), meta ifs with and without else, and meta calculations
\* whose statement declares an exported local (after an if declaring a
\* local in its own compound, too), declares a local in a compound (not
\* exported), is empty, or returns (unconditionally, or a value under a
\* condition).
Node(id, cs, red) == [k |-> "Node", id |-> id, c |-> cs, reduce |-> red]
MC(cs) == [k |-> "MetaContribution", c |-> cs]
MIf(c, t, f) == [k |-> "MetaIfStmt", cond |-> c, t |-> t, f |-> f]
\* the exported list is the one the layout reader records
Calc(st) == [k |-> "MetaCalculationStmt", s |-> st, ex |-> ExportedDecls(st)]
Unscoped(cs) == [k |-> "UnscopedCompoundStmt", c |-> cs]

Calcs == {Calc(Unscoped(<<D>>)), Calc(Comp(<<D>>)), Calc(Unscoped(<<>>)),
          Calc(Unscoped(<<If("c1", Comp(<<[k |-> "DeclStmt", n |-> "y"]>>), <<>>), D>>)),
          Calc(Unscoped(<<R("void")>>)),
          Calc(Comp(<<If("c1", Comp(<<R("v1")>>), <<>>)>>))}
\* a contributed node whose runtime code instantiates i3
RtNode == [k |-> "Node", id |-> "n3", c |-> <<>>, reduce |-> FALSE, i |-> {"i3"}]
\* a meta calculation declaring x from the instantiation i2
InstCalc == Calc(Unscoped(<<[k |-> "DeclStmt", n |-> "x", i |-> {"i2"}]>>))
Items1 == {Node("n1", <<>>, FALSE), RtNode} \cup Calcs
Contribs1 == {MC(<<>>)} \cup {MC(<<i>>) : i \in Items1}
MetaIfs == {MIf("c2", t, f) : t \in Contribs1,
                              f \in {<<>>} \cup {<<x>> : x \in Contribs1}}
Items2 == Items1 \cup MetaIfs \cup {Node("n2", <<i>>, TRUE) : i \in Items1 \cup MetaIfs}
\* InstCalc at the top level and inside a contributed node, not in a meta
\* if branch (ArmCalcDecls).
MetaBodies == {MC(<<a>>) : a \in Items2} \cup {MC(<<a, b>>) : a \in Items2, b \in Items1}
              \cup {MC(<<InstCalc, b>>) : b \in Items1}
              \cup {MC(<<Node("n2", <<InstCalc>>, TRUE)>>)}

MCMetaDecls == [kind : {"MetaDecl"}, ret : {FALSE}, args : {1}, body : MetaBodies]

\* A meta calculation returning under a condition, before a contribution.
TruncateDecls ==
    {[kind |-> "MetaDecl", ret |-> FALSE, args |-> 1,
      body |-> MC(<<Calc(Comp(<<If("c1", Comp(<<R("void")>>), <<>>)>>)),
                    Node("n1", <<>>, FALSE)>>)]}

MCDecls == MCFunctionDecls \cup MCMetaDecls

\* A value-returning function whose if without else returns only in its
\* true arm, so control can reach the end of the body.
FallOffDecls ==
    {[kind |-> "FunctionDecl", ret |-> TRUE, args |-> 1,
      body |-> Comp(<<If("c1", Comp(<<R("v1")>>), <<>>)>>)]}

\* A statement after an if whose arms both return.
DeadCodeDecls ==
    {[kind |-> "FunctionDecl", ret |-> TRUE, args |-> 1,
      body |-> Comp(<<If("c1", Comp(<<R("v1")>>), <<Comp(<<R("v2")>>)>>), E>>)]}

\* A meta calculation using an instantiation inside a meta if branch.
ArmCalcDecls ==
    {[kind |-> "MetaDecl", ret |-> FALSE, args |-> 1,
      body |-> MC(<<MIf("c2", MC(<<InstCalc>>), <<>>)>>)]}

\* Declarations Sema accepts that are not compiled as written.
MiscompiledDecls == FallOffDecls \cup DeadCodeDecls \cup TruncateDecls \cup ArmCalcDecls

=============================================================================
