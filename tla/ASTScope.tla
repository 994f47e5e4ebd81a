------------------------------ MODULE ASTScope ------------------------------
(***************************************************************************)
(* The scopes of ASTScope.cpp as operators over a scope store: a sequence  *)
(* sc of scopes, a scope being referred to by its index.  An allocated     *)
(* scope (temporary or consistent) maps names to declarations and has an   *)
(* optional parent; an in-place scope wraps another scope, forwards every  *)
(* call to it and tells its listener of every insertion.                   *)
(*                                                                         *)
(* Names are sequences of characters, so that the edit distance the        *)
(* similarity search uses is defined on them; declarations are positive   *)
(* natural numbers (node identities) and NoDecl is the null pointer.      *)
(***************************************************************************)
EXTENDS Integers, Sequences, FiniteSets, TLC

NoScope == 0
NoDecl == 0

\* AllocatedScope::THRESHOLD, the bound of the edit distance searched.
THRESHOLD == 10

\* ASTScope::CreateTemporary and ConsistentASTScope::CreateConsistent: an
\* empty allocated scope; the new scope is the last one of the store.
NewScope(sc, consistent, parent) ==
  Append(sc, [consistent |-> consistent, parent |-> parent,
              map |-> [x \in {} |-> NoDecl], of |-> NoScope,
              listener |-> NoDecl])

\* InplaceASTScope::CreateInplace: isConsistent() is the wrapped scope's.
NewInplace(sc, of, listener) ==
  Append(sc, [consistent |-> sc[of].consistent, parent |-> NoScope,
              map |-> [x \in {} |-> NoDecl], of |-> of,
              listener |-> listener])

\* The allocated scope an in-place scope (or a chain of them) inserts into.
RECURSIVE Target(_, _)
Target(sc, s) == IF sc[s].of = NoScope THEN s ELSE Target(sc, sc[s].of)

\* The listeners called by an insertion through s, in call order: the
\* wrapped scope inserts (and calls its listeners) before s calls its own.
RECURSIVE Listeners(_, _)
Listeners(sc, s) ==
  IF sc[s].of = NoScope THEN <<>>
  ELSE Listeners(sc, sc[s].of) \o <<sc[s].listener>>

\* AllocatedScope::insert asserts that the name is not bound in the scope
\* itself; std::unordered_map::insert keeps an existing binding.
InsertCollides(sc, s, str) == str \in DOMAIN sc[Target(sc, s)].map
Insert(sc, s, str, node) ==
  LET t == Target(sc, s)
  IN  IF str \in DOMAIN sc[t].map THEN sc
      ELSE [sc EXCEPT ![t].map = @ @@ (str :> node)]

\* AllocatedScope::lookupIdentifier: this scope's binding, else the
\* parent's; the in-place scope delegates to the scope it wraps.
RECURSIVE LookupIdentifier(_, _, _)
LookupIdentifier(sc, s, str) ==
  CASE sc[s].of # NoScope -> LookupIdentifier(sc, sc[s].of, str)
    [] str \in DOMAIN sc[s].map -> sc[s].map[str]
    [] sc[s].parent # NoScope -> LookupIdentifier(sc, sc[s].parent, str)
    [] OTHER -> NoDecl

(***************************************************************************)
(* StringRef::edit_distance(other, true, THRESHOLD): the Levenshtein       *)
(* distance with replacements, which the LLVM implementation stops         *)
(* computing once it exceeds THRESHOLD (any result above THRESHOLD is as   *)
(* good as THRESHOLD + 1 to its callers).                                  *)
(***************************************************************************)
RECURSIVE Levenshtein(_, _)
Levenshtein(a, b) ==
  IF a = <<>> THEN Len(b)
  ELSE IF b = <<>> THEN Len(a)
  ELSE LET d == {Levenshtein(Tail(a), b) + 1, Levenshtein(a, Tail(b)) + 1,
                 Levenshtein(Tail(a), Tail(b)) + IF Head(a) = Head(b) THEN 0 ELSE 1}
       IN  CHOOSE x \in d : \A y \in d : x <= y
EditDistance(a, b) ==
  LET d == Levenshtein(a, b) IN IF d > THRESHOLD THEN THRESHOLD + 1 ELSE d

(***************************************************************************)
(* AllocatedScope::myMostSimilarString: the entries of the map closer than *)
(* THRESHOLD, the first one of least distance in iteration order winning. *)
(* The order of an unordered_map is unspecified, so the result is the set  *)
(* of <<decl, distance>> pairs any order can yield.                        *)
(***************************************************************************)
MyMostSimilar(m, str) ==
  LET close == {x \in DOMAIN m : EditDistance(str, x) < THRESHOLD}
      best  == {x \in close : \A y \in close :
                                EditDistance(str, x) <= EditDistance(str, y)}
  IN  IF close = {} THEN {<<NoDecl, THRESHOLD>>}
      ELSE {<<m[x], EditDistance(str, x)>> : x \in best}

(***************************************************************************)
(* AllocatedScope::similarTo(str, distance, current): a local candidate    *)
(* replaces the current one only when strictly closer, then the parent     *)
(* continues with the distance found so far.  The set of results any      *)
(* iteration order yields.                                                 *)
(***************************************************************************)
RECURSIVE SimilarFrom(_, _, _, _, _)

\* Mutation: the parent starts over from THRESHOLD.
SimilarFromRestart(sc, s, str, distance, current) ==
  IF sc[s].of # NoScope THEN SimilarFrom(sc, sc[s].of, str, distance, current)
  ELSE UNION {LET c == IF my[2] < distance THEN my[1] ELSE current
              IN  IF sc[s].parent # NoScope
                  THEN SimilarFrom(sc, sc[s].parent, str, THRESHOLD, c)
                  ELSE {c}
              : my \in MyMostSimilar(sc[s].map, str)}

SimilarFrom(sc, s, str, distance, current) ==
  IF sc[s].of # NoScope THEN SimilarFrom(sc, sc[s].of, str, distance, current)
  ELSE UNION {LET d == IF my[2] < distance THEN my[2] ELSE distance
                  c == IF my[2] < distance THEN my[1] ELSE current
              IN  IF sc[s].parent # NoScope
                  THEN SimilarFrom(sc, sc[s].parent, str, d, c)
                  ELSE {c}
              : my \in MyMostSimilar(sc[s].map, str)}

SimilarTo(sc, s, str) == SimilarFrom(sc, s, str, THRESHOLD, NoDecl)
=============================================================================
