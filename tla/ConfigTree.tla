-------------------------- MODULE ConfigTree --------------------------
(***************************************************************************)
(* Configuration trees and what config.go computes of them: deepMerge, the *)
(* substitution of ${...} placeholders, and what they should mean.         *)
(*                                                                         *)
(* A tree is flat here: a function from the paths of its leaves to values. *)
(* A path is a sequence of keys, so <<"db">> and <<"db", "host">> are the  *)
(* scalar db and an entry of the map db.                                   *)
(***************************************************************************)
EXTENDS Naturals, Sequences, SequencesExt

CONSTANTS Paths,     \* the paths a source may set or a placeholder may name
          MaxText,   \* bound on the text kept in front of a placeholder
          Default    \* the text a placeholder falls back to (after the colon, or "")

MaxPasses == 10

(* Values.  A literal carries n characters of surrounding text; a "whole"    *)
(* placeholder is the entire string, a "part" stands behind n characters.    *)
Nil == [kind |-> "nil", at |-> <<>>, n |-> 0]
Lit(v, n) == [kind |-> "lit", at |-> v, n |-> n]
Whole(p) == [kind |-> "whole", at |-> p, n |-> 0]
Part(p, n) == [kind |-> "part", at |-> p, n |-> n]

IsPlaceholder(v) == v.kind \in {"whole", "part"}
Capped(n) == IF n < MaxText THEN n ELSE MaxText

IsText(v) == v.n \in Nat /\ v = Lit(v.at, v.n)
IsReference(v) == v.at \in Paths /\ v.n \in Nat /\ v \in {Whole(v.at), Part(v.at, v.n)}
IsTree(t) ==
  /\ t = [p \in Paths |-> t[p]]
  /\ \A p \in Paths : t[p] = Nil \/ IsText(t[p]) \/ IsReference(t[p])
IsEnv(env) == IsTree(env) /\ \A p \in Paths : env[p] = Nil \/ IsText(env[p])

Empty == [p \in Paths |-> Nil]

(* Two different paths of which one lies inside the other cannot both be set. *)
Conflict(p, q) == p # q /\ (IsPrefix(p, q) \/ IsPrefix(q, p))

MutMerge(dest, src) == [p \in Paths |-> IF src[p] # Nil THEN src[p] ELSE dest[p]]

(* deepMerge: maps are merged, everything else is replaced by src. *)
Merge(dest, src) ==
  [p \in Paths |->
     IF src[p] # Nil THEN src[p]
     ELSE IF \E q \in Paths : Conflict(p, q) /\ src[q] # Nil THEN Nil
     ELSE dest[p]]

(* No placeholder names a map as a whole, which would copy a subtree. *)
NamesLeaves(t) ==
  \A p, q \in Paths :
     IsPlaceholder(t[p]) /\ t[q] # Nil => ~IsStrictPrefix(t[p].at, q)

WellFormed(t) == \A p, q \in Paths : Conflict(p, q) => t[p] = Nil \/ t[q] = Nil

-----------------------------------------------------------------------------
(* resolveValue: the tree, then the environment, then the default. *)
Resolve(t, env, p) ==
  IF t[p] # Nil THEN t[p] ELSE IF env[p] # Nil THEN env[p] ELSE Default

(* The text of a value behind n characters of text. *)
Behind(v, n) ==
  CASE v.kind = "lit" -> Lit(v.at, Capped(n + v.n))
    [] OTHER          -> Part(v.at, Capped(n + v.n))

MutVisitOnce(t, env, p) ==
  LET v == Resolve([t EXCEPT ![p] = Nil], env, t[p].at)
  IN  IF t[p].kind = "whole" THEN [t EXCEPT ![p] = v]
      ELSE [t EXCEPT ![p] = Behind(v, t[p].n)]

(* substituteString on one leaf. *)
Visit(t, env, p) ==
  LET v == Resolve(t, env, t[p].at)
  IN  CASE t[p].kind = "whole" -> [t EXCEPT ![p] = v]
        [] t[p].kind = "part"  -> [t EXCEPT ![p] = Behind(v, t[p].n)]
        [] OTHER               -> t

(* One pass of substituteRecursive; a map's entries come in any order. *)
Placeholders(t) == {p \in Paths : IsPlaceholder(t[p])}
InOrder(t, env, order) ==
  LET visited[n \in 0..Len(order)] ==
        IF n = 0 THEN t ELSE Visit(visited[n - 1], env, order[n])
  IN  visited[Len(order)]
Pass(t, env) == {InOrder(t, env, order) : order \in SetToSeqs(Placeholders(t))}

(* What substituteVariables may leave: passes until one changes nothing, an *)
(* error if a placeholder is left then or if MaxPasses passes all changed    *)
(* something.                                                               *)
Substituted(t, env) ==
  LET after[n \in 0..MaxPasses] ==
        IF n = 0 THEN {[tree |-> t, changing |-> TRUE]}
        ELSE UNION {IF x.changing
                    THEN {[tree |-> u, changing |-> u # x.tree] : u \in Pass(x.tree, env)}
                    ELSE {x} : x \in after[n - 1]}
  IN  {[tree |-> x.tree, ok |-> ~x.changing /\ Placeholders(x.tree) = {}] : x \in after[MaxPasses]}

-----------------------------------------------------------------------------
(* What a placeholder means: the meaning of what it names, unless it is in a *)
(* circle of references.                                                     *)
Circular == [kind |-> "circular", at |-> <<>>, n |-> 0]

Meant(t, env) ==
  LET meaning[seen \in SUBSET Paths] == [p \in Paths |->
        IF ~IsPlaceholder(t[p]) THEN t[p]
        ELSE IF p \in seen THEN Circular
        ELSE LET q == t[p].at
                 v == IF t[q] = Nil THEN Resolve(t, env, q) ELSE meaning[seen \cup {p}][q]
             IN  IF v = Circular \/ t[p].kind = "whole" THEN v ELSE Behind(v, t[p].n)]
  IN  meaning[{}]
Sound(t, env) == \A p \in Paths : Meant(t, env)[p] # Circular
=======================================================================
