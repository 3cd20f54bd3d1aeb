-------------------------------- MODULE Glob --------------------------------
(***************************************************************************)
(* glob_match() of services/tool_gate.rs, which decides what a policy rule *)
(* and an excludeMcpServers pattern cover, and what it ought to compute.   *)
(*                                                                         *)
(* A string is a sequence of letters, of which Star is the wildcard.  Both *)
(* arguments have been lowered already.                                    *)
(***************************************************************************)
EXTENDS Integers, Sequences, SequencesExt

Star == "*"

Stars(p) == {i \in DOMAIN p : p[i] = Star}

\* p.split('*'): the part of p that ends before e, a star or the end of p.
Before(p, e) == Max({0} \union {i \in Stars(p) : i < e})
Part(p, e)   == SubSeq(p, Before(p, e) + 1, e - 1)

Lost == -1

\* The position behind the leftmost occurrence of part in t[pos..].
Behind(t, pos, part) ==
  LET at == {i \in pos..(Len(t) - Len(part)) : SubSeq(t, i + 1, i + Len(part)) = part}
  IN  IF pos = Lost \/ at = {} THEN Lost ELSE Min(at) + Len(part)

\* The position behind the parts before the last star: the first is a prefix, each of
\* the others is taken where it occurs first.
Reached(t, p) ==
  LET pos[e \in Stars(p)] ==
        IF Before(p, e) = 0 THEN Len(Part(p, e)) ELSE Behind(t, pos[Before(p, e)], Part(p, e))
  IN  pos[Max(Stars(p))]

\* Mutant: the trailing part may overlap the parts before it.
MatchesOverlapping(t, p) ==
  IF Stars(p) = {} THEN t = p
  ELSE /\ IsPrefix(Part(p, Min(Stars(p))), t)
       /\ Reached(t, p) # Lost
       /\ IsSuffix(Part(p, Len(p) + 1), t)

Matches(t, p) ==
  LET last == Part(p, Len(p) + 1)
  IN  IF Stars(p) = {} THEN t = p
      ELSE /\ IsPrefix(Part(p, Min(Stars(p))), t)
           /\ Reached(t, p) # Lost
           /\ Len(t) >= Reached(t, p) + Len(last)
           /\ IsSuffix(last, t)

----------------------------------------------------------------------------
\* What a glob means: t is the pattern with a string put in the place of each star.
Covers(p, t) ==
  \E fill \in [Stars(p) -> {SubSeq(t, i, j) : i \in 1..(Len(t) + 1), j \in 0..Len(t)}] :
    t = FlattenSeq([i \in DOMAIN p |-> IF p[i] = Star THEN fill[i] ELSE <<p[i]>>])
=============================================================================
