-------------------------- MODULE MCRequestFilter --------------------------
(***************************************************************************)
(* RequestFilter on small instances: every short name against every short  *)
(* pattern, and agents whose skills and servers share names.               *)
(***************************************************************************)
EXTENDS RequestFilter, TLC

Word(n, letters) == UNION {[1..k -> letters] : k \in 0..n}

A == <<"a">>
B == <<"b">>
Dot == <<"a", ".">>        \* no path segment
Under == <<"a", "_">>      \* the slugs of both are the same

NoCard == [source |-> "derive", card |-> None, exclude |-> <<>>, skills |-> <<>>,
           servers |-> <<>>]

\* One server and one pattern: glob_match on all of them.
Patterns == {p \in Word(4, {"a", "_", Star}) : Cardinality(Stars(p)) <= 2}

Globs ==
  {[NoCard EXCEPT !.exclude = <<p>>, !.servers = <<n>>] :
     p \in Patterns, n \in Word(3, {"a", "_"})}

Skill(id, skill, name) == [id |-> id, skill |-> skill, name |-> name]

Skills == {Skill(None, A, None), Skill(None, B, None), Skill(None, Dot, None),
           Skill(Under, None, None), Skill(B, A, None), Skill(None, A, B),
           Skill(None, A, <<>>), Skill(None, None, None), Skill(<<>>, <<>>, None)}

\* Two skills and two servers, with and without a pattern.
Agents ==
  {[NoCard EXCEPT !.skills = <<s, q>>, !.servers = servers, !.exclude = exclude] :
     s, q \in Skills, servers \in {<<>>, <<A, Under>>, <<Dot, Under>>, <<None, B>>},
     exclude \in {<<>>, <<<<Star, "_">>, A>>}}

\* Both sources, and each kind of configured card.
Cards ==
  {[NoCard EXCEPT !.source = source, !.card = card, !.skills = <<Skill(None, A, None)>>] :
     source \in {"paste", "derive"},
     card \in {None, Malformed, {"name"}, {"skills"}, Required, Required \ {"url"}}}

AllSetups == Globs \union Agents \union Cards

\* What the Skills API says: one name is blank, one is shared.
Resolved == [id \in {A, B, Under} |-> IF id = A THEN B ELSE IF id = B THEN <<>> ELSE B]

Parts == {<<>>, <<"text">>, <<"blank">>, <<"file">>, <<"blank", "blank">>, <<"file", "text">>}
=============================================================================
