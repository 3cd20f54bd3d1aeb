----------------------------- MODULE AgentCard -----------------------------
(***************************************************************************)
(* The agent card: services/card_builder.rs, and the pasted card of lib.rs *)
(*                                                                         *)
(* A name is a sequence of letters, as trimmed; a blank one is empty.  Of  *)
(* a card the fields are kept that it has, and the skills of a derived one *)
(* with their ids and what they stand for.  Description, url, version and  *)
(* tags are wording.                                                       *)
(***************************************************************************)
EXTENDS Glob

CONSTANTS
  None,         \* an absent name, an absent card
  Alnum,        \* the letters a slug keeps
  Malformed     \* an agentCard that is not a JSON object

\* validate_canonical_card: the fields a complete card has.
Required == {"protocolVersion", "name", "description", "url", "version", "capabilities",
             "skills", "defaultInputModes", "defaultOutputModes"}

Canonical(card) == card # Malformed /\ Required \subseteq card

\* non_empty
Given(name) == name \notin {None, <<>>}

\* a.or_else(b)...: the first of some names that is given.
FirstGiven(names) ==
  LET given == {i \in DOMAIN names : Given(names[i])}
  IN  IF given = {} THEN None ELSE names[Min(given)]

Slug(name) == [i \in DOMAIN name |-> IF name[i] \in Alnum THEN name[i] ELSE "-"]

\* The general skill of a card that would have none.
General == [id |-> <<"general-assistance">>, of |-> "general", name |-> None]

Ids(skills) == {skill.id : skill \in ToSet(skills)}

\* Mutant: a skill is added although the card has its id.
AddAlways(skills, skill) == Append(skills, skill)

\* seen.insert: the first skill of an id stays.
AddOnce(skills, skill) ==
  IF skill.id \in Ids(skills) THEN skills ELSE Append(skills, skill)

\* Mutant: a reference without a name is skipped.
AddDeclaredNamed(skills, s) ==
  LET id == FirstGiven(<<s.id, s.name>>)
  IN  IF id = None THEN skills
      ELSE AddOnce(skills, [id |-> Slug(id), of |-> "agent", name |-> FirstGiven(<<s.name, s.id>>)])

\* A declared Agent Skill: a reference, or what has been resolved of it.
AddDeclared(skills, s) ==
  LET id == FirstGiven(<<s.id, s.name, s.skill>>)
  IN  IF id = None THEN skills
      ELSE AddOnce(skills, [id |-> Slug(id), of |-> "agent",
                            name |-> FirstGiven(<<s.name, s.id, s.skill>>)])

Excluded(n, exclude) == \E p \in ToSet(exclude) : Matches(n, p)

\* An MCP server, unless it is plumbing.
AddServer(skills, n, exclude) ==
  IF ~Given(n) \/ Excluded(n, exclude) THEN skills
  ELSE AddOnce(skills, [id |-> Slug(n), of |-> "mcp", name |-> n])

\* build_skills
BuildSkills(declared, servers, exclude) ==
  LET own == FoldLeft(AddDeclared, <<>>, declared)
      all == FoldLeft(LAMBDA skills, n : AddServer(skills, n, exclude), own, servers)
  IN  IF all = <<>> THEN <<General>> ELSE all

\* build_card: an override that is an object wins field by field.
BuildCard(declared, servers, exclude, override) ==
  LET pasted == IF override \in {None, Malformed} THEN {} ELSE override
  IN  [fields  |-> Required \union {"preferredTransport"} \union pasted,
       derived |-> "skills" \notin pasted,
       skills  |-> IF "skills" \in pasted THEN <<>>
                   ELSE BuildSkills(declared, servers, exclude)]

\* paste_card_body: the configured text as it is, or an empty object.
PasteCard(card) ==
  [fields  |-> IF card \in {None, Malformed} THEN {} ELSE card,
   derived |-> FALSE, skills |-> <<>>]
=============================================================================
