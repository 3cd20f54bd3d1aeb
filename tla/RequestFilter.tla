--------------------------- MODULE RequestFilter ---------------------------
(***************************************************************************)
(* configure() and request_filter() of lib.rs: what the policy makes of an *)
(* HTTP request.  It serves the agent card, runs a message/send as one     *)
(* dispatch (module Dispatcher, here a call with any of its results), and  *)
(* passes everything else on.                                              *)
(*                                                                         *)
(* Requests share nothing here, so the state holds one.  `pc' names the    *)
(* call it makes next:                                                     *)
(*                                                                         *)
(*   idle -> agent -> (detail -> version)* -> done       the derived card  *)
(*   idle -> dispatch -> done                            a message/send    *)
(***************************************************************************)
EXTENDS AgentCard

CONSTANTS
  Setups,        \* configurations of the policy, each with an agent
  SkillNames,    \* what the Skills API calls the skill of an id
  PathLetters,   \* the letters a path segment may have
  NoId,          \* a JSON-RPC request without an id
  PartLists      \* the parts a message may have

ASSUME RequestAssumption ==
  \A s \in Setups :
    /\ s.source \in {"paste", "derive"}
    /\ s.card \in {None, Malformed} \union SUBSET STRING
    /\ s.skills \in Seq(ToSet(s.skills)) /\ s.servers \in Seq(ToSet(s.servers))
    /\ \A skill \in ToSet(s.skills) : DOMAIN skill = {"id", "skill", "name"}
    /\ \A name \in (ToSet(s.servers) \union ToSet(s.exclude)) \ {None} : name \in Seq(ToSet(name))
    /\ None \notin ToSet(s.exclude)

VARIABLES
  policy,   \* has the configuration been accepted?
  setup,    \* the configuration and the agent
  req       \* the request

filterVars == <<policy, setup, req>>

----------------------------------------------------------------------------
(* The HTTP request. *)

\* What a POST carries.  An id of 0 is what the response to no id has.
Bodies ==
  [form : {"not_json", "not_rpc"}, id : {NoId}, method : {"none"}, params : {"none"},
   parts : {<<>>}] \union
  [form : {"rpc"}, id : {NoId, 7}, method : {"message/send", "message/stream"},
   params : {"none", "malformed"}, parts : {<<>>}] \union
  [form : {"rpc"}, id : {NoId, 7}, method : {"message/send", "message/stream"},
   params : {"message"}, parts : PartLists]

NoBody == [form |-> "not_json", id |-> NoId, method |-> "none", params |-> "none",
           parts |-> <<>>]

\* Does the joined text of a message have no letter?  Two parts are joined by a space.
Textless(parts) ==
  LET texts == SelectSeq(parts, LAMBDA part : part \in {"text", "blank"})
  IN  texts \in {<<>>, <<"blank">>}

NoReply == [kind |-> "none"]

Idle == [pc |-> "idle", verb |-> "none", path |-> "other", routed |-> FALSE, body |-> NoBody,
         skills |-> <<>>, next |-> 0, text |-> "none", reply |-> NoReply]

Reply(rec, reply) == [rec EXCEPT !.pc = "done", !.reply = reply]

\* The id of a response: that of its call, or 0.
EchoedId(id) == IF id = NoId THEN 0 ELSE id

\* Mutant: an error does not carry the id.
RpcErrorAnonymous(id, code) == [kind |-> "error", id |-> 0, code |-> code]

RpcError(id, code) == [kind |-> "error", id |-> EchoedId(id), code |-> code]

CardReply(card, built) == [kind |-> "card", built |-> built, card |-> card]
Pasted == CardReply(PasteCard(setup.card), FALSE)

----------------------------------------------------------------------------
(* Load. *)

\* Mutant: the card is validated in neither mode.
ConfigureUnchecked ==
  /\ policy = "starting"
  /\ policy' = "loaded"
  /\ UNCHANGED <<setup, req>>

\* In paste mode a card that is not complete fails the load.
Configure ==
  /\ policy = "starting"
  /\ policy' = IF setup.source = "paste" /\ setup.card # None /\ ~Canonical(setup.card)
                 THEN "refused" ELSE "loaded"
  /\ UNCHANGED <<setup, req>>

----------------------------------------------------------------------------
(* The agent card. *)

\* GET of the card path.  `routed': the gateway names the upstream cluster.
GetCard(routed) ==
  LET rec == [req EXCEPT !.verb = "GET", !.path = "card", !.routed = routed] IN
  /\ policy = "loaded" /\ req.pc = "idle"
  /\ req' = IF setup.source = "derive" /\ routed THEN [rec EXCEPT !.pc = "agent"]
                                                 ELSE Reply(rec, Pasted)
  /\ UNCHANGED <<policy, setup>>

\* The id that is looked up for a skill without a name.
LookupId(s) == IF s.skill # None THEN s.skill ELSE s.id

\* validate_path_segment
ValidSegment(id) == id # <<>> /\ \A i \in DOMAIN id : id[i] \in PathLetters

NeedsLookup(s) ==
  /\ s.name = None
  /\ LookupId(s) # None
  /\ ValidSegment(LookupId(s))

\* On to the next skill to look up, or to the card.
NextSkill(rec) ==
  LET todo == {i \in DOMAIN rec.skills : i > rec.next /\ NeedsLookup(rec.skills[i])}
  IN  IF todo # {} THEN [rec EXCEPT !.pc = "detail", !.next = Min(todo)]
      ELSE Reply(rec, CardReply(BuildCard(rec.skills, setup.servers, setup.exclude,
                                          setup.card), TRUE))

\* get_agent; any failure falls back to the pasted card.
FetchAgent ==
  /\ req.pc = "agent"
  /\ \/ req' = NextSkill([req EXCEPT !.skills = setup.skills])
     \/ req' = Reply(req, Pasted)
  /\ UNCHANGED <<policy, setup>>

\* resolve_skill, first call: the latest version of the skill.
FetchDetail ==
  /\ req.pc = "detail"
  /\ \/ req' = [req EXCEPT !.pc = "version"]
     \/ req' = NextSkill(req)
  /\ UNCHANGED <<policy, setup>>

\* Mutant: a failed lookup fails the request.
FetchVersionFailing ==
  /\ req.pc = "version"
  /\ req' = Reply(req, RpcError(NoId, -32603))
  /\ UNCHANGED <<policy, setup>>

\* resolve_skill, second call: the name of that version.
FetchVersion ==
  /\ req.pc = "version"
  /\ \/ req' = NextSkill([req EXCEPT !.skills[req.next].name =
                                       SkillNames[LookupId(req.skills[req.next])]])
     \/ req' = NextSkill(req)
  /\ UNCHANGED <<policy, setup>>

----------------------------------------------------------------------------
(* message/send. *)

\* What a body that does not get to dispatch is refused with; 0 if it gets there.
Refusal(body) ==
  CASE body.form = "not_json"         -> -32700
    [] body.form = "not_rpc"          -> -32600
    [] body.method # "message/send"   -> -32601
    [] body.params # "message"        -> -32602
    [] Textless(body.parts)           -> -32602
    [] OTHER                          -> 0

Post(routed, body) ==
  LET rec  == [req EXCEPT !.verb = "POST", !.body = body, !.routed = routed]
      code == Refusal(body)
  IN
  /\ policy = "loaded" /\ req.pc = "idle"
  /\ req' = IF ~routed THEN Reply(rec, RpcError(NoId, -32603))
            ELSE IF code = 0 THEN [rec EXCEPT !.pc = "dispatch"]
            ELSE Reply(rec, RpcError(body.id, code))
  /\ UNCHANGED <<policy, setup>>

\* map_dispatch_error
ErrorCode(error) ==
  CASE error \in {401, 403}                           -> -32010
    [] error \in {408, 429} \union 500..599           -> -32011
    [] error = -1                                     -> -32011
    [] OTHER                                          -> -32603

\* The A2A task: the text of a completed turn is its artifact, any other text is
\* the status message.
Task(id, state, text) ==
  LET done == state = "COMPLETED" IN
  [kind |-> "result", id |-> EchoedId(id), state |-> state,
   artifact |-> IF done THEN text ELSE "none", message |-> IF done THEN "none" ELSE text]

\* response_mapper::completed: the text of the turn's agent.message events, whose
\* content is a string, a list of blocks, or has no text.
AnswerOf(contents) == IF contents \intersect {"string", "blocks"} = {} THEN "none" ELSE "answer"

Answered(state, text) == req' = Reply([req EXCEPT !.text = text], Task(req.body.id, state, text))

Dispatch ==
  /\ req.pc = "dispatch"
  /\ \/ \E contents \in SUBSET {"string", "blocks", "other"} :
          Answered("COMPLETED", AnswerOf(contents))
     \/ \E state \in {"FAILED", "INPUT_REQUIRED", "WORKING"} : Answered(state, "notice")
     \/ \E error \in {-1, 0, 401, 404, 429, 503} :
          req' = Reply(req, RpcError(req.body.id, ErrorCode(error)))
  /\ UNCHANGED <<policy, setup>>

----------------------------------------------------------------------------
\* Any other request continues to the upstream.
PassOn(verb, path) ==
  /\ policy = "loaded" /\ req.pc = "idle"
  /\ verb # "POST" /\ <<verb, path>> # <<"GET", "card">>
  /\ req' = [req EXCEPT !.pc = "upstream", !.verb = verb, !.path = path]
  /\ UNCHANGED <<policy, setup>>

Init ==
  /\ policy = "starting"
  /\ setup \in Setups
  /\ req = Idle

Arrive ==
  \E routed \in BOOLEAN :
    \/ GetCard(routed)
    \/ \E body \in Bodies : Post(routed, body)

Step == FetchAgent \/ FetchDetail \/ FetchVersion \/ Dispatch

Next ==
  \/ Configure
  \/ Arrive
  \/ Step
  \/ \E verb \in {"GET", "PUT"}, path \in {"card", "other"} : PassOn(verb, path)

Spec == Init /\ [][Next]_filterVars

\* Each call is answered or times out; its failure is one of its results.
FairSpec == Spec /\ WF_filterVars(Step)

----------------------------------------------------------------------------
(* What the policy promises. *)

ServesCard   == req.reply.kind = "card"
ServesSkills == ServesCard /\ req.reply.card.derived

\* The exclude patterns say what a glob says, also when the parts of a pattern could
\* overlap in the name: no server they cover is on a derived card, and every other
\* one is, by its id (docs/spec.md, cardDerivation).
ExcludesWhatPatternsCover ==
  ServesSkills =>
    \A n \in ToSet(setup.servers) \ {None, <<>>} :
      LET covered == \E p \in ToSet(setup.exclude) : Covers(p, n)
          skills  == req.reply.card.skills
      IN  /\ covered  => \A skill \in ToSet(skills) : ~(skill.of = "mcp" /\ skill.name = n)
          /\ ~covered => Slug(n) \in Ids(skills)

\* The names a card may show a declared skill by.
NamesOf(s) ==
  {n \in {s.id, s.name, s.skill} \union
         (IF NeedsLookup(s) THEN {SkillNames[LookupId(s)]} ELSE {}) : Given(n)}

\* Whichever of the lookups fail, each declared skill that has a name or an id of any
\* kind is on the derived card by one of them, and no two skills share an id
\* (services/claude_client.rs, resolve_skill: best-effort).
FailedLookupsLoseNoSkill ==
  ServesSkills =>
    LET skills == req.reply.card.skills IN
    /\ Cardinality(Ids(skills)) = Len(skills)
    /\ \A s \in ToSet(setup.skills) :
         NamesOf(s) # {} => \E n \in NamesOf(s) : Slug(n) \in Ids(skills)

\* A card is complete: the configured one because it was checked at load, the built one
\* whatever overrides it.  Only two cards need not be: none is configured, or the agent
\* of a derived card cannot be read and its partial override is all there is.
CardIsComplete ==
  ServesCard =>
    \/ Required \subseteq req.reply.card.fields
    \/ ~req.reply.built /\ (setup.card = None \/ setup.source = "derive")

\* Each POST is answered by the bridge, with the id of its call if that has one and the
\* bridge got to read it, and the text of its turn reaches the client in one place.
CallersAreAnswered ==
  req.verb = "POST" =>
    /\ req.pc \in {"dispatch", "done"}
    /\ req.pc = "done" =>
         /\ req.reply.kind \in {"result", "error"}
         /\ req.reply.id = IF req.routed THEN EchoedId(req.body.id) ELSE 0
         /\ req.reply.kind = "result" =>
              /\ {req.reply.artifact, req.reply.message} \ {"none"} = {req.text} \ {"none"}
              /\ "none" \in {req.reply.artifact, req.reply.message}

\* Whatever calls fail, a card request gets a card
\* (docs/agent-onboarding.md, Guardrails: never block card serving).
CardIsServed ==
  (req.verb = "GET" /\ req.path = "card") ~> ServesCard
=============================================================================
