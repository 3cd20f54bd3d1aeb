------------------------ MODULE DispatcherProperties ------------------------
(***************************************************************************)
(* What the dispatcher promises.  The properties of the first part hold    *)
(* for any number of requests at a time and any faults.  Those of the      *)
(* second part are for clients that send one message at a time on a        *)
(* context; the run that checks one says which faults it allows.           *)
(***************************************************************************)
EXTENDS Dispatcher

\* Every variable has its type.
TypeOK ==
  /\ tag \in [Sessions -> Contexts \union {NoContext}]
  /\ log \in [Sessions -> Seq(Event)]
  /\ store \in [Contexts -> Entry]
  /\ d \in [Requests -> Request]
  /\ taskDb \in [Tasks -> TaskStates]
  /\ faults \in Nat

Positions(h) == 1..Len(h)
Relayed(h)   == Of(h, Positions(h), {"user.tool_confirmation"})
ByHuman(h)   == {i \in Relayed(h) : h[i].who = "human"}
Uses(e)      == {c[1] : c \in e.decisions}
Decided(h)   == UNION {Uses(h[i]) : i \in ByHuman(h)}
ToolOf(h, u) == ExtractTool(h, Positions(h), u)
Upto(h, i)   == SubSeq(h, 1, i)

----------------------------------------------------------------------------
(* Whatever the interleaving. *)

\* Everything the bridge posts for a request goes to a session that was created
\* for the request's own context: neither the cache nor recovery ever hands out
\* the session of another conversation (README.md, Fail-safe).
PostsStayInContext ==
  \A s \in Sessions :
    \A i \in Of(log[s], Positions(log[s]), {"user.message", "user.tool_confirmation"}) :
      d[log[s][i].by].ctx = tag[s]

\* A tool use is allowed only because the policy allows its tool or because the
\* classifier took the human's message for an approval; and what the rules relay
\* is what they say of that tool.  A use whose event is outside of the turn the
\* request reads counts as the tool without a name: that is what the code does.
DecisionsAreSanctioned ==
  \A s \in Sessions : \A i \in Relayed(log[s]) : \A c \in log[s][i].decisions :
    LET e == log[s][i] IN
    /\ e.who = "human" /\ c[2] = "allow" => d[e.by].answer = "approve"
    /\ e.who = "rule" => c[2] \in {Resolve(ToolOf(log[s], c[1])), Resolve(NoTool)}

\* One request never confirms the same tool use twice, however often its polls
\* show the same requires_action, and never with two results.
NoRequestConfirmsTwice ==
  \A s \in Sessions : \A i, j \in Relayed(log[s]) :
    \A c \in log[s][i].decisions, e \in log[s][j].decisions :
      c[1] = e[1] /\ log[s][i].by = log[s][j].by => i = j /\ c = e

\* Every request that has arrived comes to an end: a response, an error or a crash.
EveryRequestEnds ==
  \A r \in Requests : At(r, "load") ~> d[r].pc \in Finished

----------------------------------------------------------------------------
(* One message at a time. *)

\* The uses that INPUT_REQUIRED responses have put to the client of c, for s.
Asked(c, s) ==
  UNION {d[q].deferred : q \in {p \in Requests :
           /\ At(p, "done") /\ d[p].outcome = "INPUT_REQUIRED"
           /\ d[p].ctx = c  /\ d[p].entry.session = s}}

Open(c) == Asked(c, store[c].session) \ Decided(log[store[c].session])

Quiet(c) == \A r \in Requests : d[r].ctx = c => ~Active(r)

\* Between requests the cache holds exactly the questions that were put to the
\* client and are not decided: the next message is taken for a decision if and
\* only if one is due, and for the right tools.
CacheHoldsOpenQuestions ==
  \A c \in Contexts :
    Quiet(c) /\ Cache!Present(c) => store[c].pending = Open(c)

\* Between requests no open question about a tool the policy defers is missing
\* from the cache, also when the entry was lost in between and rebuilt from the
\* session (README.md, Session recovery).  A later message on the context is then the
\* human's decision (docs/spec.md, Tool-confirmation gate).
NoQuestionForgotten ==
  \A c \in Contexts :
    Quiet(c) /\ Cache!Present(c) =>
      LET h == log[store[c].session]
      IN  {u \in Open(c) : Resolve(ToolOf(h, u)) = "defer"} \subseteq store[c].pending

\* A human's decision is about the tools that one response put to the client,
\* all of them and no other.
DecisionAnswersQuestion ==
  \A s \in Sessions, r \in Requests :
    LET uses == UNION {Uses(log[s][i]) : i \in {j \in ByHuman(log[s]) : log[s][j].by = r}} IN
    uses # {} =>
      \E q \in Requests :
        /\ At(q, "done") /\ d[q].outcome = "INPUT_REQUIRED"
        /\ d[q].entry.session = s /\ d[q].deferred = uses

\* A pending approval leaves the cache with the entry, or because every tool it
\* names has been confirmed: no later write wipes out a question.
PendingClearedByDecision ==
  [][\A c \in Contexts :
       Cache!Present(c) /\ store'[c] # Cache!NoEntry =>
         \A u \in store[c].pending \ store'[c].pending :
           Confirmed(log'[store[c].session], u)]_vars

\* A conversation whose cache entry is never lost has one session, also when its
\* first turn fails halfway.
OneSessionPerContext ==
  \A s, q \in Sessions : tag[s] = tag[q] /\ tag[s] # NoContext => s = q

\* The user.message that opened the turn of a request: its own, or, for a resume,
\* the one whose turn used the tools it decided.
Opener(r) ==
  LET h == log[d[r].entry.session]
      mine == UNION {Uses(h[i]) : i \in {j \in ByHuman(h) : h[j].by = r}}
  IN  IF d[r].anchor # NoAnchor THEN d[r].anchor
      ELSE IF mine = {} THEN 0
      ELSE Serving(Upto(h, Largest(mine)))

\* Nothing was open or queued in the session when message m was posted.
PostedInPeace(h, m) ==
  LET before == Upto(h, m - 1)
  IN  Waiting(before) = {} /\ Idle(before) /\ ~Gated(before)

\* Request r has read its outcome from its own turn.
ReadsOwn(r) ==
  Active(r) /\ d[r].outcome \in {"COMPLETED", "FAILED", "INPUT_REQUIRED"} =>
    LET h == log[d[r].entry.session]
        m == Opener(r)
    IN  /\ m # 0
        /\ PostedInPeace(h, m)
        /\ Of(h, (m + 1)..d[r].read, {"user.message"}) = {}
        => Serving(Upto(h, d[r].read)) = m

\* The outcome of a turn is read from that turn, never from an earlier one whose
\* events the list still ends with (services/dispatcher.rs, Turn scoping).  The
\* turn must have been opened on a session at rest and have had it to itself.
ReadsOwnTurn == \A r \in Requests : ReadsOwn(r)

----------------------------------------------------------------------------
(* What a document or a comment says, and some behaviour of the code refutes. *)

\* docs/spec.md: already-relayed confirmations are tracked so that repeated polls
\* do not double-confirm.
NoToolConfirmedTwice ==
  \A s \in Sessions : \A i, j \in Relayed(log[s]) :
    Uses(log[s][i]) \intersect Uses(log[s][j]) # {} => i = j

\* gcl.yaml: each pending tool is matched against the rules by its key, and
\* allow/deny are decided automatically.  So a tool a rule denies is not allowed.
DeniedToolsStayDenied ==
  \A s \in Sessions : \A i \in Relayed(log[s]) : \A c \in log[s][i].decisions :
    Resolve(ToolOf(log[s], c[1])) = "deny" => c[2] = "deny"

\* services/claude_client.rs, send_events: the anchor prevents a prior turn's
\* terminal status from being read as this turn's result.
AnchorIsolatesTurn ==
  \A r \in Requests :
    Active(r) /\ d[r].outcome = "COMPLETED" /\ d[r].anchor # NoAnchor =>
      Serving(Upto(log[d[r].entry.session], d[r].read)) = d[r].anchor

\* DecisionAnswersQuestion above is also one: gcl.yaml says that defer surfaces the
\* tool as INPUT_REQUIRED and resumes on the next message.  With recovery, what is
\* relayed as a human's decision need not have been asked for.
=============================================================================
