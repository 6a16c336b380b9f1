------------------------------- MODULE Reads --------------------------------
(***************************************************************************)
(* The handlers of resources/read, prompts/get and completion/complete:    *)
(* each resolves what it runs by what its caller may see, runs the user's  *)
(* function while the registries change, audits the outcome and answers.   *)
(* A stateless read says who may cache its answer (cacheScope): a          *)
(* template's is public only while no protected item may answer for the    *)
(* same URI, which is kept per version of the registry.                    *)
(***************************************************************************)
EXTENDS Registries

CONSTANTS
  Reader,    \* the requests
  Binds,     \* the URIs a template's pattern matches
  Tried,     \* the place of each template in templates_by_specificity
  NoItem    \* no item

ASSUME ReadsAssumption ==
  /\ NoItem \notin Item
  /\ Binds \in [Template -> SUBSET Resource]
  /\ Tried \in [Template -> Nat]
  /\ \A s, t \in Template : s # t => Tried[s] # Tried[t]

VARIABLES
  reader,    \* per request: its step, what it asks and what it resolved to
  recorded,  \* per request, the statuses it audited
  shadowed   \* _shadowed_templates: a version, and the templates shadowed at it

readsVars == <<reader, recorded, shadowed>>

Uses == {"read", "get", "complete"}
Statuses == {"ok", "busy", "timeout", "not_found", "tool_error", "error", "denied"}

ReaderState ==
  [step : {"idle", "templates", "found", "running", "scope", "resources", "shadows", "done"},
   use : Uses, view : View, uri : Resource \cup {NoItem}, item : Item \cup {NoItem},
   how : How, since : 0 .. MaxVersion, current : 0 .. MaxVersion, seen : SUBSET Resource,
   answer : Statuses \cup {"none", "empty", "unknown", "cancelled"},
   scope : {"none", "public", "private"}]

ReadsTypeOK ==
  /\ reader \in [Reader -> ReaderState]
  /\ recorded \in [Reader -> Seq(Statuses)]
  /\ shadowed \in [version : 0 .. MaxVersion, found : SUBSET Template]

NoRequest == [step |-> "idle", use |-> "read", view |-> "anonymous", uri |-> NoItem,
              item |-> NoItem, how |-> "absent", since |-> 0, current |-> 0,
              seen |-> {}, answer |-> "none", scope |-> "none"]

ReadsInit ==
  /\ reader = [r \in Reader |-> NoRequest]
  /\ recorded = [r \in Reader |-> <<>>]
  /\ shadowed = [version |-> 0, found |-> {}]

\* The request r goes on to a record of new fields; nothing else changes.
Becomes(r, rec) ==
  /\ reader' = [reader EXCEPT ![r] = rec]
  /\ UNCHANGED <<registriesVars, recorded, shadowed>>

\* A new request is served in the place of one that is done.
Begins(r, rec) ==
  /\ reader[r].step \in {"idle", "done"}
  /\ reader' = [reader EXCEPT ![r] = rec] /\ recorded' = [recorded EXCEPT ![r] = <<>>]
  /\ UNCHANGED <<registriesVars, shadowed>>

\* done(status): audits it, and answers.
Ended(r, status) ==
  /\ reader' = [reader EXCEPT ![r].step = "done", ![r].answer = status]
  /\ recorded' = [recorded EXCEPT ![r] = Append(@, status)]
  /\ UNCHANGED <<registriesVars, shadowed>>

\* _step_up_scope: a token that holds none of a protected item's scopes.
StepsUp(r) == reader[r].view = "stepper" /\ reader[r].how = "protected"

Matching(view, uri, at) == {t \in Template : uri \in Binds[t] /\ VisibleTo(view, at[t])}
IsTriedFirst(t, S) == t \in S /\ \A s \in S : Tried[t] <= Tried[s]
TriedFirst(S) == CHOOSE t \in S : IsTriedFirst(t, S)

-----------------------------------------------------------------------------
(* resources/read. *)

\* _resolve_resource: the concrete resource is looked up first, then the
\* templates, under the lock each time.
ReadAsked(r, view, uri) ==
  LET rec == [NoRequest EXCEPT !.view = view, !.uri = uri, !.since = Version]
  IN Begins(r, IF VisibleTo(view, HowNow(uri))
               THEN [rec EXCEPT !.step = "found", !.item = uri, !.how = HowNow(uri)]
               ELSE [rec EXCEPT !.step = "templates"])

TemplatesTried(r) ==
  LET T == Matching(reader[r].view, reader[r].uri, past[Version])
  IN /\ reader[r].step = "templates"
     /\ \/ T = {} /\ Ended(r, "not_found")
        \/ \E t \in T :
             /\ IsTriedFirst(t, T)
             /\ Becomes(r, [reader[r] EXCEPT !.step = "found", !.item = t, !.how = HowNow(t)])

\* _check_step_up, then the resource runs.
ReadStarts(r) ==
  /\ reader[r].step = "found" /\ reader[r].use = "read"
  /\ IF StepsUp(r) THEN Ended(r, "denied")
     ELSE Becomes(r, [reader[r] EXCEPT !.step = "running"])

Runs(r, use) == reader[r].step = "running" /\ reader[r].use = use

\* How the function ends: it may raise, or return what cannot be sent
\* ("unfit"), or NotFound ("nothing").
RunOutcomes == {"ok", "busy", "timeout", "missing", "cancelled", "tool_error", "error",
             "unfit", "nothing"}

ReadStatus(o) ==
  CASE o \in {"missing", "nothing"} -> "not_found"
    [] o \in {"cancelled", "unfit"} -> "error"
    [] OTHER -> o

\* A read that succeeds is audited before its cacheScope is judged: none in
\* the handshake era, private for a retry.
ReadOk(r) ==
  /\ recorded' = [recorded EXCEPT ![r] = Append(@, "ok")]
  /\ \E next \in {[reader[r] EXCEPT !.step = "done"],
                  [reader[r] EXCEPT !.step = "done", !.scope = "private"],
                  [reader[r] EXCEPT !.step = "scope"]} :
       reader' = [reader EXCEPT ![r] = [next EXCEPT !.answer = "ok"]]
  /\ UNCHANGED <<registriesVars, shadowed>>

ReadEndsEarly(r, o) ==   \* mutant: audited before what it returned is rendered
  /\ Runs(r, "read")
  /\ IF o = "ok" THEN ReadOk(r)
     ELSE /\ reader' = [reader EXCEPT ![r].step = "done", ![r].answer = ReadStatus(o)]
          /\ recorded' = [recorded EXCEPT ![r] =
               (IF o \in {"unfit", "nothing"} THEN <<"ok">> ELSE <<>>) \o <<ReadStatus(o)>>]
          /\ UNCHANGED <<registriesVars, shadowed>>
ReadEnds(r, o) ==
  /\ Runs(r, "read")
  /\ IF o = "ok" THEN ReadOk(r) ELSE Ended(r, ReadStatus(o))

-----------------------------------------------------------------------------
(* The cacheScope of a read. *)

Scoped(r, scope) == [reader[r] EXCEPT !.step = "done", !.scope = scope]

\* _cache_scope: the templates kept shadowed for this version decide.
JudgesScope(r) ==
  LET item == reader[r].item
  IN /\ reader[r].step = "scope"
     /\ Becomes(r,
          CASE reader[r].how = "protected" -> Scoped(r, "private")
            [] reader[r].how = "open" /\ item \in Resource -> Scoped(r, "public")
            [] OTHER ->
                 IF shadowed.version = Version
                 THEN Scoped(r, IF item \in shadowed.found THEN "private" ELSE "public")
                 ELSE [reader[r] EXCEPT !.step = "resources", !.current = Version])

\* _shadowed: the version, the resources and the templates are read one
\* after the other.
ListsProtected(r) ==
  /\ reader[r].step = "resources"
  /\ Becomes(r, [reader[r] EXCEPT !.step = "shadows",
                   !.seen = {u \in Resource : HowNow(u) = "protected"}])

FoundByResources(seen, at) ==   \* mutant: protected templates shadow nothing
  {t \in Template : at[t] = "open" /\ Binds[t] \cap seen # {}}
Found(seen, at) ==
  {t \in Template :
     /\ at[t] = "open"
     /\ \/ Binds[t] \cap seen # {}
        \/ \E s \in Template : at[s] = "protected" /\ Tried[s] < Tried[t]
                               /\ Binds[s] \cap Binds[t] # {}}

Judged(r) == reader[r].current

ShadowsKept(r) ==
  LET found == Found(reader[r].seen, past[Version])
  IN /\ reader[r].step = "shadows"
     /\ shadowed' = [version |-> Judged(r), found |-> found]
     /\ reader' = [reader EXCEPT ![r] =
          [Scoped(r, IF reader[r].item \in found THEN "private" ELSE "public")
             EXCEPT !.seen = {}]]
     /\ UNCHANGED <<registriesVars, recorded>>

-----------------------------------------------------------------------------
(* prompts/get and completion/complete. *)

\* _find_prompt: a hidden prompt is an unknown one; nothing is audited yet.
GetAsked(r, view) ==
  LET rec == [NoRequest EXCEPT !.use = "get", !.view = view, !.item = Prompt,
                               !.how = HowNow(Prompt)]
  IN Begins(r, IF ~VisibleTo(view, rec.how)
               THEN [rec EXCEPT !.step = "done", !.answer = "unknown"]
               ELSE IF view = "stepper" /\ rec.how = "protected"
               THEN [rec EXCEPT !.step = "done", !.answer = "denied"]
               ELSE [rec EXCEPT !.step = "found"])

\* Arguments that do not bind are refused, and audited.
GetStarts(r) ==
  /\ reader[r].step = "found" /\ reader[r].use = "get"
  /\ Ended(r, "denied") \/ Becomes(r, [reader[r] EXCEPT !.step = "running"])

GetEnds(r, o) ==
  /\ Runs(r, "get") /\ o \notin {"nothing"}
  /\ Ended(r, CASE o \in {"cancelled", "unfit", "missing"} -> "error"
                [] OTHER -> o)

\* A template's or a prompt's argument; a concrete URI has none.  An unknown
\* argument, a static completer and none at all are answered at once.
CompleteAsked(r, view, i) ==
  LET how == HowNow(i)
      rec == [NoRequest EXCEPT !.use = "complete", !.view = view, !.item = i, !.how = how]
      answers == IF ~VisibleTo(view, how) THEN {"unknown"}
                 ELSE IF i \in Resource THEN {"empty"}
                 ELSE IF view = "stepper" /\ how = "protected" THEN {"denied"}
                 ELSE {"unknown", "empty", "ok", "running"}
  IN \E a \in answers :
       Begins(r, IF a = "running" THEN [rec EXCEPT !.step = "running"]
                 ELSE [rec EXCEPT !.step = "done", !.answer = a])

CompleteEnds(r, o) ==
  /\ Runs(r, "complete") /\ o \notin {"nothing"}
  /\ Becomes(r, [reader[r] EXCEPT !.step = "done",
                   !.answer = CASE o \in {"cancelled", "unfit", "missing"} -> "error"
                                [] OTHER -> o])

\* The request itself is cancelled while the function runs: nothing audits
\* the outcome here.
Abandoned(r) ==
  /\ reader[r].step = "running"
  /\ Becomes(r, [reader[r] EXCEPT !.step = "done", !.answer = "cancelled"])

Reading(r) ==
  \/ \E view \in View, u \in Resource : ReadAsked(r, view, u)
  \/ TemplatesTried(r) \/ ReadStarts(r) \/ JudgesScope(r) \/ ListsProtected(r)
  \/ ShadowsKept(r) \/ Abandoned(r)
  \/ \E o \in RunOutcomes : ReadEnds(r, o)

Answering(r) ==
  \/ \E view \in View : GetAsked(r, view)
  \/ \E view \in View, i \in Item : CompleteAsked(r, view, i)
  \/ GetStarts(r) \/ Abandoned(r)
  \/ \E o \in RunOutcomes : GetEnds(r, o) \/ CompleteEnds(r, o)

ReadsNext ==
  \/ RegistryMoves /\ UNCHANGED readsVars
  \/ \E r \in Reader : Reading(r) \/ Answering(r)

ReadsSpec == RegistriesInit /\ ReadsInit /\ [][ReadsNext]_<<registriesVars, readsVars>>

-----------------------------------------------------------------------------
(* Properties. *)

Resolution(view, uri, at) ==
  IF VisibleTo(view, at[uri]) THEN uri
  ELSE IF Matching(view, uri, at) = {} THEN NoItem
  ELSE TriedFirst(Matching(view, uri, at))

\* An answer any cache may share is the answer every caller would be given:
\* when nothing was registered or removed since the read began, every view
\* resolves its URI to the same item (server.py, _cache_scope: public "only
\* when an anonymous request would get the same bytes").
PublicIsSame ==
  \A r \in Reader :
    reader[r].scope = "public" /\ reader[r].since = Version =>
      \A view \in View : Resolution(view, reader[r].uri, past[Version]) = reader[r].item

\* Whatever an answered request ran into, it is audited once, as what its
\* client was told; a completion and a prompt that was not found are not.
AuditMatchesAnswer ==
  \A r \in Reader :
    LET q == reader[r]
    IN q.step = "done" /\ q.answer # "cancelled" =>
         CASE q.use = "read" -> recorded[r] = <<q.answer>>
           [] q.use = "get" -> \/ recorded[r] = <<q.answer>>
                               \/ recorded[r] = <<>> /\ q.answer \in {"unknown", "denied"}
           [] q.use = "complete" -> recorded[r] = <<>>

\* The readers of resources and prompts: an answer any cache may share is the one every
\* caller would be given, and each request is audited once, as what its client was told.
ReadsHonest == PublicIsSame /\ AuditMatchesAnswer
=============================================================================
