---------------------------- MODULE MCComponents ----------------------------
(***************************************************************************)
(* The components that share no state with one another, for TLC: a         *)
(* behaviour is one of them, chosen at the start.                          *)
(***************************************************************************)
EXTENDS SigningKeys, Admission, Statements, Reads, Subscriptions, UriTemplates,
        MemorySessions, Messages, TLC

CONSTANTS r1, r2, r3, a, b, v1, l1, u1, u2, u3, t1, t2, h1, h2, h3

OnLoop == v1 :> l1
FromClient == r1 :> a @@ r2 :> a @@ r3 :> b
RankOf == u1 :> 1 @@ u2 :> 2 @@ u3 :> 3
TriedAs == t1 :> 1 @@ t2 :> 2
BindsTo == t1 :> {u1} @@ t2 :> {u1, u2}
Between == {<<>>, <<"x">>, <<"/">>, <<"x", "y">>}
Kinds == h1 :> "http" @@ h2 :> "http" @@ h3 :> "sse"
Ttls == h1 :> 0 @@ h2 :> 1 @@ h3 :> 0

VARIABLE component   \* the one that moves

othersVars == <<keysVars, admissionVars, statementVars, registriesVars, readsVars,
                subscriptionsVars, splitVars, memoryVars, messageVars>>
componentVars == <<component, othersVars>>

Components == {"keys", "admission", "statements", "digests", "pages", "reads", "handlers",
               "subscriptions", "uris", "memory", "messages"}

\* What is registered and removed while each reader of the registries runs.
Changing ==
  CASE component = "digests" -> {u1, t1}
    [] component = "pages" -> Resource
    [] component = "reads" -> {u1, t1, t2}
    [] component = "handlers" -> {u1, t1, Prompt}
    [] OTHER -> {}

\* A URI with nothing to split, while another component moves.
Unsplit == text = <<>> /\ literals = [i \in Places |-> <<>>] /\ stops = [i \in Values |-> {}]

ComponentsInit ==
  /\ component \in Components
  /\ KeysInit /\ AdmissionInit /\ RegistriesInit /\ ReadsInit
  /\ StatementsInit /\ SubscriptionsInit /\ MemoryInit /\ MessagesInit
  /\ component # "messages" => message = "call"
  /\ component # "statements" => db = "mysql"
  /\ component # "subscriptions" => transport = "http"
  /\ \A i \in Item \ Changing : HowNow(i) = "absent"
  /\ IF component = "uris" THEN TRUE ELSE Unsplit
  /\ SplitInit

RegistryMovesHere ==
  /\ component \in {"digests", "pages", "reads", "handlers"}
  /\ \E i \in Changing, how \in How : Changes(i, how)

ComponentsNext ==
  /\ UNCHANGED component
  /\ \/ /\ component = "keys" /\ KeysNext
        /\ UNCHANGED <<admissionVars, statementVars, registriesVars, readsVars,
                       subscriptionsVars, splitVars, memoryVars, messageVars>>
     \/ /\ component = "admission" /\ AdmissionNext
        /\ UNCHANGED <<keysVars, statementVars, registriesVars, readsVars,
                       subscriptionsVars, splitVars, memoryVars, messageVars>>
     \/ /\ component = "statements" /\ StatementsNext
        /\ UNCHANGED <<keysVars, admissionVars, registriesVars, readsVars,
                       subscriptionsVars, splitVars, memoryVars, messageVars>>
     \/ /\ component = "subscriptions" /\ SubscriptionsNext
        /\ UNCHANGED <<keysVars, admissionVars, statementVars, registriesVars, readsVars,
                       splitVars, memoryVars, messageVars>>
     \/ /\ component = "uris" /\ SplitNext
        /\ UNCHANGED <<keysVars, admissionVars, statementVars, registriesVars, readsVars,
                       subscriptionsVars, memoryVars, messageVars>>
     \/ /\ component = "memory" /\ MemoryNext
        /\ UNCHANGED <<keysVars, admissionVars, statementVars, registriesVars, readsVars,
                       subscriptionsVars, splitVars, messageVars>>
     \/ /\ component = "messages" /\ MessagesNext
        /\ UNCHANGED <<keysVars, admissionVars, statementVars, registriesVars, readsVars,
                       subscriptionsVars, splitVars, memoryVars>>
     \/ /\ \/ RegistryMovesHere /\ UNCHANGED readsVars
           \/ component = "digests" /\ DigestsMove /\ UNCHANGED readsVars
           \/ component = "pages" /\ PagesMove /\ UNCHANGED readsVars
           \/ component = "reads" /\ \E r \in Reader : Reading(r)
           \/ component = "handlers" /\ \E r \in Reader : Answering(r)
        /\ UNCHANGED <<keysVars, admissionVars, statementVars, subscriptionsVars, splitVars,
                       memoryVars, messageVars>>

ComponentsSpec == ComponentsInit /\ [][ComponentsNext]_componentVars
=============================================================================
