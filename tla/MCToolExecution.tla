-------------------------- MODULE MCToolExecution --------------------------
(* Small instances of ToolExecution and ToolCatalogue for TLC. *)
EXTENDS ToolExecution, ToolCatalogue

CONSTANTS c1, c2, c3, r0, r1, r2

(* A retryable tool in a thread, a tool in a thread, a coroutine that may    *)
(* swallow a cancellation.                                                   *)
MCBridged == {c1, c2}
MCSuppressing == {c3}
MCRetryable == {c1, c3}

AllReady == [database |-> "open", tables |-> {"cellar_schema", "pairing_rules"}, chroma |-> "ready",
             key |-> TRUE]
Gone == [AllReady EXCEPT !.database = "absent", !.chroma = "down", !.key = FALSE]
MCWorlds == {
  AllReady, Gone, [AllReady EXCEPT !.tables = {"cellar_schema"}, !.chroma = "empty"],
  [AllReady EXCEPT !.database = "broken", !.chroma = "broken"]}

Entry(n) == ExpectedPrompts[n]
Files == {Entry(n).file : n \in DOMAIN ExpectedPrompts}
AsExpected == [f \in Files |-> "text"]
Reviewed == [permits |-> 4, fast |-> 100, slow |-> 300, retry |-> TRUE, attempts |-> 2, delay |-> 1,
             remaining |-> 10, costs |-> {"free"}]
Limits == [calls |-> 5, steps |-> 30, flags |-> <<TRUE, TRUE, TRUE>>, topics |-> <<"wine">>,
           offTopics |-> <<"poem", "code">>]
Base == [manifest |-> ExpectedPrompts, directory |-> AsExpected, policy |-> Reviewed, ttl |-> 1,
         model |-> TRUE, extended |-> TRUE, limits |-> Limits, zone |-> "known",
         memory |-> [enabled |-> TRUE, path |-> "memory.db", counts |-> <<10, 30, 24, 64>>],
         settings |-> [webTools |-> TRUE, provider |-> "tavily", keyNamed |-> TRUE, chroma |-> "set"]]

(* The base; configurations that are served and bind or probe other tools;  *)
(* and ones that are a slip away from being served.                         *)
WithPolicy(p)    == [Base EXCEPT !.policy = p]
WithDirectory(d) == [Base EXCEPT !.directory = d]
WithManifest(m)  == [Base EXCEPT !.manifest = m]
WithSettings(s)  == [Base EXCEPT !.settings = s]
MCConfigurations == <<
  Base,
  [Base EXCEPT !.extended = FALSE, !.settings.chroma = "missing", !.policy.costs = {"free", "cheap"}],
  WithSettings([Base.settings EXCEPT !.webTools = FALSE]),
  WithSettings([Base.settings EXCEPT !.provider = "unreadable"]),
  WithSettings([Base.settings EXCEPT !.keyNamed = FALSE, !.chroma = "unreadable"]),
  [Base EXCEPT !.model = FALSE], [Base EXCEPT !.limits.steps = 3],
  [Base EXCEPT !.limits.topics = <<"">>], [Base EXCEPT !.limits.offTopics = <<"poem", "poem">>],
  [Base EXCEPT !.limits.flags = <<TRUE, None, TRUE>>], [Base EXCEPT !.limits.calls = None],
  [Base EXCEPT !.memory.counts = <<10, 0, 24, 64>>], [Base EXCEPT !.memory.path = ""],
  [Base EXCEPT !.zone = "unknown"], [Base EXCEPT !.ttl = 0],
  WithPolicy([Reviewed EXCEPT !.delay = 89, !.attempts = 1]),
  WithPolicy([Reviewed EXCEPT !.delay = 90]), WithPolicy([Reviewed EXCEPT !.slow = 11]),
  WithPolicy([Reviewed EXCEPT !.fast = None]), WithPolicy([Reviewed EXCEPT !.attempts = 3]),
  WithPolicy([Reviewed EXCEPT !.costs = {"dear"}]),
  WithDirectory([f \in Files \ {"wine.md"} |-> "text"]),
  WithDirectory([f \in Files \cup {"old.md"} |-> "text"]),
  WithDirectory([AsExpected EXCEPT !["grape.md"] = "blank"]),
  WithManifest([ExpectedPrompts EXCEPT !.wine_description = Entry("grape_description"),
                                       !.grape_description = Entry("wine_description")]),
  WithManifest([ExpectedPrompts EXCEPT !.rag_only_user.renderer = "static"])>>

(* The two components share no variable: TLC explores each of them from one *)
(* initial state of the other instead of their product.  Time passes only   *)
(* when the base configuration is served, from a world where all is ready.  *)
NoCallYet == \A c \in Calls : call[c].at = "new"
NoStartYet == app = [config |-> 1, phase |-> "starting"] /\ history = <<AllReady>>
MCInit == Init /\ CatalogueInit
MCNext == \/ NoStartYet /\ Next /\ UNCHANGED catalogueVars
          \/ NoCallYet /\ CatalogueNext /\ UNCHANGED vars
             /\ \/ UNCHANGED history
                \/ app = [config |-> 1, phase |-> "serving"]
                   /\ Head(history) = AllReady /\ SeqRange(history') \subseteq {AllReady, Gone}
MCSpec == MCInit /\ [][MCNext]_<<vars, catalogueVars>> /\ Fairness
=============================================================================
