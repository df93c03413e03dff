-------------------------------- MODULE MCSetup --------------------------------
(* Setup with one policy of every kind that the judges tell apart: off, as *)
(* scaffolded, and off that by one setting or two.                         *)
EXTENDS Setup

Base == [enabled |-> TRUE, allow |-> {"openrouter"}, zdr |-> TRUE,
         redaction |-> "none", provider |-> Nothing, key |-> Nothing,
         url |-> Nothing]

MCPolicies ==
    {DefaultPolicy, Base,
     [Base EXCEPT !.allow = {}],
     [Base EXCEPT !.redaction = Nothing],
     [Base EXCEPT !.allow = {"openai"}],
     [Base EXCEPT !.url = "elsewhere"],
     [Base EXCEPT !.provider = "openai"],
     [Base EXCEPT !.provider = "openai", !.zdr = FALSE],
     [Base EXCEPT !.provider = "openai", !.zdr = FALSE, !.allow = {"openai"}],
     [Base EXCEPT !.provider = "openai", !.zdr = FALSE, !.allow = {"openai"},
                  !.url = "openrouter.ai"],
     [Base EXCEPT !.provider = "another", !.zdr = FALSE, !.allow = {"another"}],
     [Base EXCEPT !.provider = "openrouter", !.key = "OTHER_KEY"]}

MCManifests ==
    [model : MCPolicies \cup {NoKey, Malformed}, target : {"plain"},
     valid : {TRUE}, needs : {{}}]
    \cup [model : {Base}, target : Targets, valid : BOOLEAN, needs : {{}, {"LOGIN"}}]
    \cup [model : {NoKey}, target : {"other"}, valid : {TRUE}, needs : {{}}]

MCSecrets == {"LOGIN"}

NoOverride == [w \in Workers |-> Nothing]

MCInstalls ==
    {[override |-> NoOverride, bundled |-> Workers, node |-> TRUE],
     [override |-> NoOverride, bundled |-> Workers, node |-> FALSE],
     [override |-> [NoOverride EXCEPT !["agentic"] = "missing"],
      bundled |-> Workers, node |-> TRUE],
     [override |-> [w \in Workers |-> "found"], bundled |-> {}, node |-> TRUE],
     [override |-> NoOverride, bundled |-> {"agentic"}, node |-> TRUE]}
=============================================================================
