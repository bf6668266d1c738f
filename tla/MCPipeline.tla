----------------------------- MODULE MCPipeline -----------------------------
(***************************************************************************)
(* Instances of Pipeline for TLC: two events, every dedup key, policy and  *)
(* kind of failure that tell different stories.                            *)
(***************************************************************************)
EXTENDS Pipeline

\* The events differ in their bytes.
With(key, policy, permanent, bug) ==
    [key |-> key, payload |-> [e \in Events |-> e], policy |-> policy,
     permanent |-> permanent, broken |-> bug]

\* They do not.
Alike(s) == [s EXCEPT !.payload = [e \in Events |-> 0]]

MCSettings ==
    {With("header", "namespace", TRUE, {1}), With("header", "bypass", TRUE, {2}),
     With("header", "suppress", FALSE, {1}), With("field", "suppress", TRUE, {}),
     With("payload", "suppress", TRUE, {1}), Alike(With("payload", "suppress", TRUE, {1})),
     With("offset", "suppress", TRUE, {2})}

=============================================================================
