---------------------------- MODULE MCInference ----------------------------
(***************************************************************************)
(* TLC instances of Inference: two requests, both generations or both      *)
(* try-ons (a generation and a try-on share nothing in these modules).     *)
(***************************************************************************)
EXTENDS Inference, TLC

CONSTANTS r1, r2, k1, k2, s1, s2, earlier

MCRequests == {r1, r2}
MCKeys == {k1, k2}
MCSlots == {s1, s2}

\* Two prompts that match themselves, and the second the entry of the first.
MCSimilar == {<<k1, k1>>, <<k2, k2>>, <<k2, k1>>}

Generation(key, redacted, shadow) ==
    [kind |-> "llm", key |-> key, cache |-> TRUE, redacted |-> redacted, shadow |-> shadow,
     artifacts |-> {}, storage |-> "moved"]
TryOnOf(artifacts, storage) ==
    [kind |-> "vton", key |-> k1, cache |-> FALSE, redacted |-> FALSE, shadow |-> FALSE,
     artifacts |-> artifacts, storage |-> storage]

Own == (r1 :> s1) @@ (r2 :> s2)
Same == (r1 :> s1) @@ (r2 :> s1)

\* Two generations: the same prompt or similar ones, one perhaps redacted or with a shadow.
Generations ==
    {[ask |-> (r1 :> Generation(k1, FALSE, FALSE)) @@ (r2 :> Generation(key, redacted, shadow)), slot |-> Own, preload |-> TRUE] :
        key \in MCKeys, redacted \in BOOLEAN, shadow \in BOOLEAN}

\* Two try-ons: each with its request_id on a worker that has its model loaded, the
\* local files kept; or with the same one on a worker that has not, the local files
\* moved to the store or without a store to move them to.
Scene(first, second, storage, slots) ==
    [ask |-> (r1 :> TryOnOf(first, storage)) @@ (r2 :> TryOnOf(second, storage)),
     slot |-> slots, preload |-> (slots = Own)]
TryOns ==
    {Scene(Roles, {}, "copied", Own), Scene({"person"}, {}, "moved", Same),
     Scene({}, {}, "none", Same), Scene({}, {"person"}, "none", Same)}

MCScenarios == Generations \union TryOns
=============================================================================
