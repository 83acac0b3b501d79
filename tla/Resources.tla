----------------------------- MODULE Resources -----------------------------
(***************************************************************************)
(* How the components write down a resource for the engine (DeployEngine): *)
(* `new k8s...(name, inputs, opts)` as a goal.                             *)
(***************************************************************************)
Goal(key, data, auto, refs, deps) ==
    [key |-> key, data |-> data, auto |-> auto, refs |-> refs, deps |-> deps,
     given |-> FALSE, bad |-> FALSE]

\* Kubernetes replaces a ConfigMap or a Secret whenever its data changes;
\* metadata.name decides whether beside the old one or instead of it.
AutoNamed(data, refs, deps) == Goal(data, data, TRUE, refs, deps)
Named(data, refs, deps)     == Goal(data, data, FALSE, refs, deps)

\* At Cloudflare a name that changes makes another one beside the old, and a
\* name that is still there is refused.
GivenName(name) == [Goal(name, name, TRUE, {}, {}) EXCEPT !.given = TRUE]

\* Everything else is changed in place.
InPlace(data, refs, deps) == Goal("same", data, FALSE, refs, deps)

\* The inputs come out of an apply that throws.
Throwing(goal, throws) == [goal EXCEPT !.bad = throws]

\* A resource under its logical name, and none.
New(name, goal) == [n \in {name} |-> goal]
NoGoals == [n \in {} |-> {}]

\* Of two with one name the first counts.
Over(first, second) ==
    [n \in DOMAIN first \cup DOMAIN second |-> IF n \in DOMAIN first THEN first[n] ELSE second[n]]

When(condition, goals) == IF condition THEN goals ELSE NoGoals

\* Of all: what has the same name twice is refused elsewhere.
AllGoals(goals) ==
    [n \in UNION {DOMAIN goals[k] : k \in DOMAIN goals} |->
        goals[CHOOSE k \in DOMAIN goals : n \in DOMAIN goals[k]][n]]
=============================================================================
