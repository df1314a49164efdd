---------------------------- MODULE MCListService ----------------------------
(* One client, another poster, two runs of the script at a time. *)
EXTENDS ListService, TLC

CONSTANTS c, v, w1, w2

MCPosters == {c, v}
MCClients == {c}
MCWorkers == {w1, w2}
MCCalls == {"upload"}
MCAsked == {"upDown"}

\* Bound: a post lacks columns because none are set; once runs have met in their
\* writes, only a client that wants nothing is followed, and the other poster; a
\* run whose client waits for it no more meets only runs of that client.
MCBound ==
    \A x \in Clients :
        /\ IF alone THEN fields[x] # "some"
                    ELSE AtRest(x) /\ fields[x] = "none" /\ since[x] = Never
        /\ \A w, u \in Workers :
              run[w].poster = x /\ ~ Serves(w, x) => run[u].poster \in {x, ""}

\* The workers are alike; the properties of the run are safety properties.
MCSymmetry == Permutations(MCWorkers)
==============================================================================
