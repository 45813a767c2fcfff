----------------------------- MODULE MCService -----------------------------
EXTENDS Service, TLC

\* Without fields, or with the one the documents may also bring.
MCConfigs == {{}} \cup {{t} : t \in Tags}
MCIds == 1 .. Cardinality(Tags)
Symmetry == Permutations(Threads) \cup Permutations(Docs) \cup Permutations(Tags)

\* The calls of two threads interleave in the first run of the program; in the
\* last one they come one at a time, beside Commit.
OneAtATime == starts = MaxStarts => \A t, u \in Threads : pc[t] # "idle" /\ pc[u] # "idle" => t = u
=============================================================================
