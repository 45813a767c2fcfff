-------------------------- MODULE MCParallelSearch --------------------------
EXTENDS ParallelSearch

\* Of five sections of two indices: no match at all; matches in the first
\* and the last; in every section; in one only.
MCHitSets == {{}, {1, 8}, {0, 3, 4, 7, 9}, {4}}
=============================================================================
