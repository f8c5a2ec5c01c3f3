------------------------------ MODULE MCImageWorker ------------------------------
EXTENDS ImageWorker, TLC

CONSTANTS j1, j2, c1, u1, h1, h2

\* Two jobs of one Content compete for its versions.
OneContent == [j \in Job |-> c1]
OneRequester == [j \in Job |-> u1]

Twins == Permutations(Job) \union Permutations(Horse)

\* Everything but an acknowledgement of a commit getting lost.
CrashFaults == FaultKinds \ {"commit_lost", "soft_delete"}
==================================================================================
