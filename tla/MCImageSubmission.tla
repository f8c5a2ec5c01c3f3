---------------------------- MODULE MCImageSubmission ----------------------------
EXTENDS ImageSubmission, TLC

CONSTANTS r1, r2, k1, c1, i1, s1, s2

ImageContent == [i \in Image |-> c1]
ImageStyle == [i \in Image |-> s1]

Interchangeable == Permutations(Request)

AllFaults == FaultKinds
==================================================================================
