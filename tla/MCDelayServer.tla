--------------------------- MODULE MCDelayServer ---------------------------
(* Two delay servers of two hosts, or of one host after a reload.          *)
EXTENDS DelayServer, TLC

CONSTANTS s1, s2, h1, h2, r1, r2

Times(n, s, d) == [until_success |-> s, times |-> n, deadline |-> d]

OneHost == [s \in Servers |-> h1]
TwoHosts == [s \in Servers |-> IF s = s1 THEN h1 ELSE h2]
FirstIsUrgent == [r \in Rules |-> IF r = r1 THEN 9 ELSE 1]
OnceOrSuccess == {NoFrequency, Times(2, TRUE, TRUE)}
OnceOrTwice == {NoFrequency, Times(2, FALSE, FALSE)}

ThreadSymmetry == Permutations(Threads)
=============================================================================
