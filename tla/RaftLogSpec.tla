---------------------------- MODULE RaftLogSpec ----------------------------
(***************************************************************************)
(* What a store of Raft entries promises its node: a window of terms that  *)
(* ends in the last index, whose part up to the base (the snapshot) is     *)
(* settled. Entries are added behind the base and replace what follows     *)
(* them, the base only advances, what lies before the base may be dropped, *)
(* and a snapshot from the leader replaces everything.                     *)
(***************************************************************************)
EXTENDS Integers, Sequences

VARIABLES aterms,    \* the terms that can be read, by index
          abase,     \* index of the snapshot
          alast      \* last index

aVars == <<aterms, abase, alast>>

AInit == aterms = [i \in {} |-> 0] /\ abase = 0 /\ alast = 0

Within(f, S) == [i \in DOMAIN f \cap S |-> f[i]]

\* Entries from index first to last replace everything from first on, so that
\* terms never decrease along the log.
AAppend ==
    \E first \in (abase + 1)..(alast + 1) :
        /\ alast' >= first
        /\ DOMAIN aterms' = {i \in DOMAIN aterms : i < first} \cup (first..alast')
        /\ Within(aterms', 1..(first - 1)) = Within(aterms, 1..(first - 1))
        /\ \A i, j \in DOMAIN aterms' : i < j => aterms'[i] <= aterms'[j]
        /\ UNCHANGED abase

\* The base moves to an index that can be read; what lies before it may go,
\* what lies behind it stays.
AAdvance ==
    /\ abase' = abase \/ (abase' > abase /\ abase' \in DOMAIN aterms)
    /\ DOMAIN aterms' \subseteq DOMAIN aterms
    /\ {i \in DOMAIN aterms : i >= abase'} \subseteq DOMAIN aterms'
    /\ aterms' = Within(aterms, DOMAIN aterms')
    /\ UNCHANGED alast

\* A snapshot that is not older replaces the log.
AInstall ==
    /\ abase' >= abase /\ alast' = abase' /\ abase' >= 1
    /\ DOMAIN aterms' = {abase'}

ANext == AAdvance \/ AAppend \/ AInstall

ASpec == AInit /\ [][ANext]_aVars
=============================================================================
