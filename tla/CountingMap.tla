----------------------------- MODULE CountingMap -----------------------------
(***************************************************************************)
(* What one collective insert() into a minimizer-based counting map       *)
(* promises (spec 4.5, 8.4, 8.5), with no collectives, binning loop or     *)
(* exchange: at some moment one minimizer-to-rank function is fixed, and   *)
(* from then on a rank may fill its table, in one step, with the global    *)
(* count of every k-mer whose minimizer that function gives to it.        *)
(***************************************************************************)
EXTENDS Naturals, FiniteSets

CONSTANTS
    Ranks,      \* the ranks of the communicator
    Mins,       \* minimizer values
    KmerSet,    \* k-mer values
    Positions   \* the places a k-mer can occur at in the global input

VARIABLES
    occ,        \* occ[<<k, m>>]: the occurrences of k-mer k in the global
                \* input inside super-mers of minimizer m; never changes
    decided,    \* the minimizer-to-rank function has been fixed
    owner,      \* that function
    table       \* table[r]: rank r's count table; 0 stands for an absent key

vars == <<occ, decided, owner, table>>

(* The owner before it is fixed: some rank, never read.                    *)
Undecided == [m \in Mins |-> CHOOSE r \in Ranks : TRUE]

(* The table rank r holds once it has counted: the k-mers of the          *)
(* minimizers it owns, each with the number of its occurrences.           *)
Owned(r) ==
    [k \in KmerSet |-> Cardinality(UNION {occ[<<k, m>>] : m \in {x \in Mins : owner[x] = r}})]

(* The input is whatever the callers hold.                                *)
Init ==
    /\ occ \in [KmerSet \X Mins -> SUBSET Positions]
    /\ decided = FALSE
    /\ owner = Undecided
    /\ table = [r \in Ranks |-> [k \in KmerSet |-> 0]]

(* The global, identical-on-every-rank decision of spec 8.4.              *)
Decide ==
    /\ ~decided
    /\ decided' = TRUE
    /\ owner' \in [Mins -> Ranks]
    /\ UNCHANGED <<occ, table>>

(* Rank r fills its table.                                                 *)
Count(r) ==
    /\ decided
    /\ table' = [table EXCEPT ![r] = Owned(r)]
    /\ UNCHANGED <<occ, decided, owner>>

Next == Decide \/ \E r \in Ranks : Count(r)

Spec == Init /\ [][Next]_vars
=============================================================================
