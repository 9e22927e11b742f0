------------------------------ MODULE DistCalls ------------------------------
(***************************************************************************)
(* Consecutive calls of minimizer_based_counting_unordered_map::insert on  *)
(* one map object.  The count table this->c is a member and persists from  *)
(* one call to the next; everything else insert() works with is local to  *)
(* the call or passed in: the caller's load map of the new batch, the      *)
(* sorted indices, rank_load, minimizer_rank, output.  Each call is one    *)
(* run of DistCounter.                                                      *)
(***************************************************************************)
EXTENDS DistCounter, FiniteSetsExt

CONSTANT MaxCalls   \* bound on the number of insert() calls

VARIABLES
    calls,      \* the number of insert() calls begun
    counted     \* counted[k]: occurrences of k-mer k in the batches of the
                \* calls before the current one

allVars == <<vars, calls, counted>>

CallsInit ==
    /\ Init
    /\ calls = 1
    /\ counted = [k \in KmerSet |-> 0]

(* Every rank has returned from insert() and the caller calls it again     *)
(* with its next batch and that batch's local load map.  A new call sorts  *)
(* afresh, so the order std::sort leaves among equal loads is chosen anew. *)
NextCall ==
    /\ \A r \in Ranks : pc[r] = "done"
    /\ calls < MaxCalls
    /\ calls' = calls + 1
    /\ counted' = [k \in KmerSet |-> counted[k] + Occurrences(k)]
    /\ input' \in [Ranks -> Inputs]
    /\ pc' = [r \in Ranks |-> "empty"]
    /\ nonEmpty' = FALSE
    /\ acc' = [m \in Mins |-> 0]
    /\ hist' = [r \in Ranks |-> LocalLoad(r)']
    /\ tie' \in {f \in [Mins -> 1 .. Cardinality(Mins)] :
                    \A a, b \in Mins : f[a] = f[b] => a = b}
    /\ load' = [r \in Ranks |-> [j \in Ranks |-> 0]]
    /\ binned' = [r \in Ranks |-> {}]
    /\ rankmap' = [r \in Ranks |-> [m \in Mins |-> 0]]
    /\ recv' = [r \in Ranks |-> {}]
    /\ UNCHANGED table

CallsNext == (Next /\ UNCHANGED <<calls, counted>>) \/ NextCall

CallsSpec == CallsInit /\ [][CallsNext]_allVars

-----------------------------------------------------------------------------
(* Spec 8.5 over every call so far: once every rank has returned, each     *)
(* k-mer of all the batches is held by exactly one rank, with its number   *)
(* of occurrences in all of them.  minimizer_rank is rebuilt from each     *)
(* call's loads, so a later call may route a minimizer, and with it a      *)
(* k-mer already counted on one rank, to another.                          *)
CountsExactAcrossCalls ==
    (\A r \in Ranks : pc[r] = "done") =>
        \A k \in KmerSet :
            LET n == counted[k] + Occurrences(k)
            IN  IF n = 0 THEN Holders(k) = {}
                ELSE \E r \in Ranks : Holders(k) = {r} /\ table[r][k] = n

(* Spec 8.5 summed over the ranks: once every rank has returned, the       *)
(* counts of a k-mer on all ranks add up to its occurrences in every batch *)
(* so far.  A second call may route a k-mer to another rank, but          *)
(* local_insert adds r(existing, 1) to a key already in this->c, so no     *)
(* occurrence is lost or counted twice; an insert that overwrote the      *)
(* existing count would lose the first call's occurrences.                 *)
CountsConservedAcrossCalls ==
    (\A r \in Ranks : pc[r] = "done") =>
        \A k \in KmerSet :
            MapThenSumSet(LAMBDA r : table[r][k], Ranks) = counted[k] + Occurrences(k)
=============================================================================
