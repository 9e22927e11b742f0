------------------------------ MODULE Minimizer ------------------------------
(***************************************************************************)
(* The rolling m-mer of src/minimizer.cpp: one Minimizer<valType> object,  *)
(* its operations setMmerSize, init and next, and the minimizer of a k-mer *)
(* that its operator< defines.  valType is an unsigned integer of Width    *)
(* bits; << wraps modulo 2^Width.  A default-constructed object holds      *)
(* indeterminate val, mmer_size and mask.                                  *)
(***************************************************************************)
EXTENDS MinimizerOps, Integers

CONSTANTS
    Bases,      \* base codes
    IntBits     \* bits of int, the type (1 << (2 * mmer_size)) is evaluated in

ASSUME MinimizerAssumption ==
    /\ M \in Nat \ {0}
    /\ Bases \subseteq 0 .. 3
    /\ Width \in Nat \ {0}
    /\ IntBits \in Nat \ {0}
    /\ 2 * M <= Width      \* the m-mer fits valType

VARIABLES
    val,        \* the packed value
    mask,       \* the mask of setMmerSize
    sized,      \* setMmerSize has been called
    inited,     \* init has run since setMmerSize, with mmer_size set
    window      \* the last M bases the object has consumed (history only)

vars == <<val, mask, sized, inited, window>>

TypeOK ==
    /\ val \in Word
    /\ mask \in Word
    /\ sized \in BOOLEAN
    /\ inited \in BOOLEAN
    /\ window \in [1 .. M -> Bases]

(* Minimizer() = default: val and mask hold whatever the storage held.     *)
(* The mask is only read after setMmerSize, so its initial value is 0.    *)
Init ==
    /\ val \in Word
    /\ mask = 0
    /\ sized = FALSE
    /\ inited = FALSE
    /\ window \in [1 .. M -> Bases]

(* mask = (1 << (2 * mmer_size)) - 1 in int, converted to valType.       *)
SetMmerSize ==
    /\ \E mk \in IntMasks(IntBits) : mask' = ToValType(mk)
    /\ sized' = TRUE
    /\ UNCHANGED <<val, inited, window>>

(* Faulty variant: init shifts the bases into val without zeroing it.     *)
InitMNoZero ==
    /\ \E s \in [1 .. M -> Bases], v \in Word :
          /\ val' = IF sized THEN InitValueFrom(val, s) ELSE v
          /\ window' = s
    /\ inited' = (sized \/ inited)
    /\ UNCHANGED <<mask, sized>>

(* init zeroes val and shifts in mmer_size bases.  Before setMmerSize,   *)
(* mmer_size is indeterminate: the loop runs any number of times and val   *)
(* may end as any word, and the call does not make val a packed window.   *)
InitM ==
    /\ \E s \in [1 .. M -> Bases], v \in Word :
          /\ val' = IF sized THEN InitValue(s) ELSE v
          /\ window' = s
    /\ inited' = (sized \/ inited)
    /\ UNCHANGED <<mask, sized>>

(* next before setMmerSize ands with an indeterminate mask: any word.     *)
NextM ==
    /\ \E b \in Bases, v \in Word :
          /\ val' = IF sized THEN NextValue(val, mask, b) ELSE v
          /\ window' = Append(Tail(window), b)
    /\ UNCHANGED <<mask, sized, inited>>

Next == SetMmerSize \/ InitM \/ NextM

Spec == Init /\ [][Next]_vars

(* Once init has run after setMmerSize, any sequence of next calls, and  *)
(* of further init and setMmerSize calls, leaves val equal to the packed   *)
(* value of the last M bases: the rolling update agrees with init over the *)
(* same window, which the window minimum relies on.  A next or an init     *)
(* before setMmerSize reads the indeterminate mask or mmer_size, and does  *)
(* not count as the init the property starts from.                        *)
RollingMatchesWindow == (sized /\ inited) => val = Pack(window)
=============================================================================
