------------------------- MODULE OnboardingContract -------------------------
(***************************************************************************)
(* What the onboarding API promises its operators, without saying how      *)
(* (the header of onboarding/service.py): the catalog changes only by an   *)
(* import, an import needs an approval that stands at that moment, and it  *)
(* uses the approval up.  An approval may be withdrawn at any time: the    *)
(* repository moved, the session was analysed again or cancelled.          *)
(***************************************************************************)
EXTENDS Naturals

CONSTANT Sessions

VARIABLES
    standing,   \* sessions whose approval has been neither used nor withdrawn
    imported    \* session -> how many imports it has made

contractVars == <<standing, imported>>

ContractInit == standing = {} /\ imported = [s \in Sessions |-> 0]

Approve(s) ==
    /\ s \notin standing
    /\ standing' = standing \cup {s} /\ UNCHANGED imported

Withdraw == standing' \subseteq standing /\ UNCHANGED imported

Import(s) ==
    /\ s \in standing
    /\ standing' = standing \ {s}
    /\ imported' = [imported EXCEPT ![s] = @ + 1]

ContractNext == Withdraw \/ \E s \in Sessions : Approve(s) \/ Import(s)

ContractSpec == ContractInit /\ [][ContractNext]_contractVars
=============================================================================
