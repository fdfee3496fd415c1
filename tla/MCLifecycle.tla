---------------------------- MODULE MCLifecycle ----------------------------
(***************************************************************************)
(* Lifecycle for TLC.  Addresses are 2 bits wide: the script's            *)
(* '10.0.0.0/16' becomes the whole space and '10.0.1.0/24' its upper half, *)
(* a proper sub-range that is not the first one, as in the script.         *)
(***************************************************************************)
EXTENDS Lifecycle

MCVpcCidr == [base |-> 0, plen |-> 0]
MCSubnetCidr == [base |-> 2, plen |-> 1]

=============================================================================
