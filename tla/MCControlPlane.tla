--------------------------- MODULE MCControlPlane ---------------------------
(***************************************************************************)
(* ControlPlane for TLC: two accounts, two ids of each kind and a 2-bit    *)
(* address space (four addresses, seven CIDR blocks).                      *)
(***************************************************************************)
EXTENDS ControlPlane

\* The VPC is the whole space or its lower half; subnet inputs are both
\* halves, a single address of the upper half, and a malformed string, so
\* that containment failures, overlap, exhaustion and parse errors all
\* happen.
MCVpcCidrIn == {[base |-> 0, plen |-> 0], [base |-> 0, plen |-> 1], Malformed}

MCSubnetCidrIn == {[base |-> 0, plen |-> 1], [base |-> 2, plen |-> 1],
                   [base |-> 3, plen |-> 2], Malformed}

=============================================================================
