---------------------------- MODULE MCCcfNetwork ----------------------------
(* A network of two nodes that is scaled between one and two nodes.        *)
EXTENDS CcfNetwork

MCTargets == {1, 2}
=============================================================================
