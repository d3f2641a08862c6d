----------------------------- MODULE MCTestNode -----------------------------
(***************************************************************************)
(* Small instances of TestNode: a generator on one node, whose channel a   *)
(* sink on another node reads.                                             *)
(***************************************************************************)
EXTENDS TestNode, TLC

CONSTANTS n1, n2, generator, print, wire

MCNodeOf == (generator :> n1) @@ (print :> n2)
MCInput == (generator :> None) @@ (print :> wire)
MCOutput == (generator :> wire) @@ (print :> None)
=============================================================================
