----------------------------- MODULE MCSmpBoot ------------------------------
(* Start-up of three harts: of a chip of four that has no hart 2, with one *)
(* MSIP register more, or of one whose last hart has id 4.                 *)
EXTENDS SmpBoot

MCHarts   == {0, 1, 3}
MCFarHart == {0, 1, 4}
=============================================================================
