------------------------------- MODULE MCBoot -------------------------------
(* The harts of MCSmpBoot, and the device trees of MCBootMain.             *)
EXTENDS Boot, MCBootMain, MCSmpBoot
=============================================================================
