------------------------------ MODULE MCForwarding ------------------------------
(* The topology of main.py for TLC: three hosts on ports 1, 2 and 3. *)
EXTENDS Forwarding, TLC

CONSTANTS PLY, SRV, OTH

MCHost   == <<PLY, SRV, OTH>>
MCPortOf == (PLY :> 1) @@ (SRV :> 2) @@ (OTH :> 3)
================================================================================
