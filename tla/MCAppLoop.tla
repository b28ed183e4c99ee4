----------------------------- MODULE MCAppLoop ------------------------------
(* AppLoop for TLC: a device that looks up its address, takes Cloudflare    *)
(* jobs and posts to ntfy. DNS is left to the proofs: to the turn it is     *)
(* one more request between the address and the jobs.                       *)
EXTENDS AppLoop

MCRequests == {"IP", "SETUP", "POST"}
=============================================================================
