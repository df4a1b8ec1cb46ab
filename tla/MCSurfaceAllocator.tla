-------------------------- MODULE MCSurfaceAllocator --------------------------
(***************************************************************************)
(* The surface allocator for TLC.  A pool of two samples of which the      *)
(* codec references one leaves one for the renderer; two pools let a       *)
(* sample of the old one come back when the new one is there, and two      *)
(* addresses let the two frames contexts have the same or different ones.  *)
(* A queue of one frame lets the streaming thread wait for the worker.     *)
(***************************************************************************)
EXTENDS SurfaceAllocator, TLC
=============================================================================
