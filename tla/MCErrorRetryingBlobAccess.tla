--------------------- MODULE MCErrorRetryingBlobAccess ---------------------
(* The instances of the retrying decorator that TLC checks use constants   *)
(* from the cfg files only.  With a maximum delay of 6 and intervals 1, 2, *)
(* 4, 5, 5, ... the interval reaches its cap before time is up.            *)
EXTENDS ErrorRetryingBlobAccess
=============================================================================
