------------------------ MODULE MCCredentialRefresh ------------------------
(***************************************************************************)
(* Instances of CredentialRefresh for TLC.  A unit of time stands for      *)
(* about a minute: the credential of ten units is due for a refresh half   *)
(* way, one of none arrives expired (the local clock is ahead), and a      *)
(* negative life is an expiry the catalog did not state.                   *)
(***************************************************************************)
EXTENDS CredentialRefresh, TLC

MCLives == {10, 0, -1}
MCLong == {10}
ProvidersAlike == Permutations(Providers)
=============================================================================
