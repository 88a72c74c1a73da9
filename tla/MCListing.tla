----------------------------- MODULE MCListing ------------------------------
(* Model-checking instance of Listing.                                     *)
EXTENDS Listing
=============================================================================
