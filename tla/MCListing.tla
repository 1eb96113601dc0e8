----------------------------- MODULE MCListing -----------------------------
(* Instance of Listing for TLC.                                            *)
EXTENDS Listing

MCPhotos == {1, 3}
=============================================================================
