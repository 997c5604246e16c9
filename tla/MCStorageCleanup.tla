-------------------------- MODULE MCStorageCleanup --------------------------
(***************************************************************************)
(* One container with an image, a network, a named and an anonymous        *)
(* volume, beside the image and the volume of the data archives; an update *)
(* to a second image, two cleanups at a time, two scheduled ones, a fault. *)
(***************************************************************************)
EXTENDS StorageCleanup

MCRules == {{"image", "volume"}, {"network", "cache"}}
=============================================================================
