------------------------ MODULE MCImageDistribution ------------------------
(***************************************************************************)
(* Constants for the runs of ImageDistribution: the peers of two images on *)
(* two hosts, each image on both.                                          *)
(***************************************************************************)
EXTENDS ImageDistribution

CONSTANTS img1, img2, h1, h2

MCImage == {img1, img2}
MCHost  == {h1, h2}
MCUses  == MCImage \X MCHost
MCPulls == <<img1>>

(* "app:1.0" and "lib:2" have archives of their own; "app:1.0" and         *)
(* "app-1.0" are both written to tm-image-app-1-0.tar.gz.                  *)
MCApart  == [i \in MCImage |-> i]
MCShared == [i \in MCImage |-> img1]

=============================================================================
