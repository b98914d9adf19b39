----------------------------- MODULE MCBedroom -----------------------------
(* Instance of Bedroom for TLC. Besides the buttons, the web sets a LED with *)
(* half brightness, one that scenes set last, and the light of no scene.     *)
EXTENDS Bedroom

=============================================================================
