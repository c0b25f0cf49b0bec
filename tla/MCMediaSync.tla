---------------------------- MODULE MCMediaSync ----------------------------
(* Instances of MediaSync for TLC: an image, a second one and a sound.     *)
EXTENDS MediaSync

CONSTANTS png, jpg, mp3, small, large

Files     == {png, jpg, mp3}
Images    == {png, jpg}
Sizes     == {small, large}
TooLarge  == {large}
=============================================================================
