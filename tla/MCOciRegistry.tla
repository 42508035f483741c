--------------------------- MODULE MCOciRegistry ----------------------------
(* Instances of OciRegistry for TLC: an image with one layer, and an index  *)
(* that lists the image and is attached to it (its subject): the two ways   *)
(* one manifest keeps another alive.                                        *)
EXTENDS OciRegistry

CONSTANTS layer, image, index

Layer(x) == IF x = image THEN {layer} ELSE {}
Child(x) == IF x = index THEN {image} ELSE {}
Subject(x) == IF x = index THEN image ELSE None
=============================================================================
