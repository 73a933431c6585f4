---------------------------- MODULE MCOciTarStream ----------------------------
(* An image with a config blob of 300 bytes and two layers, an            *)
(* uncompressed tar layer of 1024 bytes (tar archives are whole blocks)    *)
(* and a gzipped one of 700 bytes; and an index whose first image is it.   *)
EXTENDS OciTarStream

CONSTANTS cfg1, layer1, layer2

Image == [kind |-> "image",
          config |-> [digest |-> cfg1, size |-> 300],
          layers |-> <<[digest |-> layer1, size |-> 1024], [digest |-> layer2, size |-> 700]>>]

MCManifests == {Image, [kind |-> "list", manifests |-> <<Image>>]}
=============================================================================
