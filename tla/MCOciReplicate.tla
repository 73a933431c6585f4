--------------------------- MODULE MCOciReplicate ---------------------------
(* Source artefacts: images A (amd64), B (arm64) and C (ppc64le, already   *)
(* carrying the annotation k) that share the layer l1; a manifest list L   *)
(* of A, B, C whose registry default is A; an image N whose config blob is *)
(* missing in the source; a legacy v1 image V with layer l2.              *)
EXTENDS OciReplicate

CONSTANTS cA, cB, cC, cN, l1, l2, sV, ph, none, amd64, arm64, ppc64le, k

Image(c, ls, a, p) ==
    [kind |-> "v2", cfg |-> c, layers |-> ls, ann |-> a, entries |-> <<>>, platform |-> p]
ImgA == Raw(Image(cA, <<l1>>, {}, amd64))
ImgB == Raw(Image(cB, <<l1>>, {}, arm64))
ImgC == Raw(Image(cC, <<l1>>, {k}, ppc64le))
ImgN == Raw(Image(cN, <<l1>>, {}, amd64))
ImgV == Raw([kind |-> "v1", cfg |-> none, layers |-> <<l2>>, ann |-> {},
             entries |-> <<>>, platform |-> amd64])
ListL == Raw([kind |-> "list", cfg |-> none, layers |-> <<>>, ann |-> {},
              platform |-> amd64,
              entries |-> <<[digest |-> ImgA, platform |-> amd64],
                            [digest |-> ImgB, platform |-> arm64],
                            [digest |-> ImgC, platform |-> ppc64le]>>])

MCBlobs == {cA, cB, cC, cN, l1, l2, sV, ph}
MCSrcBlobs == {cA, cB, cC, l1, l2}
MCPlatforms == {amd64, arm64, ppc64le}
MCDefaultImage == [s \in {ListL, ImgA, ImgN, ImgV} |-> IF s = ListL THEN ImgA ELSE s]
MCModes == {"REGISTRY_DEFAULTS", "PREFER_MULTIARCH", "NORMALISE_TO_MULTIARCH"}

Call(s, m, f, a) == [src |-> s, mode |-> m, filter |-> f, annotations |-> a]

\* Every mode, with and without a filter and the annotation k, for the list,
\* the image and the image without config; the v1 image with and without
\* the annotation k.
MCConfigsPass ==
    {Call(s, m, f, a) : s \in {ListL, ImgA, ImgN}, m \in MCModes,
                        f \in {MCPlatforms, {arm64, ppc64le}}, a \in {{}, {k}}}
    \cup {Call(ImgV, m, MCPlatforms, a) : m \in MCModes, a \in {{}, {k}}}
\* The v1 image.
MCConfigsV1 == {Call(ImgV, "PREFER_MULTIARCH", MCPlatforms, {})}
\* The list, filtered to arm64 and ppc64le, with the annotation k.
MCConfigsOrder == {Call(ListL, "PREFER_MULTIARCH", {arm64, ppc64le}, {k})}
=============================================================================
