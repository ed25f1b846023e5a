----------------------------- MODULE MCJobQueue -----------------------------
(* One device that is pushed to and one upstream that is pulled from.        *)
EXTENDS JobQueueProperties, TLC

CONSTANTS dev, src, other

MCDevices == {dev, src}
MCModes == {[d \in MCDevices |-> IF d = src THEN "upstream" ELSE "device"]}

\* An upstream alone.
MCUpstream == {src}
MCUpstreamModes == {[d \in MCUpstream |-> "upstream"]}

\* Two devices that are pushed to, and an upstream.
MCThree == {dev, other, src}
MCThreeModes == {[d \in MCThree |-> IF d = src THEN "upstream" ELSE "device"]}

MCSymmetry == Permutations(Workers)
=============================================================================
