---------------------------- MODULE MCDockerGate ----------------------------
(* Instances of DockerGate for TLC. *)
EXTENDS DockerGate, TLC

CONSTANTS m1, m2, b1, b2, b3, q1, q2

\* m1 is an image and m2 an attestation with one blob more than is remembered.
\* q1 pulls the image by its digest, q2 whatever a tag names.
SomeKinds  == m1 :> "image" @@ m2 :> "attest"
SomeLayers == m1 :> <<b1>> @@ m2 :> <<b2, b3>>
SomeWants  == q1 :> {<<m1, FALSE>>} @@ q2 :> {<<m1, TRUE>>}

\* One client pulls an image of two blobs again and again.
ImageKind   == m1 :> "image"
ImageLayers == m1 :> <<b1, b2>>
ImageWants  == q1 :> {<<m1, FALSE>>}
=============================================================================
