------------------------------ MODULE MCChannel ------------------------------
(***************************************************************************)
(* Instances of MmChannel: channel A owns the metadata stream and the      *)
(* preview, channel B the snapshot stream and may link the metadata.       *)
(***************************************************************************)
EXTENDS MmChannel

CONSTANTS A, B, meta, preview, snapshot, t1, t2

MCOwner == [x \in Streams |-> IF x = snapshot THEN B ELSE A]

\* A superbuf queue can have one frame of the preview too many.
MCMaxFrames == [x \in Streams |-> IF x = preview THEN 2 ELSE 1]

NoLinks == [c \in Channels |-> None]

\* Zero shutter lag: one bundle of preview and metadata.
Zsl == [bundles |-> {A}, streams |-> {meta, preview}, links |-> NoLinks,
        shared |-> FALSE, fails |-> {}, reuses |-> FALSE]
\* Live snapshot: a bundle that links the metadata of the preview.
Live == [Zsl EXCEPT !.bundles = {B}, !.streams = {meta, snapshot},
                    !.links = [NoLinks EXCEPT ![B] = meta]]

Failing(sc, s) == [sc EXCEPT !.fails = {s}]

AllScenes == {Failing(Zsl, preview), Failing(Live, snapshot)}
==============================================================================
