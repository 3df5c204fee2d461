--------------------------- MODULE MCSampleUpload ---------------------------
(* Small instances of SampleUpload for TLC. *)
EXTENDS SampleUpload

MCDevices == <<2, 1>>

\* Nothing; or a sample with one descriptor for the first point and two
\* samples for the second one, as overlapping uploads leave them.
MCBefore ==
  {<<>>,
   <<[point |-> 1, descs |-> {<<0, 1>>}],
     [point |-> 2, descs |-> {}], [point |-> 2, descs |-> {<<0, 1>>}]>>}
=============================================================================
