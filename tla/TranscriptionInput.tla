--------------------------- MODULE TranscriptionInput ---------------------------
(***************************************************************************)
(* Which file the provider is pointed at: the original upload, the         *)
(* playback rendition, neither yet (wait), or neither ever (impossible).   *)
(* One pure function of the code, asked by the upload hook before anything *)
(* is transcoded and again by every `transcription.submit`.                *)
(***************************************************************************)
DeliveryModes == {"presigned_url", "upload"}

\* A file as the provider's declared limits see it.
Candidates == [accepted : BOOLEAN, fits : BOOLEAN]

SelectionKinds == {"original", "rendition", "wait", "impossible"}

Usable(file) == file.accepted /\ file.fits

(* renditions is {} or the one finished rendition; expected says that a      *)
(* transcode which could still produce one is pending or running.            *)
SelectTranscriptionInput(delivery, original, renditions, expected) ==
  CASE delivery = "presigned_url" /\ Usable(original) -> "original"
    [] ~(delivery = "presigned_url" /\ Usable(original)) /\ renditions # {} ->
         IF \A file \in renditions : Usable(file) THEN "rendition" ELSE "impossible"
    [] OTHER -> IF expected THEN "wait" ELSE "impossible"
===============================================================================
